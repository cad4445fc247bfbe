------------------------------ MODULE Accounts ------------------------------
(* User accounts: sign-in through GitHub, the administrator's changes, and *)
(* the accounts seeded at startup.  The sign-in handler is a coroutine     *)
(* whose database work never awaits, so sign-ins follow one another; the   *)
(* handlers of an administrator run in the thread pool, between any two of *)
(* their statements.  Every statement is a transaction of its own.         *)
CONSTANTS Users,      \* primary keys; each is given to one account at most
          Visits,     \* browsers that may be signing in
          Patches,    \* handlers of PATCH /users/{user_id}
          Bodies,     \* the bodies they receive: fields with their new values
          GitHubIds, Logins, Mails,
          Public,     \* the addresses people use at GitHub
          NoReply,    \* the address made up for a login without a public one
          AdminMail,  \* settings.ADMIN_EMAIL
          None

VARIABLES users,      \* the table
          born,       \* the keys given so far
          github,     \* what GitHub says of each of its accounts
          visits,     \* the state of each sign-in
          patches,    \* the state of each PATCH
          admins,     \* the accounts an administrator's token names
          up          \* the API is serving

vars == <<users, born, github, visits, patches, admins, up>>

Roles == {"admin", "client"}
Row == [email : Mails, login : Logins \cup {None}, gid : GitHubIds \cup {None},
        role : Roles, active : BOOLEAN, password : BOOLEAN]
\* what a sign-in updates: the name, and the identity of an account found by its address
Profiles == [login : Logins] \cup [login : Logins, gid : GitHubIds]
Resting == {"out", "in", "conflict"}
Working  == {"by_mail", "create", "read", "write", "decide"}
Visit == [pc : Resting \cup {"fetched"} \cup Working,
          gid : GitHubIds \cup {None}, login : Logins \cup {None}, email : Mails \cup {None},
          user : Users \cup {None}, fields : Profiles \cup {None}, seen : Row \cup {None}]
Patch == [pc : {"idle", "write"}, user : Users \cup {None},
          fields : Bodies \cup {None}, seen : Row \cup {None}]
Profile == [login : Logins \cup {None}, email : Public \cup {None}]

ASSUME AccountsAssumption ==
    /\ None \notin Users \cup GitHubIds \cup Logins \cup Mails \cup Row \cup Profiles \cup Bodies
    /\ NoReply \in [Logins -> Mails] /\ AdminMail \in Mails /\ Public \subseteq Mails
    /\ Bodies \subseteq [email : Mails] \cup [role : Roles] \cup [active : BOOLEAN]

Blank   == [pc |-> "out", gid |-> None, login |-> None, email |-> None,
            user |-> None, fields |-> None, seen |-> None]
Unasked == [pc |-> "idle", user |-> None, fields |-> None, seen |-> None]

Init ==
    /\ users = [u \in Users |-> None]
    /\ born = {}
    /\ github \in [GitHubIds -> Profile]
    /\ \A g, h \in GitHubIds :
          g # h => /\ github[g].login = None \/ github[g].login # github[h].login
                   /\ github[g].email = None \/ github[g].email # github[h].email
    /\ visits = [v \in Visits |-> Blank]
    /\ patches = [p \in Patches |-> Unasked]
    /\ admins = {}
    /\ up = FALSE

Exists(u) == users[u] # None
\* the unique constraints of the table, for a row to be stored under u
Clash(u, row) ==
    \E w \in Users \ {u} :
        /\ Exists(w)
        /\ \/ users[w].email = row.email
           \/ row.login # None /\ users[w].login = row.login
           \/ row.gid # None /\ users[w].gid = row.gid

\* Variant: every column is written, as it was read.
MergedWhole(row, seen, fields) ==
    [c \in DOMAIN row |-> IF c \in DOMAIN fields THEN fields[c] ELSE seen[c]]
\* An UPDATE names the columns whose value differs from the one read.
Merged(row, seen, fields) ==
    [c \in DOMAIN row |->
        IF c \in DOMAIN fields /\ fields[c] # seen[c] THEN fields[c] ELSE row[c]]

-----------------------------------------------------------------------------
(* Sign-in *)

\* Variant: sign-ins run in the thread pool.
LoopNeverBusy(v) == TRUE
\* No other sign-in is between two of its statements.
LoopFree(v) == \A w \in Visits \ {v} : visits[w].pc \notin Working

\* GitHub has answered; the handler still waits for its turn.  A request to
\* GitHub that fails changes nothing.
GetGitHubUser(v, g) ==
    /\ up /\ visits[v].pc \in Resting /\ github[g].login # None
    /\ visits' = [visits EXCEPT ![v] =
           [Blank EXCEPT !.pc = "fetched", !.gid = g, !.login = github[g].login,
                         !.email = IF github[g].email = None THEN NoReply[github[g].login]
                                                             ELSE github[g].email]]
    /\ UNCHANGED <<users, born, github, patches, admins, up>>

Found(v, u, fields) ==
    visits' = [visits EXCEPT ![v] = [@ EXCEPT !.pc = "read", !.user = u, !.fields = fields]]
Advance(v, pc) == visits' = [visits EXCEPT ![v].pc = pc]
\* signed in, or refused; a conflict is told apart from the other errors
End(v, outcome) == visits' = [visits EXCEPT ![v] = [Blank EXCEPT !.pc = outcome]]

GetByGitHubId(v) ==
    LET me == visits[v]
        matches == {u \in Users : Exists(u) /\ users[u].gid = me.gid}
    IN  /\ me.pc = "fetched" /\ LoopFree(v)
        /\ \/ \E u \in matches : Found(v, u, [login |-> me.login])
           \/ matches = {} /\ Advance(v, "by_mail")
        /\ UNCHANGED <<users, born, github, patches, admins, up>>

GetByEmail(v) ==
    LET me == visits[v]
        matches == {u \in Users : Exists(u) /\ users[u].email = me.email}
    IN  /\ me.pc = "by_mail"
        /\ \/ \E u \in matches : Found(v, u, [login |-> me.login, gid |-> me.gid])
           \/ matches = {} /\ Advance(v, "create")
        /\ UNCHANGED <<users, born, github, patches, admins, up>>

ReadRow(v) ==
    LET u == visits[v].user
    IN  /\ visits[v].pc = "read"
        /\ IF Exists(u) THEN visits' = [visits EXCEPT ![v].pc = "write", ![v].seen = users[u]]
                        ELSE End(v, "out")
        /\ UNCHANGED <<users, born, github, patches, admins, up>>

UpdateAccount(v) ==
    LET me  == visits[v]
        row == Merged(users[me.user], me.seen, me.fields)
    IN  /\ me.pc = "write"
        /\ \/ ~Exists(me.user) /\ End(v, "out") /\ UNCHANGED users
           \/ Exists(me.user) /\ Clash(me.user, row) /\ End(v, "conflict") /\ UNCHANGED users
           \/ /\ Exists(me.user) /\ ~Clash(me.user, row)
              /\ users' = [users EXCEPT ![me.user] = row]
              /\ Advance(v, "decide")
        /\ UNCHANGED <<born, github, patches, admins, up>>

CreateAccount(v) ==
    LET me  == visits[v]
        row == [email |-> me.email, login |-> me.login, gid |-> me.gid,
                role |-> "client", active |-> TRUE, password |-> FALSE]
    IN  /\ me.pc = "create"
        /\ \E u \in Users \ born :
              \/ Clash(u, row) /\ End(v, "conflict") /\ UNCHANGED <<users, born>>
              \/ /\ ~Clash(u, row)
                 /\ users' = [users EXCEPT ![u] = row]
                 /\ born' = born \cup {u}
                 /\ visits' = [visits EXCEPT ![v].pc = "decide", ![v].user = u]
        /\ UNCHANGED <<github, patches, admins, up>>

\* The account is read once more; the token carries its role.
IssueToken(v) ==
    LET u == visits[v].user
    IN  /\ visits[v].pc = "decide"
        /\ \/ /\ ~(Exists(u) /\ users[u].active)
              /\ End(v, "out")
              /\ UNCHANGED admins
           \/ /\ Exists(u) /\ users[u].active
              /\ End(v, "in")
              /\ admins' = IF users[u].role = "admin" THEN admins \cup {u} ELSE admins
        /\ UNCHANGED <<users, born, github, patches, up>>

\* A database error: what is committed stays, the answer is an error.
SignInFails(v) ==
    /\ visits[v].pc \in Working
    /\ End(v, "out")
    /\ UNCHANGED <<users, born, github, patches, admins, up>>

SignInStep(v) ==
    \/ \E g \in GitHubIds : GetGitHubUser(v, g)
    \/ GetByGitHubId(v) \/ GetByEmail(v)
    \/ ReadRow(v) \/ UpdateAccount(v) \/ CreateAccount(v)
    \/ IssueToken(v) \/ SignInFails(v)

-----------------------------------------------------------------------------
(* Administrators *)

AuthenticateAdmin(u) ==
    /\ up /\ Exists(u) /\ u \notin admins
    /\ users[u].role = "admin" /\ users[u].password /\ users[u].active
    /\ admins' = admins \cup {u}
    /\ UNCHANGED <<users, born, github, visits, patches, up>>

\* The role is the token's, the account it names must still exist.
Authorized == up /\ admins # {}

UpdateUser(p, u, body) ==
    /\ Authorized /\ patches[p].pc = "idle" /\ Exists(u)
    /\ patches' = [patches EXCEPT ![p] =
           [pc |-> "write", user |-> u, fields |-> body, seen |-> users[u]]]
    /\ UNCHANGED <<users, born, github, visits, admins, up>>

\* The commit of a PATCH.  A row that is gone, a clash and a database error are
\* answered as errors and change nothing.
CommitUpdate(p) ==
    LET me  == patches[p]
        row == Merged(users[me.user], me.seen, me.fields)
    IN  /\ me.pc = "write"
        /\ \/ UNCHANGED users
           \/ /\ Exists(me.user) /\ ~Clash(me.user, row)
              /\ users' = [users EXCEPT ![me.user] = row]
        /\ patches' = [patches EXCEPT ![p] = Unasked]
        /\ UNCHANGED <<born, github, visits, admins, up>>

DeleteUser(u) ==
    /\ Authorized /\ Exists(u)
    /\ users' = [users EXCEPT ![u] = None]
    /\ admins' = admins \ {u}
    /\ UNCHANGED <<born, github, visits, patches, up>>

-----------------------------------------------------------------------------
(* Startup, and GitHub *)

Crash ==
    /\ up /\ up' = FALSE
    /\ visits' = [v \in Visits |-> Blank]
    /\ patches' = [p \in Patches |-> Unasked]
    /\ UNCHANGED <<users, born, github, admins>>

\* Variant: other administrators are not looked for.
OtherAdminIgnored(table) == FALSE
OtherAdmin(table) ==
    \E u \in Users : table[u] # None /\ table[u].role = "admin" /\ table[u].email # AdminMail

Seeded(row) == [row EXCEPT !.role = "admin", !.active = TRUE, !.password = TRUE]
FirstAdmin  == [email |-> AdminMail, login |-> None, gid |-> None,
                role |-> "admin", active |-> TRUE, password |-> TRUE]

\* initialize_database, then create_admin; an exception of it stops the start.
Start(reset) ==
    LET table == IF reset THEN [u \in Users |-> None] ELSE users
        known == {u \in Users : table[u] # None /\ table[u].email = AdminMail}
    IN  /\ ~up
        /\ \/ OtherAdmin(table) /\ users' = table /\ UNCHANGED <<born, up>>
           \/ /\ ~OtherAdmin(table) /\ up' = TRUE
              /\ \/ \E u \in known : users' = [table EXCEPT ![u] = Seeded(@)] /\ UNCHANGED born
                 \/ /\ known = {}
                    /\ \E u \in Users \ born :
                          users' = [table EXCEPT ![u] = FirstAdmin] /\ born' = born \cup {u}
        /\ admins' = IF reset THEN {} ELSE admins
        /\ UNCHANGED <<github, visits, patches>>

\* somebody joins GitHub, or changes the name
Rename(g, l) ==
    /\ \A h \in GitHubIds : github[h].login # l
    /\ github' = [github EXCEPT ![g].login = l]
    /\ UNCHANGED <<users, born, visits, patches, admins, up>>

Next ==
    \/ \E v \in Visits : SignInStep(v)
    \/ \E u \in Users : AuthenticateAdmin(u) \/ DeleteUser(u)
    \/ \E p \in Patches, u \in Users, body \in Bodies : UpdateUser(p, u, body)
    \/ \E p \in Patches : CommitUpdate(p)
    \/ Crash
    \/ \E reset \in BOOLEAN : Start(reset)
    \/ \E g \in GitHubIds, l \in Logins : Rename(g, l)

Spec == Init /\ [][Next]_vars

-----------------------------------------------------------------------------
\* Every variable keeps its type.
TypeOK ==
    /\ users \in [Users -> Row \cup {None}]
    /\ born \in SUBSET Users
    /\ github \in [GitHubIds -> Profile]
    /\ visits \in [Visits -> Visit]
    /\ patches \in [Patches -> Patch]
    /\ admins \in SUBSET Users
    /\ up \in BOOLEAN

\* The email, the role and the activation of an account change only as some
\* PATCH that names the field asks (or as the seeder does, for the configured
\* administrator): a sign-in, or another PATCH, that has read the account
\* earlier never writes back what it read.
PatchesDecide ==
    [][\A u \in Users, f \in {"email", "role", "active"} :
          users[u] # None /\ users'[u] # None /\ users'[u][f] # users[u][f] =>
              \/ ~up /\ users[u].email = AdminMail
              \/ \E p \in Patches :
                    /\ patches[p].pc = "write" /\ patches'[p].pc = "idle"
                    /\ patches[p].user = u /\ f \in DOMAIN patches[p].fields
                    /\ users'[u][f] = patches[p].fields[f]]_vars

\* The account a sign-in's token names is, at that moment, active, linked to
\* the GitHub identity that signed in and named as GitHub named it, also when
\* another identity claims the same account by its e-mail address.
TokenNamesOwner ==
    [][\A v \in Visits :
          visits[v].pc = "decide" /\ visits'[v].pc = "in" =>
              LET row == users[visits[v].user]
              IN  row # None /\ row.active /\ row.gid = visits[v].gid
                             /\ row.login = visits[v].login]_vars

\* A sign-in is refused as a conflict only because of an account of somebody
\* else that holds its login or its address, never because of a sign-in of the
\* same person in another browser.
ConflictsAreWithOthers ==
    [][\A v \in Visits :
          visits[v].pc # "conflict" /\ visits'[v].pc = "conflict" =>
              \E u \in Users :
                 /\ users[u] # None /\ users[u].gid # visits[v].gid
                 /\ \/ users[u].login = visits[v].login
                    \/ users[u].email = visits[v].email]_vars

\* An API that has started has one administrator, the configured one, who can
\* sign in.
OneAdminAfterStart ==
    [][~up /\ up' =>
          LET adminsNow == {u \in Users : users'[u] # None /\ users'[u].role = "admin"}
          IN  \E u \in Users :
                 /\ adminsNow = {u}
                 /\ users'[u].email = AdminMail /\ users'[u].active /\ users'[u].password]_vars

=============================================================================
