--------------------------- MODULE AccountsProofs ---------------------------
(* Accounts: type correctness, and that sign-ins neither undo an           *)
(* administrator's change nor sign anyone in to an account that is not     *)
(* theirs, for any number of accounts, browsers and administrators.        *)
EXTENDS Accounts, TLAPS

-----------------------------------------------------------------------------
(* Rows and what an update makes of them. *)

\* An update of a sign-in touches the name and the GitHub identity only.
LEMMA SignInMerge ==
    ASSUME NEW row \in Row, NEW seen \in Row, NEW fields \in Profiles
    PROVE  /\ Merged(row, seen, fields) \in Row
           /\ Merged(row, seen, fields).email = row.email
           /\ Merged(row, seen, fields).role = row.role
           /\ Merged(row, seen, fields).active = row.active
           /\ Merged(row, seen, fields).login \in {row.login, fields.login}
           /\ fields.login # seen.login => Merged(row, seen, fields).login = fields.login
           /\ row.login = seen.login => Merged(row, seen, fields).login = fields.login
           /\ "gid" \notin DOMAIN fields => Merged(row, seen, fields).gid = row.gid
           /\ "gid" \in DOMAIN fields /\ row.gid = seen.gid =>
                  Merged(row, seen, fields).gid = fields.gid
<1> DEFINE new == Merged(row, seen, fields)
<1>1. /\ DOMAIN row = {"email", "login", "gid", "role", "active", "password"}
      /\ DOMAIN fields = {"login"} \/ DOMAIN fields = {"login", "gid"}
      /\ fields.login \in Logins /\ ("gid" \in DOMAIN fields => fields.gid \in GitHubIds)
  BY DEF Row, Profiles
<1>2. \A c \in DOMAIN row :
          new[c] = IF c \in DOMAIN fields /\ fields[c] # seen[c] THEN fields[c] ELSE row[c]
  BY DEF Merged
<1>3. new = [email |-> new.email, login |-> new.login, gid |-> new.gid,
             role |-> new.role, active |-> new.active, password |-> new.password]
  BY <1>1 DEF Merged
<1>4. /\ new.email = row.email /\ new.role = row.role
      /\ new.active = row.active /\ new.password = row.password
  BY <1>1, <1>2
<1>5. /\ new.login = IF fields.login # seen.login THEN fields.login ELSE row.login
      /\ new.gid = IF "gid" \in DOMAIN fields /\ fields.gid # seen.gid THEN fields.gid ELSE row.gid
  BY <1>1, <1>2
<1>6. new \in Row
  BY <1>1, <1>3, <1>4, <1>5 DEF Row
<1> QED
  BY <1>4, <1>5, <1>6

\* A PATCH never touches the name at GitHub nor the GitHub identity, and
\* changes only what its body names.
LEMMA PatchMerge ==
    ASSUME NEW row \in Row, NEW seen \in Row, NEW fields \in Bodies
    PROVE  /\ Merged(row, seen, fields) \in Row
           /\ Merged(row, seen, fields).login = row.login
           /\ Merged(row, seen, fields).gid = row.gid
           /\ \A c \in {"email", "role", "active"} :
                 Merged(row, seen, fields)[c] # row[c] =>
                     c \in DOMAIN fields /\ Merged(row, seen, fields)[c] = fields[c]
<1> DEFINE new == Merged(row, seen, fields)
<1>1. /\ DOMAIN row = {"email", "login", "gid", "role", "active", "password"}
      /\ \/ DOMAIN fields = {"email"} /\ fields.email \in Mails
         \/ DOMAIN fields = {"role"} /\ fields.role \in Roles
         \/ DOMAIN fields = {"active"} /\ fields.active \in BOOLEAN
  BY AccountsAssumption DEF Row
<1>2. \A c \in DOMAIN row :
          new[c] = IF c \in DOMAIN fields /\ fields[c] # seen[c] THEN fields[c] ELSE row[c]
  BY DEF Merged
<1>3. new = [email |-> new.email, login |-> new.login, gid |-> new.gid,
             role |-> new.role, active |-> new.active, password |-> new.password]
  BY <1>1 DEF Merged
<1>4. new.login = row.login /\ new.gid = row.gid /\ new.password = row.password
  BY <1>1, <1>2
<1>5. new.email \in Mails /\ new.role \in Roles /\ new.active \in BOOLEAN
  <2>1. new.email \in Mails
    BY <1>1, <1>2 DEF Row
  <2>2. new.role \in Roles
    BY <1>1, <1>2 DEF Row
  <2>3. new.active \in BOOLEAN
    BY <1>1, <1>2 DEF Row
  <2> QED
    BY <2>1, <2>2, <2>3
<1>6. new \in Row
  BY <1>3, <1>4, <1>5 DEF Row
<1>7. \A c \in {"email", "role", "active"} :
          new[c] # row[c] => c \in DOMAIN fields /\ new[c] = fields[c]
  BY <1>1, <1>2
<1> QED
  BY <1>4, <1>6, <1>7

-----------------------------------------------------------------------------
(* The inductive invariant. *)

\* One sign-in at a time is between two statements.
Serial == \A v, w \in Visits : v # w /\ visits[v].pc \in Working => visits[w].pc \notin Working

\* Nothing is in flight while the API is down.
DownIsQuiet == up \/ \A v \in Visits : visits[v].pc = "out"

\* The unique constraints hold, and a key that was never given has no row.
Distinct == \A u \in Users : Exists(u) => u \in born /\ ~Clash(u, users[u])

\* What a sign-in remembers of the row it works on still holds of it.
Known(v) ==
    LET me == visits[v]
    IN  /\ me.pc \in Working \cup {"fetched"} => me.gid # None /\ me.login # None /\ me.email # None
        /\ me.pc \in {"by_mail", "create"} => \A u \in Users : Exists(u) => users[u].gid # me.gid
        /\ me.pc \in {"read", "write"} =>
              /\ me.user \in born /\ me.fields # None /\ me.fields.login = me.login
              /\ \/ /\ DOMAIN me.fields = {"login"}
                    /\ Exists(me.user) => users[me.user].gid = me.gid
                 \/ /\ DOMAIN me.fields = {"login", "gid"} /\ me.fields.gid = me.gid
                    /\ \A u \in Users : Exists(u) => users[u].gid # me.gid
        /\ me.pc = "write" =>
              /\ me.seen # None
              /\ Exists(me.user) => /\ me.seen.login = users[me.user].login
                                    /\ me.seen.gid = users[me.user].gid
        /\ me.pc = "decide" =>
              /\ me.user \in born
              /\ Exists(me.user) => /\ users[me.user].gid = me.gid
                                    /\ users[me.user].login = me.login

\* A PATCH that has read its row remembers it.
PatchKnown(p) ==
    patches[p].pc = "write" => patches[p].user \in Users /\ patches[p].fields # None /\ patches[p].seen # None

IInv ==
    /\ TypeOK /\ Serial /\ DownIsQuiet /\ Distinct
    /\ \A v \in Visits : Known(v)
    /\ \A p \in Patches : PatchKnown(p)

-----------------------------------------------------------------------------
(* Facts the steps share. *)

LEMMA InitIInv == Init => IInv
<1> SUFFICES ASSUME Init PROVE IInv
  OBVIOUS
<1>1. Blank \in Visit /\ Unasked \in Patch
  BY DEF Blank, Unasked, Visit, Patch, Resting
<1>2. TypeOK
  BY <1>1 DEF Init, TypeOK
<1>3. Serial /\ DownIsQuiet
  BY DEF Init, Serial, DownIsQuiet, Blank, Working
<1>4. Distinct
  BY DEF Init, Distinct, Exists
<1>5. \A v \in Visits : Known(v)
  BY DEF Init, Known, Blank, Working
<1>6. \A p \in Patches : PatchKnown(p)
  BY DEF Init, PatchKnown, Unasked
<1> QED
  BY <1>2, <1>3, <1>4, <1>5, <1>6 DEF IInv

\* A row stored under a key, when it clashes with no other, keeps rows distinct.
LEMMA StoringKeepsDistinct ==
    ASSUME TypeOK, Distinct, NEW u \in Users, NEW row \in Row, ~Clash(u, row),
           users' = [users EXCEPT ![u] = row], born \subseteq born', u \in born'
    PROVE  Distinct'
<1> SUFFICES ASSUME NEW x \in Users, Exists(x)'
             PROVE  x \in born' /\ ~Clash(x, users[x])'
  BY DEF Distinct
<1>1. users'[u] = row /\ \A y \in Users \ {u} : users'[y] = users[y]
  BY DEF TypeOK
<1>2. x \in born'
  BY <1>1 DEF Distinct, Exists
<1>3. ~Clash(x, users[x])'
  BY <1>1 DEF Distinct, Exists, Clash
<1> QED
  BY <1>2, <1>3

\* A row that is removed leaves the others distinct.
LEMMA RemovingKeepsDistinct ==
    ASSUME Distinct, born' = born,
           \A u \in Users : users'[u] = users[u] \/ users'[u] = None
    PROVE  Distinct'
BY DEF Distinct, Exists, Clash

\* What a sign-in remembers survives whatever leaves names and identities alone.
LEMMA OthersKeepKnown ==
    ASSUME TypeOK, NEW v \in Visits, Known(v), visits'[v] = visits[v], born' = born,
           \A u \in Users : Exists(u)' => /\ Exists(u)
                                          /\ users'[u].gid = users[u].gid
                                          /\ users'[u].login = users[u].login
    PROVE  Known(v)'
<1>1. born \subseteq Users
  BY DEF TypeOK
<1> QED
  BY <1>1 DEF Known

\* A sign-in that holds the event loop, or waits for it, is the only one with
\* anything to remember.
LEMMA RestKnown ==
    ASSUME NEW v \in Visits, Known(v), visits'[v] = visits[v], visits[v].pc \notin Working
    PROVE  Known(v)'
BY DEF Known, Working

\* A sign-in in its turn: the others have nothing to remember, and stay alone.
LEMMA InTurn ==
    ASSUME IInv, NEW v \in Visits, NEW new \in Visit, up,
           visits' = [visits EXCEPT ![v] = new], UNCHANGED up,
           visits[v].pc \in Working \/ LoopFree(v), Known(v)'
    PROVE  /\ visits' \in [Visits -> Visit] /\ Serial' /\ DownIsQuiet'
           /\ \A w \in Visits : Known(w)'
<1>1. visits' \in [Visits -> Visit] /\ visits'[v] = new /\ \A w \in Visits \ {v} : visits'[w] = visits[w]
  BY DEF IInv, TypeOK
<1>2. \A w \in Visits \ {v} : visits[w].pc \notin Working
  BY DEF IInv, Serial, LoopFree
<1>3. Serial'
  BY <1>1, <1>2 DEF Serial
<1>4. DownIsQuiet'
  BY DEF DownIsQuiet
<1>5. \A w \in Visits \ {v} : Known(w)'
  BY <1>1, <1>2, RestKnown DEF IInv
<1> QED
  BY <1>1, <1>3, <1>4, <1>5

\* Signing in is possible only while the API serves.
LEMMA BusyIsUp ==
    ASSUME IInv, NEW v \in Visits, visits[v].pc # "out"
    PROVE  up
BY DEF IInv, DownIsQuiet

\* A sign-in that ends remembers nothing.
LEMMA EndedKnowsNothing ==
    ASSUME TypeOK, NEW v \in Visits, NEW pc \in Resting, End(v, pc)
    PROVE  /\ [Blank EXCEPT !.pc = pc] \in Visit
           /\ visits' = [visits EXCEPT ![v] = [Blank EXCEPT !.pc = pc]]
           /\ visits'[v].pc = pc /\ Known(v)'
BY DEF End, Blank, Visit, Resting, Known, Working, TypeOK

-----------------------------------------------------------------------------
(* Every step keeps the invariant. *)

LEMMA SignInKeepsIInv ==
    ASSUME IInv, NEW v \in Visits, SignInStep(v)
    PROVE  IInv'
<1> USE DEF IInv
<1>0. /\ users \in [Users -> Row \cup {None}] /\ born \subseteq Users
      /\ visits \in [Visits -> Visit] /\ visits[v] \in Visit
  BY DEF TypeOK
<1>p. UNCHANGED <<github, patches, up>> /\ \A p \in Patches : PatchKnown(p)'
  <2>1. UNCHANGED <<github, patches, up>>
    <3>1. ASSUME NEW g \in GitHubIds, GetGitHubUser(v, g) PROVE UNCHANGED <<github, patches, up>>
      BY <3>1 DEF GetGitHubUser
    <3>2. CASE GetByGitHubId(v)
      BY <3>2 DEF GetByGitHubId
    <3>3. CASE GetByEmail(v)
      BY <3>3 DEF GetByEmail
    <3>4. CASE ReadRow(v)
      BY <3>4 DEF ReadRow
    <3>5. CASE UpdateAccount(v)
      BY <3>5 DEF UpdateAccount
    <3>6. CASE CreateAccount(v)
      BY <3>6 DEF CreateAccount
    <3>7. CASE IssueToken(v) \/ SignInFails(v)
      BY <3>7 DEF IssueToken, SignInFails
    <3> QED
      BY <3>1, <3>2, <3>3, <3>4, <3>5, <3>6, <3>7 DEF SignInStep
  <2> QED
    BY <2>1 DEF PatchKnown
<1>d. ASSUME UNCHANGED <<users, born>> PROVE Distinct'
  BY <1>d DEF Distinct, Exists, Clash
<1>1. ASSUME NEW g \in GitHubIds, GetGitHubUser(v, g) PROVE IInv'
  <2> DEFINE new == [Blank EXCEPT !.pc = "fetched", !.gid = g, !.login = github[g].login,
                         !.email = IF github[g].email = None THEN NoReply[github[g].login]
                                                             ELSE github[g].email]
  <2>1. visits' = [visits EXCEPT ![v] = new] /\ UNCHANGED <<users, born, admins>> /\ up
    BY <1>1 DEF GetGitHubUser
  <2>2. github[g] \in Profile /\ github[g].login # None /\ github[g].login \in Logins
    BY <1>1 DEF GetGitHubUser, TypeOK, Profile
  <2>3. new \in Visit /\ new.pc = "fetched" /\ new.gid = g /\ new.login = github[g].login
        /\ new.email \in Mails
    BY <2>2, AccountsAssumption DEF Blank, Visit, Profile
  <2>4. visits'[v] = new /\ \A w \in Visits \ {v} : visits'[w] = visits[w]
    BY <1>0, <2>1
  <2>5. \A w \in Visits : Known(w)'
    <3>1. Known(v)'
      BY <2>2, <2>3, <2>4, AccountsAssumption DEF Known, Working
    <3>2. \A w \in Visits \ {v} : Known(w)'
      BY <2>1, <2>4 DEF Known, Exists
    <3> QED
      BY <3>1, <3>2
  <2>6. Serial'
    BY <2>3, <2>4 DEF Serial, Working
  <2>7. DownIsQuiet'
    BY <1>p, <2>1 DEF DownIsQuiet
  <2>8. TypeOK'
    BY <1>0, <1>p, <2>1, <2>3 DEF TypeOK
  <2> QED
    BY <1>p, <1>d, <2>1, <2>5, <2>6, <2>7, <2>8
<1>2. CASE GetByGitHubId(v)
  <2>1. up /\ visits[v].pc = "fetched" /\ LoopFree(v) /\ UNCHANGED <<users, born, admins>>
    BY <1>2, BusyIsUp DEF GetByGitHubId
  <2>2. visits[v].gid # None /\ visits[v].login # None /\ visits[v].email # None
        /\ visits[v].login \in Logins
    BY <1>0, <2>1 DEF Known, Visit
  <2>3. PICK new \in Visit : visits' = [visits EXCEPT ![v] = new] /\ Known(v)'
    <3>1. CASE \E u \in Users : /\ Exists(u) /\ users[u].gid = visits[v].gid
                                /\ Found(v, u, [login |-> visits[v].login])
      <4>1. PICK u \in Users : /\ Exists(u) /\ users[u].gid = visits[v].gid
                               /\ Found(v, u, [login |-> visits[v].login])
        BY <3>1
      <4> DEFINE new == [visits[v] EXCEPT !.pc = "read", !.user = u,
                                          !.fields = [login |-> visits[v].login]]
      <4>2. visits' = [visits EXCEPT ![v] = new]
        BY <1>0, <4>1 DEF Found
      <4>3. [login |-> visits[v].login] \in Profiles
        BY <2>2 DEF Profiles
      <4>4. [login |-> visits[v].login] # None
        BY <4>3, AccountsAssumption
      <4>5. new \in Visit /\ new.pc = "read" /\ new.user = u
            /\ new.fields = [login |-> visits[v].login]
            /\ new.gid = visits[v].gid /\ new.login = visits[v].login /\ new.email = visits[v].email
        BY <1>0, <4>3 DEF Visit, Working
      <4>6. visits'[v] = new
        BY <1>0, <4>2
      <4>7. Known(v)'
        BY <2>1, <2>2, <4>1, <4>4, <4>5, <4>6 DEF Known, Exists, Distinct
      <4> QED
        BY <4>2, <4>5, <4>7
    <3>2. CASE {u \in Users : Exists(u) /\ users[u].gid = visits[v].gid} = {} /\ Advance(v, "by_mail")
      <4> DEFINE new == [visits[v] EXCEPT !.pc = "by_mail"]
      <4>1. visits' = [visits EXCEPT ![v] = new] /\ visits'[v] = new
        BY <1>0, <3>2 DEF Advance
      <4>2. new \in Visit /\ new.pc = "by_mail" /\ new.gid = visits[v].gid
            /\ new.login = visits[v].login /\ new.email = visits[v].email
        BY <1>0 DEF Visit, Working
      <4>3. \A u \in Users : Exists(u) => users[u].gid # visits[v].gid
        BY <3>2
      <4>4. Known(v)'
        BY <2>1, <2>2, <4>1, <4>2, <4>3 DEF Known, Exists, Working
      <4> QED
        BY <4>1, <4>2, <4>4
    <3> QED
      BY <1>2, <3>1, <3>2 DEF GetByGitHubId
  <2>4. /\ visits' \in [Visits -> Visit] /\ Serial' /\ DownIsQuiet' /\ \A w \in Visits : Known(w)'
    BY <1>p, <2>1, <2>3, InTurn
  <2>5. TypeOK'
    BY <1>0, <1>p, <2>1, <2>4 DEF TypeOK
  <2> QED
    BY <1>p, <1>d, <2>1, <2>4, <2>5
<1>3. CASE GetByEmail(v)
  <2>1. up /\ visits[v].pc = "by_mail" /\ visits[v].pc \in Working /\ UNCHANGED <<users, born, admins>>
    BY <1>3, BusyIsUp DEF GetByEmail, Working
  <2>2. /\ visits[v].gid # None /\ visits[v].login # None /\ visits[v].email # None
        /\ visits[v].login \in Logins /\ visits[v].gid \in GitHubIds
        /\ \A u \in Users : Exists(u) => users[u].gid # visits[v].gid
    BY <1>0, <2>1 DEF Known, Visit
  <2>3. PICK new \in Visit : visits' = [visits EXCEPT ![v] = new] /\ Known(v)'
    <3>1. CASE \E u \in Users : /\ Exists(u)
                                /\ Found(v, u, [login |-> visits[v].login, gid |-> visits[v].gid])
      <4>1. PICK u \in Users : /\ Exists(u)
                               /\ Found(v, u, [login |-> visits[v].login, gid |-> visits[v].gid])
        BY <3>1
      <4> DEFINE link == [login |-> visits[v].login, gid |-> visits[v].gid]
                 new == [visits[v] EXCEPT !.pc = "read", !.user = u, !.fields = link]
      <4>2. visits' = [visits EXCEPT ![v] = new] /\ visits'[v] = new
        BY <1>0, <4>1 DEF Found
      <4>3. link \in Profiles /\ DOMAIN link = {"login", "gid"}
            /\ link.login = visits[v].login /\ link.gid = visits[v].gid
        BY <2>2 DEF Profiles
      <4>4. link # None
        BY <4>3, AccountsAssumption
      <4>5. new \in Visit /\ new.pc = "read" /\ new.user = u /\ new.fields = link
            /\ new.gid = visits[v].gid /\ new.login = visits[v].login /\ new.email = visits[v].email
        BY <1>0, <4>3 DEF Visit, Working
      <4>7. Known(v)'
        BY <2>1, <2>2, <4>1, <4>2, <4>3, <4>4, <4>5 DEF Known, Exists, Distinct
      <4> QED
        BY <4>2, <4>5, <4>7
    <3>2. CASE Advance(v, "create")
      <4> DEFINE new == [visits[v] EXCEPT !.pc = "create"]
      <4>1. visits' = [visits EXCEPT ![v] = new] /\ visits'[v] = new
        BY <1>0, <3>2 DEF Advance
      <4>2. new \in Visit /\ new.pc = "create" /\ new.gid = visits[v].gid
            /\ new.login = visits[v].login /\ new.email = visits[v].email
        BY <1>0 DEF Visit, Working
      <4>4. Known(v)'
        BY <2>1, <2>2, <4>1, <4>2 DEF Known, Exists, Working
      <4> QED
        BY <4>1, <4>2, <4>4
    <3> QED
      BY <1>3, <3>1, <3>2 DEF GetByEmail
  <2>4. /\ visits' \in [Visits -> Visit] /\ Serial' /\ DownIsQuiet' /\ \A w \in Visits : Known(w)'
    BY <1>p, <2>1, <2>3, InTurn
  <2>5. TypeOK'
    BY <1>0, <1>p, <2>1, <2>4 DEF TypeOK
  <2> QED
    BY <1>p, <1>d, <2>1, <2>4, <2>5
<1>4. ASSUME UNCHANGED <<users, born, github, patches, up>>, admins' \subseteq Users, up,
             visits[v].pc \in Working, NEW pc \in Resting, End(v, pc)
      PROVE  IInv'
  <2>1. /\ visits' \in [Visits -> Visit] /\ Serial' /\ DownIsQuiet' /\ \A w \in Visits : Known(w)'
    BY <1>4, EndedKnowsNothing, InTurn
  <2> QED
    BY <1>0, <1>p, <1>d, <1>4, <2>1 DEF TypeOK
<1>5. CASE ReadRow(v)
  <2>1. up /\ visits[v].pc = "read" /\ visits[v].pc \in Working /\ UNCHANGED <<users, born, github, patches, up, admins>>
    BY <1>5, BusyIsUp DEF ReadRow, Working
  <2>2. CASE ~Exists(visits[v].user)
    BY <1>4, <1>5, <2>1, <2>2 DEF ReadRow, TypeOK, Resting
  <2>3. CASE Exists(visits[v].user)
    <3> DEFINE u == visits[v].user
               new == [visits[v] EXCEPT !.pc = "write", !.seen = users[u]]
    <3>1. visits' = [visits EXCEPT ![v] = new] /\ visits'[v] = new
      BY <1>0, <1>5, <2>3 DEF ReadRow
    <3>2. u \in Users /\ users[u] \in Row /\ users[u] # None
      BY <1>0, <2>1, <2>3 DEF Known, Exists
    <3>3. new \in Visit /\ new.pc = "write" /\ new.seen = users[u] /\ new.user = u
          /\ new.fields = visits[v].fields /\ new.gid = visits[v].gid
          /\ new.login = visits[v].login /\ new.email = visits[v].email
      BY <1>0, <3>2 DEF Visit, Working
    <3>4. Known(v)'
      BY <2>1, <3>1, <3>2, <3>3 DEF Known, Exists, Working
    <3>5. /\ visits' \in [Visits -> Visit] /\ Serial' /\ DownIsQuiet' /\ \A w \in Visits : Known(w)'
      BY <2>1, <3>1, <3>3, <3>4, InTurn
    <3> QED
      BY <1>0, <1>p, <1>d, <2>1, <3>5 DEF TypeOK
  <2> QED
    BY <2>2, <2>3
<1>6. CASE UpdateAccount(v)
  <2> DEFINE me  == visits[v]
             row == Merged(users[me.user], me.seen, me.fields)
  <2>1. up /\ me.pc = "write" /\ me.pc \in Working /\ UNCHANGED <<born, github, patches, admins, up>>
    BY <1>6, BusyIsUp DEF UpdateAccount, Working
  <2>2. CASE UNCHANGED users /\ \E pc \in Resting : End(v, pc)
    BY <1>0, <1>4, <2>1, <2>2 DEF TypeOK
  <2>3. CASE /\ Exists(me.user) /\ ~Clash(me.user, row)
             /\ users' = [users EXCEPT ![me.user] = row] /\ Advance(v, "decide")
    <3>1. /\ me.user \in Users /\ me.user \in born /\ users[me.user] \in Row
          /\ me.seen \in Row /\ me.fields \in Profiles
          /\ me.fields.login = me.login /\ me.seen.login = users[me.user].login
          /\ me.seen.gid = users[me.user].gid
          /\ \/ DOMAIN me.fields = {"login"} /\ users[me.user].gid = me.gid
             \/ DOMAIN me.fields = {"login", "gid"} /\ me.fields.gid = me.gid
      BY <1>0, <2>1, <2>3 DEF Known, Visit, Exists
    <3>2. row \in Row /\ row.login = me.login
      BY <3>1, SignInMerge
    <3>3. row.gid = me.gid
      BY <3>1, SignInMerge
    <3>4. Distinct' /\ users' \in [Users -> Row \cup {None}] /\ users'[me.user] = row
      BY <1>0, <2>1, <2>3, <3>1, <3>2, StoringKeepsDistinct
    <3> DEFINE new == [me EXCEPT !.pc = "decide"]
    <3>5. visits' = [visits EXCEPT ![v] = new] /\ visits'[v] = new
      BY <1>0, <2>3 DEF Advance
    <3>6. new \in Visit /\ new.pc = "decide" /\ new.user = me.user /\ new.gid = me.gid
          /\ new.login = me.login /\ new.email = me.email
      BY <1>0 DEF Visit, Working
    <3>7. Known(v)'
      BY <1>0, <2>1, <3>1, <3>2, <3>3, <3>4, <3>5, <3>6 DEF Known, Exists, Working
    <3>8. /\ visits' \in [Visits -> Visit] /\ Serial' /\ DownIsQuiet' /\ \A w \in Visits : Known(w)'
      BY <2>1, <3>5, <3>6, <3>7, InTurn
    <3> QED
      BY <1>p, <2>1, <3>4, <3>8 DEF TypeOK
  <2> QED
    BY <1>6, <2>2, <2>3 DEF UpdateAccount, Resting
<1>7. CASE CreateAccount(v)
  <2> DEFINE me  == visits[v]
             row == [email |-> me.email, login |-> me.login, gid |-> me.gid,
                     role |-> "client", active |-> TRUE, password |-> FALSE]
  <2>1. up /\ me.pc = "create" /\ me.pc \in Working /\ UNCHANGED <<github, patches, admins, up>>
    BY <1>7, BusyIsUp DEF CreateAccount, Working
  <2>2. CASE UNCHANGED <<users, born>> /\ End(v, "conflict")
    BY <1>0, <1>4, <2>1, <2>2 DEF TypeOK, Resting
  <2>3. ASSUME NEW u \in Users \ born, ~Clash(u, row), users' = [users EXCEPT ![u] = row],
               born' = born \cup {u},
               visits' = [visits EXCEPT ![v].pc = "decide", ![v].user = u]
        PROVE  IInv'
    <3>1. row \in Row
      BY <1>0, <2>1 DEF Known, Visit, Row, Roles
    <3>2. Distinct' /\ users' \in [Users -> Row \cup {None}] /\ users'[u] = row /\ born' \subseteq Users
      BY <1>0, <2>3, <3>1, StoringKeepsDistinct
    <3> DEFINE new == [me EXCEPT !.pc = "decide", !.user = u]
    <3>3. visits' = [visits EXCEPT ![v] = new] /\ visits'[v] = new
      BY <1>0, <2>3
    <3>4. new \in Visit /\ new.pc = "decide" /\ new.user = u /\ new.gid = me.gid
          /\ new.login = me.login /\ new.email = me.email
      BY <1>0 DEF Visit, Working
    <3>5. Known(v)'
      BY <1>0, <2>1, <2>3, <3>2, <3>3, <3>4 DEF Known, Exists, Working
    <3>6. /\ visits' \in [Visits -> Visit] /\ Serial' /\ DownIsQuiet' /\ \A w \in Visits : Known(w)'
      BY <2>1, <3>3, <3>4, <3>5, InTurn
    <3> QED
      BY <1>p, <2>1, <3>2, <3>6 DEF TypeOK
  <2> QED
    BY <1>7, <2>2, <2>3 DEF CreateAccount
<1>8. CASE IssueToken(v)
  <2>1. up /\ visits[v].pc \in Working /\ UNCHANGED <<users, born, github, patches, up>>
    BY <1>8, BusyIsUp DEF IssueToken, Working
  <2>2. admins' \subseteq Users
    BY <1>0, <1>8 DEF IssueToken, TypeOK, Known, Visit, Exists
  <2> QED
    BY <1>4, <1>8, <2>1, <2>2 DEF IssueToken, Resting
<1>9. CASE SignInFails(v)
  BY <1>0, <1>4, <1>9, BusyIsUp DEF SignInFails, Resting, Working, TypeOK
<1> QED
  BY <1>1, <1>2, <1>3, <1>5, <1>6, <1>7, <1>8, <1>9 DEF SignInStep

\* An administrator's step leaves the sign-ins alone.
LEMMA AdminKeepsIInv ==
    ASSUME IInv,
           \/ \E u \in Users : AuthenticateAdmin(u) \/ DeleteUser(u)
           \/ \E p \in Patches, u \in Users, body \in Bodies : UpdateUser(p, u, body)
           \/ \E p \in Patches : CommitUpdate(p)
    PROVE  IInv'
<1> USE DEF IInv
<1>0. /\ users \in [Users -> Row \cup {None}] /\ born \subseteq Users
      /\ patches \in [Patches -> Patch]
  BY DEF TypeOK
<1>1. ASSUME UNCHANGED <<users, born, github, visits, up>>, admins' \subseteq Users,
             patches' \in [Patches -> Patch], \A p \in Patches : PatchKnown(p)'
      PROVE  IInv'
  <2>1. Serial' /\ DownIsQuiet' /\ Distinct'
    BY <1>1 DEF Serial, DownIsQuiet, Distinct, Exists, Clash
  <2>2. \A v \in Visits : Known(v)'
    BY <1>1, OthersKeepKnown DEF Exists
  <2> QED
    BY <1>0, <1>1, <2>1, <2>2 DEF TypeOK
<1>2. ASSUME NEW u \in Users, AuthenticateAdmin(u) PROVE IInv'
  <2>1. UNCHANGED <<users, born, github, visits, patches, up>> /\ admins' \subseteq Users
    BY <1>2 DEF AuthenticateAdmin, TypeOK
  <2> QED
    BY <1>0, <1>1, <2>1 DEF PatchKnown
<1>3. ASSUME NEW u \in Users, DeleteUser(u) PROVE IInv'
  <2>1. /\ UNCHANGED <<born, github, visits, patches, up>> /\ admins' \subseteq Users
        /\ users' \in [Users -> Row \cup {None}]
        /\ \A x \in Users : users'[x] = users[x] \/ users'[x] = None
    BY <1>0, <1>3 DEF DeleteUser, TypeOK
  <2>2. Distinct'
    BY <2>1, RemovingKeepsDistinct
  <2>3. \A v \in Visits : Known(v)'
    BY <2>1, OthersKeepKnown DEF Exists
  <2>4. Serial' /\ DownIsQuiet' /\ \A p \in Patches : PatchKnown(p)'
    BY <2>1 DEF Serial, DownIsQuiet, PatchKnown
  <2> QED
    BY <2>1, <2>2, <2>3, <2>4 DEF TypeOK
<1>4. ASSUME NEW p \in Patches, NEW u \in Users, NEW body \in Bodies, UpdateUser(p, u, body)
      PROVE  IInv'
  <2> DEFINE new == [pc |-> "write", user |-> u, fields |-> body, seen |-> users[u]]
  <2>1. /\ UNCHANGED <<users, born, github, visits, admins, up>> /\ users[u] \in Row
        /\ patches' = [patches EXCEPT ![p] = new]
    BY <1>0, <1>4 DEF UpdateUser, Exists
  <2>2. new \in Patch /\ PatchKnown(p)'
    BY <1>0, <2>1, AccountsAssumption DEF Patch, PatchKnown
  <2>3. \A q \in Patches : PatchKnown(q)'
    BY <1>0, <2>1, <2>2 DEF PatchKnown
  <2> QED
    BY <1>0, <1>1, <2>1, <2>2, <2>3 DEF TypeOK
<1>5. ASSUME NEW p \in Patches, CommitUpdate(p) PROVE IInv'
  <2> DEFINE me  == patches[p]
             row == Merged(users[me.user], me.seen, me.fields)
  <2>1. /\ UNCHANGED <<born, github, visits, admins, up>> /\ me.pc = "write"
        /\ patches' = [patches EXCEPT ![p] = Unasked]
    BY <1>5 DEF CommitUpdate
  <2>2. Unasked \in Patch /\ Unasked.pc = "idle"
    BY DEF Unasked, Patch
  <2>3. patches' \in [Patches -> Patch] /\ \A q \in Patches : PatchKnown(q)'
    BY <1>0, <2>1, <2>2 DEF PatchKnown
  <2>4. CASE UNCHANGED users
    BY <1>1, <2>1, <2>3, <2>4 DEF TypeOK
  <2>5. CASE Exists(me.user) /\ ~Clash(me.user, row) /\ users' = [users EXCEPT ![me.user] = row]
    <3>1. /\ me.user \in Users /\ me.fields \in Bodies /\ me.seen \in Row
          /\ users[me.user] \in Row /\ me.user \in born
      BY <1>0, <2>1, <2>5 DEF PatchKnown, Patch, Exists, Distinct
    <3>2. row \in Row /\ row.login = users[me.user].login /\ row.gid = users[me.user].gid
      BY <3>1, PatchMerge
    <3>3. Distinct'
      BY <2>1, <2>5, <3>1, <3>2, StoringKeepsDistinct
    <3>4. /\ users' \in [Users -> Row \cup {None}]
          /\ \A x \in Users : Exists(x)' => /\ Exists(x) /\ users'[x].gid = users[x].gid
                                            /\ users'[x].login = users[x].login
      BY <1>0, <2>5, <3>1, <3>2 DEF Exists
    <3>5. \A v \in Visits : Known(v)'
      BY <2>1, <3>4, OthersKeepKnown
    <3>6. Serial' /\ DownIsQuiet'
      BY <2>1 DEF Serial, DownIsQuiet
    <3> QED
      BY <2>1, <2>3, <3>3, <3>4, <3>5, <3>6 DEF TypeOK
  <2> QED
    BY <1>5, <2>4, <2>5 DEF CommitUpdate
<1> QED
  BY <1>2, <1>3, <1>4, <1>5

LEMMA StartKeepsIInv ==
    ASSUME IInv, NEW reset \in BOOLEAN, Start(reset)
    PROVE  IInv'
<1> USE DEF IInv
<1> DEFINE table == IF reset THEN [u \in Users |-> None] ELSE users
           known == {u \in Users : table[u] # None /\ table[u].email = AdminMail}
<1>1. /\ users \in [Users -> Row \cup {None}] /\ born \subseteq Users
      /\ ~up /\ UNCHANGED <<github, visits, patches>> /\ admins' \subseteq Users
      /\ up' \in BOOLEAN
  BY DEF Start, TypeOK
<1>2. Serial' /\ DownIsQuiet' /\ (\A v \in Visits : Known(v)') /\ \A p \in Patches : PatchKnown(p)'
  <2>1. \A v \in Visits : visits'[v].pc = "out"
    BY <1>1 DEF DownIsQuiet
  <2>2. Serial' /\ DownIsQuiet' /\ \A v \in Visits : Known(v)'
    BY <2>1 DEF Serial, DownIsQuiet, Known, Working
  <2> QED
    BY <1>1, <2>2 DEF PatchKnown
<1>3. /\ table \in [Users -> Row \cup {None}]
      /\ \A u, w \in Users : /\ table[u] # None => table[u] = users[u] /\ u \in born
                             /\ table[u] # None /\ table[w] # None => table[w] = users[w]
  BY <1>1 DEF Distinct, Exists
<1>4. users' \in [Users -> Row \cup {None}] /\ born' \subseteq Users /\ Distinct'
  <2>1. CASE users' = table /\ UNCHANGED born
    <3>1. \A u \in Users : users'[u] = users[u] \/ users'[u] = None
      BY <1>1, <2>1
    <3> QED
      BY <1>1, <1>3, <2>1, <3>1, RemovingKeepsDistinct
  <2>2. ASSUME NEW u \in known, users' = [table EXCEPT ![u] = Seeded(@)], UNCHANGED born
        PROVE  users' \in [Users -> Row \cup {None}] /\ born' \subseteq Users /\ Distinct'
    <3>1. table[u] \in Row /\ table[u] = users[u] /\ u \in Users /\ Exists(u)
      BY <1>3 DEF Exists
    <3>2. /\ Seeded(table[u]) \in Row /\ Seeded(table[u]).email = table[u].email
          /\ Seeded(table[u]).login = table[u].login /\ Seeded(table[u]).gid = table[u].gid
      BY <3>1 DEF Seeded, Row, Roles
    <3>3. /\ users'[u] = Seeded(table[u])
          /\ \A w \in Users \ {u} : users'[w] = table[w]
          /\ users' \in [Users -> Row \cup {None}]
      BY <1>3, <2>2, <3>1, <3>2
    <3>4. \A w \in Users : Exists(w)' => Exists(w) /\ w \in born
                                /\ users'[w].email = users[w].email
                                /\ users'[w].login = users[w].login /\ users'[w].gid = users[w].gid
      BY <1>3, <3>1, <3>2, <3>3 DEF Exists
    <3>5. Distinct'
      BY <2>2, <3>4 DEF Distinct, Clash
    <3> QED
      BY <1>1, <2>2, <3>3, <3>5
  <2>3. ASSUME known = {}, NEW u \in Users \ born, users' = [table EXCEPT ![u] = FirstAdmin],
               born' = born \cup {u}
        PROVE  users' \in [Users -> Row \cup {None}] /\ born' \subseteq Users /\ Distinct'
    <3>1. FirstAdmin \in Row /\ FirstAdmin.email = AdminMail
          /\ FirstAdmin.login = None /\ FirstAdmin.gid = None
      BY AccountsAssumption DEF FirstAdmin, Row, Roles
    <3>2. /\ users'[u] = FirstAdmin /\ \A w \in Users \ {u} : users'[w] = table[w]
          /\ users' \in [Users -> Row \cup {None}]
      BY <1>3, <2>3, <3>1
    <3>3. Distinct'
      <4> SUFFICES ASSUME NEW x \in Users, Exists(x)'
                   PROVE  x \in born' /\ ~Clash(x, users[x])'
        BY DEF Distinct
      <4>1. CASE x = u
        BY <1>3, <2>3, <3>1, <3>2, <4>1 DEF Clash, Exists
      <4>2. CASE x # u
        <5>1. table[x] # None /\ users'[x] = users[x] /\ x \in born /\ Exists(x)
          BY <1>3, <3>2, <4>2 DEF Exists
        <5>2. users[x].email # AdminMail
          BY <1>3, <2>3, <5>1
        <5> QED
          BY <1>3, <2>3, <3>1, <3>2, <5>1, <5>2 DEF Clash, Exists, Distinct
      <4> QED
        BY <4>1, <4>2
    <3> QED
      BY <1>1, <2>3, <3>2, <3>3
  <2> QED
    BY <2>1, <2>2, <2>3 DEF Start
<1> QED
  BY <1>1, <1>2, <1>4 DEF TypeOK

LEMMA NextKeepsIInv ==
    ASSUME IInv, [Next]_vars
    PROVE  IInv'
<1>1. CASE \E v \in Visits : SignInStep(v)
  BY <1>1, SignInKeepsIInv
<1>2. CASE \/ \E u \in Users : AuthenticateAdmin(u) \/ DeleteUser(u)
           \/ \E p \in Patches, u \in Users, body \in Bodies : UpdateUser(p, u, body)
           \/ \E p \in Patches : CommitUpdate(p)
  BY <1>2, AdminKeepsIInv
<1>3. CASE Crash
  <2>1. Blank \in Visit /\ Unasked \in Patch
    BY DEF Blank, Unasked, Visit, Patch, Resting
  <2>2. TypeOK'
    BY <1>3, <2>1 DEF IInv, Crash, TypeOK
  <2>3. Serial' /\ DownIsQuiet' /\ (\A v \in Visits : Known(v)') /\ \A p \in Patches : PatchKnown(p)'
    BY <1>3 DEF Crash, Serial, DownIsQuiet, Known, PatchKnown, Blank, Unasked, Working
  <2>4. Distinct'
    BY <1>3 DEF IInv, Crash, Distinct, Exists, Clash
  <2> QED
    BY <2>2, <2>3, <2>4 DEF IInv
<1>4. CASE \E reset \in BOOLEAN : Start(reset)
  BY <1>4, StartKeepsIInv
<1>5. ASSUME UNCHANGED <<users, born, visits, patches, admins, up>>,
             github' \in [GitHubIds -> Profile]
      PROVE  IInv'
  <2>1. Serial' /\ DownIsQuiet' /\ Distinct' /\ \A p \in Patches : PatchKnown(p)'
    BY <1>5 DEF IInv, Serial, DownIsQuiet, Distinct, Exists, Clash, PatchKnown
  <2>2. \A v \in Visits : Known(v)'
    BY <1>5, OthersKeepKnown DEF IInv, Exists
  <2> QED
    BY <1>5, <2>1, <2>2 DEF IInv, TypeOK
<1>6. ASSUME NEW g \in GitHubIds, NEW l \in Logins, Rename(g, l) PROVE IInv'
  <2>1. github' \in [GitHubIds -> Profile]
    BY <1>6 DEF IInv, TypeOK, Rename, Profile
  <2> QED
    BY <1>5, <1>6, <2>1 DEF Rename
<1>7. CASE UNCHANGED vars
  BY <1>5, <1>7 DEF IInv, TypeOK, vars
<1> QED
  BY <1>1, <1>2, <1>3, <1>4, <1>6, <1>7 DEF Next

THEOREM Inductive == Spec => []IInv
BY InitIInv, NextKeepsIInv, PTL DEF Spec

-----------------------------------------------------------------------------
(* The theorems. *)

\* Every variable keeps its type, for any number of accounts, browsers and
\* administrators (users_service.py, auth_service.py, user_repository.py).
THEOREM TypeCorrect == Spec => []TypeOK
BY Inductive, PTL DEF IInv

\* In a step of the system, an account's email, role and activation change only
\* as a PATCH or the seeder asks.
LEMMA StepsDecide ==
    ASSUME IInv, [Next]_vars, NEW u \in Users, NEW f \in {"email", "role", "active"},
           users[u] # None, users'[u] # None, users'[u][f] # users[u][f]
    PROVE  \/ ~up /\ users[u].email = AdminMail
           \/ \E p \in Patches :
                 /\ patches[p].pc = "write" /\ patches'[p].pc = "idle"
                 /\ patches[p].user = u /\ f \in DOMAIN patches[p].fields
                 /\ users'[u][f] = patches[p].fields[f]
<1>0. /\ users \in [Users -> Row \cup {None}] /\ users[u] \in Row /\ users'[u] # users[u]
      /\ patches \in [Patches -> Patch]
  BY DEF IInv, TypeOK
<1>1. ASSUME NEW v \in Visits, UpdateAccount(v) PROVE FALSE
  <2> DEFINE me  == visits[v]
             row == Merged(users[me.user], me.seen, me.fields)
  <2>1. me.user = u /\ users'[u] = row /\ me.pc = "write" /\ users[me.user] \in Row
    BY <1>0, <1>1 DEF UpdateAccount
  <2>2. me.seen \in Row /\ me.fields \in Profiles
    BY <2>1 DEF IInv, TypeOK, Known, Visit
  <2>3. /\ row.email = users[me.user].email /\ row.role = users[me.user].role
        /\ row.active = users[me.user].active
    <3>1. users[me.user] \in Row
      BY <2>1
    <3> QED
      BY <2>2, <3>1, SignInMerge
  <2> QED
    BY <1>0, <2>1, <2>3
<1>2. ASSUME NEW v \in Visits, CreateAccount(v) PROVE FALSE
  <2>1. u \in born
    BY DEF IInv, Distinct, Exists
  <2> QED
    BY <1>0, <1>2, <2>1 DEF CreateAccount
<1>3. ASSUME NEW p \in Patches, CommitUpdate(p)
      PROVE  /\ patches[p].pc = "write" /\ patches'[p].pc = "idle"
             /\ patches[p].user = u /\ f \in DOMAIN patches[p].fields
             /\ users'[u][f] = patches[p].fields[f]
  <2> DEFINE me  == patches[p]
             row == Merged(users[me.user], me.seen, me.fields)
  <2>1. me.pc = "write" /\ me.user = u /\ users'[u] = row /\ users[me.user] \in Row
        /\ patches' = [patches EXCEPT ![p] = Unasked]
    BY <1>0, <1>3 DEF CommitUpdate
  <2>2. me.seen \in Row /\ me.fields \in Bodies
    BY <2>1 DEF IInv, TypeOK, PatchKnown, Patch
  <2>3. patches'[p].pc = "idle"
    BY <1>0, <2>1 DEF Unasked
  <2>4. row[f] # users[me.user][f] => f \in DOMAIN me.fields /\ row[f] = me.fields[f]
    <3>1. users[me.user] \in Row
      BY <2>1
    <3> QED
      BY <1>0, <2>2, <3>1, PatchMerge
  <2> QED
    BY <2>1, <2>3, <2>4
<1>4. ASSUME NEW reset \in BOOLEAN, Start(reset) PROVE ~up /\ users[u].email = AdminMail
  <2> DEFINE table == IF reset THEN [w \in Users |-> None] ELSE users
  <2>1. ~up /\ u \in born /\ (table[u] = None \/ table[u] = users[u])
    BY <1>4 DEF Start, IInv, Distinct, Exists
  <2>2. CASE users' = table
    BY <1>0, <2>1, <2>2
  <2>3. ASSUME NEW w \in Users, table[w] # None, table[w].email = AdminMail,
               users' = [table EXCEPT ![w] = Seeded(@)]
        PROVE  users[u].email = AdminMail
    BY <1>0, <2>1, <2>3
  <2>4. ASSUME NEW w \in Users \ born, users' = [table EXCEPT ![w] = FirstAdmin] PROVE FALSE
    BY <1>0, <2>1, <2>4
  <2> QED
    BY <1>4, <2>1, <2>2, <2>3, <2>4 DEF Start
<1>5. ASSUME NEW w \in Users, DeleteUser(w) PROVE FALSE
  BY <1>0, <1>5 DEF DeleteUser
<1>6. CASE UNCHANGED users
  BY <1>0, <1>6
<1>7. ASSUME NEW v \in Visits, SignInStep(v) PROVE FALSE
  <2>1. ASSUME NEW g \in GitHubIds, GetGitHubUser(v, g) PROVE UNCHANGED users
    BY <2>1 DEF GetGitHubUser
  <2>2. CASE GetByGitHubId(v) \/ GetByEmail(v) \/ ReadRow(v)
    BY <1>6, <2>2, <1>0 DEF GetByGitHubId, GetByEmail, ReadRow
  <2>3. CASE IssueToken(v) \/ SignInFails(v)
    BY <1>6, <2>3, <1>0 DEF IssueToken, SignInFails
  <2> QED
    BY <1>0, <1>1, <1>2, <1>7, <2>1, <2>2, <2>3 DEF SignInStep
<1>8. ASSUME \/ \E w \in Users : AuthenticateAdmin(w)
             \/ \E p \in Patches, w \in Users, body \in Bodies : UpdateUser(p, w, body)
             \/ Crash
             \/ \E g \in GitHubIds, l \in Logins : Rename(g, l)
             \/ UNCHANGED vars
      PROVE  UNCHANGED users
  BY <1>8 DEF AuthenticateAdmin, UpdateUser, Crash, Rename, vars
<1> QED
  BY <1>0, <1>3, <1>4, <1>5, <1>7, <1>8 DEF Next

\* An administrator's decision about an account stands whatever sign-ins and
\* other changes are in flight (UserRepository.update writes changed columns).
THEOREM DecisionsStand == Spec => PatchesDecide
<1>1. IInv /\ [Next]_vars =>
        [\A u \in Users, f \in {"email", "role", "active"} :
          users[u] # None /\ users'[u] # None /\ users'[u][f] # users[u][f] =>
              \/ ~up /\ users[u].email = AdminMail
              \/ \E p \in Patches :
                    /\ patches[p].pc = "write" /\ patches'[p].pc = "idle"
                    /\ patches[p].user = u /\ f \in DOMAIN patches[p].fields
                    /\ users'[u][f] = patches[p].fields[f]]_vars
  BY StepsDecide
<1> QED
  BY <1>1, Inductive, PTL DEF Spec, PatchesDecide

\* A lookup moves its own sign-in, and does not end it.
LEMMA LookUpMoves ==
    ASSUME visits \in [Visits -> Visit], NEW v \in Visits, GetByGitHubId(v) \/ GetByEmail(v)
    PROVE  /\ visits'[v].pc \in {"read", "by_mail", "create"}
           /\ \A w \in Visits \ {v} : visits'[w] = visits[w]
<1>1. ASSUME NEW u \in Users, NEW fields, Found(v, u, fields)
      PROVE  visits'[v].pc = "read" /\ \A w \in Visits \ {v} : visits'[w] = visits[w]
  BY <1>1 DEF Found, Visit
<1>2. ASSUME NEW pc, Advance(v, pc)
      PROVE  visits'[v].pc = pc /\ \A w \in Visits \ {v} : visits'[w] = visits[w]
  BY <1>2 DEF Advance, Visit
<1> QED
  BY <1>1, <1>2 DEF GetByGitHubId, GetByEmail

\* A sign-in moves on by its own steps only, unless the API crashes.
LEMMA OwnSteps ==
    ASSUME IInv, [Next]_vars, NEW v \in Visits, visits'[v] # visits[v], visits'[v].pc # "out"
    PROVE  SignInStep(v)
<1>0. visits \in [Visits -> Visit]
  BY DEF IInv, TypeOK
<1>1. ASSUME NEW w \in Visits, SignInStep(w), w # v PROVE FALSE
  <2>1. ASSUME NEW g \in GitHubIds, GetGitHubUser(w, g) PROVE FALSE
    BY <1>0, <1>1, <2>1 DEF GetGitHubUser
  <2>2. CASE GetByGitHubId(w) \/ GetByEmail(w)
    BY <1>0, <1>1, <2>2, LookUpMoves
  <2>3. CASE ReadRow(w) \/ UpdateAccount(w)
    BY <1>0, <1>1, <2>3 DEF ReadRow, UpdateAccount, Advance, End
  <2>4. CASE CreateAccount(w) \/ IssueToken(w) \/ SignInFails(w)
    BY <1>0, <1>1, <2>4 DEF CreateAccount, IssueToken, SignInFails, End
  <2> QED
    BY <1>1, <2>1, <2>2, <2>3, <2>4 DEF SignInStep
<1>2. ASSUME \/ \E u \in Users : AuthenticateAdmin(u) \/ DeleteUser(u)
             \/ \E p \in Patches, u \in Users, body \in Bodies : UpdateUser(p, u, body)
             \/ \E p \in Patches : CommitUpdate(p)
             \/ \E reset \in BOOLEAN : Start(reset)
             \/ \E g \in GitHubIds, l \in Logins : Rename(g, l)
             \/ UNCHANGED vars
      PROVE  FALSE
  <2>1. UNCHANGED visits
    BY <1>2 DEF AuthenticateAdmin, DeleteUser, UpdateUser, CommitUpdate, Start, Rename, vars
  <2> QED
    BY <2>1
<1>3. CASE Crash
  BY <1>3 DEF Crash, Blank
<1> QED
  BY <1>1, <1>2, <1>3 DEF Next

\* A token names an active account of the identity that signed in, also while
\* another identity claims the account (authenticate_github_user in one loop).
THEOREM TokensNameOwners == Spec => TokenNamesOwner
<1>1. ASSUME IInv, [Next]_vars, NEW v \in Visits,
             visits[v].pc = "decide", visits'[v].pc = "in"
      PROVE  LET row == users[visits[v].user]
             IN  row # None /\ row.active /\ row.gid = visits[v].gid
                            /\ row.login = visits[v].login
  <2>0. visits \in [Visits -> Visit]
    BY <1>1 DEF IInv, TypeOK
  <2>1. SignInStep(v)
    BY <1>1, OwnSteps
  <2>2. IssueToken(v)
    BY <1>1, <2>0, <2>1 DEF SignInStep, GetGitHubUser, GetByGitHubId, GetByEmail, ReadRow,
                            UpdateAccount, CreateAccount, SignInFails, End, Resting, Blank
  <2>3. Exists(visits[v].user) /\ users[visits[v].user].active
    BY <1>1, <2>0, <2>2 DEF IssueToken, End, Blank
  <2> QED
    BY <1>1, <2>3 DEF IInv, Known, Exists
<1>2. IInv /\ [Next]_vars =>
        [\A v \in Visits :
          visits[v].pc = "decide" /\ visits'[v].pc = "in" =>
              LET row == users[visits[v].user]
              IN  row # None /\ row.active /\ row.gid = visits[v].gid
                             /\ row.login = visits[v].login]_vars
  BY <1>1
<1> QED
  BY <1>2, Inductive, PTL DEF Spec, TokenNamesOwner

\* A sign-in meets a conflict only with an account of somebody else: the
\* lookups precede the update and no other sign-in comes between
\* (authenticate_github_user, UserRepository.update and create).
THEOREM ConflictsConcernOthers == Spec => ConflictsAreWithOthers
<1>1. ASSUME IInv, [Next]_vars, NEW v \in Visits,
             visits[v].pc # "conflict", visits'[v].pc = "conflict"
      PROVE  \E u \in Users :
                 /\ users[u] # None /\ users[u].gid # visits[v].gid
                 /\ \/ users[u].login = visits[v].login
                    \/ users[u].email = visits[v].email
  <2> DEFINE me == visits[v]
  <2>0. /\ visits \in [Visits -> Visit] /\ users \in [Users -> Row \cup {None}]
        /\ born \subseteq Users
    BY <1>1 DEF IInv, TypeOK
  <2>1. SignInStep(v)
    BY <1>1, OwnSteps
  <2>2. UpdateAccount(v) \/ CreateAccount(v)
    <3>1. ASSUME NEW g \in GitHubIds, GetGitHubUser(v, g) PROVE FALSE
      BY <1>1, <2>0, <3>1 DEF GetGitHubUser
    <3>2. CASE GetByGitHubId(v) \/ GetByEmail(v)
      BY <1>1, <2>0, <3>2, LookUpMoves
    <3>3. CASE ReadRow(v)
      <4>1. visits'[v].pc \in {"write", "out"}
        BY <2>0, <3>3 DEF ReadRow, End, Blank, Visit
      <4> QED
        BY <1>1, <4>1
    <3>4. CASE IssueToken(v) \/ SignInFails(v)
      BY <1>1, <2>0, <3>4 DEF IssueToken, SignInFails, End, Blank
    <3> QED
      BY <2>1, <3>1, <3>2, <3>3, <3>4 DEF SignInStep
  <2>3. CASE UpdateAccount(v)
    <3> DEFINE row == Merged(users[me.user], me.seen, me.fields)
    <3>1. me.pc = "write" /\ Exists(me.user) /\ Clash(me.user, row)
      <4>1. CASE ~Exists(me.user) /\ End(v, "out")
        BY <1>1, <2>0, <4>1 DEF End, Blank
      <4>2. CASE Advance(v, "decide")
        BY <1>1, <2>0, <4>2 DEF Advance, Visit
      <4> QED
        BY <2>3, <4>1, <4>2 DEF UpdateAccount
    <3>2. /\ me.user \in Users /\ users[me.user] \in Row
          /\ me.seen \in Row /\ me.fields \in Profiles /\ me.login # None /\ me.gid # None
          /\ me.fields.login = me.login /\ me.seen.login = users[me.user].login
          /\ me.seen.gid = users[me.user].gid
          /\ \/ DOMAIN me.fields = {"login"} /\ users[me.user].gid = me.gid
             \/ /\ DOMAIN me.fields = {"login", "gid"} /\ me.fields.gid = me.gid
                /\ \A u \in Users : Exists(u) => users[u].gid # me.gid
      BY <1>1, <2>0, <3>1 DEF IInv, Known, Visit, Working, Exists
    <3>3. row.login = me.login /\ row.email = users[me.user].email
      BY <3>2, SignInMerge
    <3>4. row.gid = me.gid
      <4>1. CASE DOMAIN me.fields = {"login"} /\ users[me.user].gid = me.gid
        <5>1. "gid" \notin DOMAIN me.fields
          BY <4>1
        <5> QED
          BY <3>2, <4>1, <5>1, SignInMerge
      <4>2. CASE DOMAIN me.fields = {"login", "gid"} /\ me.fields.gid = me.gid
        BY <3>2, <4>2, SignInMerge
      <4> QED
        BY <3>2, <4>1, <4>2
    <3>5. \A w \in Users \ {me.user} : Exists(w) => /\ users[w].email # users[me.user].email
                                                   /\ users[w].gid # me.gid
      BY <1>1, <3>1, <3>2 DEF IInv, Distinct, Clash
    <3> HIDE DEF row
    <3>6. PICK w \in Users \ {me.user} :
             /\ Exists(w)
             /\ \/ users[w].email = row.email
                \/ row.login # None /\ users[w].login = row.login
                \/ row.gid # None /\ users[w].gid = row.gid
      BY <3>1 DEF Clash
    <3> QED
      BY <3>3, <3>4, <3>5, <3>6 DEF Exists
  <2>4. CASE CreateAccount(v)
    <3> DEFINE row == [email |-> me.email, login |-> me.login, gid |-> me.gid,
                       role |-> "client", active |-> TRUE, password |-> FALSE]
    <3>1. PICK u \in Users : Clash(u, row)
      <4>1. ASSUME NEW u \in Users \ born,
                   visits' = [visits EXCEPT ![v].pc = "decide", ![v].user = u]
            PROVE  visits'[v].pc = "decide"
        BY <2>0, <4>1 DEF Visit
      <4>2. CASE \E u \in Users \ born : Clash(u, row)
        BY <2>0, <4>2
      <4> QED
        BY <1>1, <2>4, <4>1, <4>2 DEF CreateAccount
    <3>2. \A w \in Users : Exists(w) => users[w].gid # me.gid
      BY <1>1, <2>4 DEF CreateAccount, IInv, Known, Working
    <3> QED
      BY <3>1, <3>2 DEF Clash, Exists
  <2> QED
    BY <2>2, <2>3, <2>4
<1>2. IInv /\ [Next]_vars =>
        [\A v \in Visits :
          visits[v].pc # "conflict" /\ visits'[v].pc = "conflict" =>
              \E u \in Users :
                 /\ users[u] # None /\ users[u].gid # visits[v].gid
                 /\ \/ users[u].login = visits[v].login
                    \/ users[u].email = visits[v].email]_vars
  BY <1>1
<1> QED
  BY <1>2, Inductive, PTL DEF Spec, ConflictsAreWithOthers

\* A started API has exactly one administrator, the configured one
\* (create_admin of scripts/seed_data.py).
THEOREM StartSeedsOneAdmin == Spec => OneAdminAfterStart
<1>1. ASSUME IInv, [Next]_vars, ~up, up'
      PROVE  LET adminsNow == {u \in Users : users'[u] # None /\ users'[u].role = "admin"}
             IN  \E u \in Users :
                    /\ adminsNow = {u}
                    /\ users'[u].email = AdminMail /\ users'[u].active /\ users'[u].password
  <2>0. users \in [Users -> Row \cup {None}]
    BY <1>1 DEF IInv, TypeOK
  <2>1. PICK reset \in BOOLEAN : Start(reset)
    <3>1. ASSUME NEW v \in Visits, SignInStep(v) PROVE up' = up
      <4>1. CASE \E g \in GitHubIds : GetGitHubUser(v, g)
        BY <4>1 DEF GetGitHubUser
      <4>2. CASE GetByGitHubId(v) \/ GetByEmail(v) \/ ReadRow(v)
        BY <4>2 DEF GetByGitHubId, GetByEmail, ReadRow
      <4>3. CASE UpdateAccount(v) \/ CreateAccount(v)
        BY <4>3 DEF UpdateAccount, CreateAccount
      <4>4. CASE IssueToken(v) \/ SignInFails(v)
        BY <4>4 DEF IssueToken, SignInFails
      <4> QED
        BY <3>1, <4>1, <4>2, <4>3, <4>4 DEF SignInStep
    <3>2. ASSUME \/ \E u \in Users : AuthenticateAdmin(u) \/ DeleteUser(u)
                 \/ \E p \in Patches, u \in Users, body \in Bodies : UpdateUser(p, u, body)
                 \/ \E p \in Patches : CommitUpdate(p)
                 \/ Crash
                 \/ \E g \in GitHubIds, l \in Logins : Rename(g, l)
                 \/ UNCHANGED vars
          PROVE  up' = up \/ up' = FALSE
      BY <3>2 DEF AuthenticateAdmin, DeleteUser, UpdateUser, CommitUpdate, Crash, Rename, vars
    <3> QED
      BY <1>1, <3>1, <3>2 DEF Next
  <2> DEFINE table == IF reset THEN [u \in Users |-> None] ELSE users
  <2>2. /\ table \in [Users -> Row \cup {None}]
        /\ ~OtherAdmin(table)
        /\ \A u, w \in Users : table[u] # None /\ table[w] # None
                               /\ table[u].email = table[w].email => u = w
    <3>1. ~OtherAdmin(table)
      BY <1>1, <2>1 DEF Start
    <3>2. \A u, w \in Users : Exists(u) /\ Exists(w) /\ users[u].email = users[w].email => u = w
      BY <1>1 DEF IInv, Distinct, Clash
    <3> QED
      BY <2>0, <3>1, <3>2 DEF Exists
  <2>3. \A w \in Users : table[w] # None /\ table[w].role = "admin" => table[w].email = AdminMail
    BY <2>2 DEF OtherAdmin
  <2>4. ASSUME NEW u \in Users, table[u] # None, table[u].email = AdminMail,
               users' = [table EXCEPT ![u] = Seeded(@)]
        PROVE  /\ {w \in Users : users'[w] # None /\ users'[w].role = "admin"} = {u}
               /\ users'[u].email = AdminMail /\ users'[u].active /\ users'[u].password
    <3>1. /\ Seeded(table[u]).email = AdminMail /\ Seeded(table[u]).active = TRUE
          /\ Seeded(table[u]).password = TRUE /\ Seeded(table[u]).role = "admin"
          /\ Seeded(table[u]) \in Row
      BY <2>2, <2>4 DEF Seeded, Row, Roles
    <3>2. users'[u] = Seeded(table[u]) /\ \A w \in Users \ {u} : users'[w] = table[w]
      BY <2>2, <2>4
    <3>3. Seeded(table[u]) # None
      BY <3>1, AccountsAssumption
    <3>4. \A w \in Users \ {u} : ~(users'[w] # None /\ users'[w].role = "admin")
      BY <2>2, <2>3, <2>4, <3>2
    <3> QED
      BY <3>1, <3>2, <3>3, <3>4
  <2>5. ASSUME {u \in Users : table[u] # None /\ table[u].email = AdminMail} = {},
               NEW u \in Users, users' = [table EXCEPT ![u] = FirstAdmin]
        PROVE  /\ {w \in Users : users'[w] # None /\ users'[w].role = "admin"} = {u}
               /\ users'[u].email = AdminMail /\ users'[u].active /\ users'[u].password
    <3>1. FirstAdmin \in Row /\ FirstAdmin.email = AdminMail /\ FirstAdmin.active = TRUE
          /\ FirstAdmin.password = TRUE /\ FirstAdmin.role = "admin"
      BY AccountsAssumption DEF FirstAdmin, Row, Roles
    <3>2. users'[u] = FirstAdmin /\ \A w \in Users \ {u} : users'[w] = table[w]
      BY <2>2, <2>5
    <3>3. FirstAdmin # None
      BY <3>1, AccountsAssumption
    <3>4. \A w \in Users \ {u} : ~(users'[w] # None /\ users'[w].role = "admin")
      BY <2>3, <2>5, <3>2
    <3> QED
      BY <3>1, <3>2, <3>3, <3>4
  <2> QED
    BY <1>1, <2>1, <2>4, <2>5 DEF Start
<1>2. IInv /\ [Next]_vars =>
        [~up /\ up' =>
          LET adminsNow == {u \in Users : users'[u] # None /\ users'[u].role = "admin"}
          IN  \E u \in Users :
                 /\ adminsNow = {u}
                 /\ users'[u].email = AdminMail /\ users'[u].active /\ users'[u].password]_vars
  BY <1>1
<1> QED
  BY <1>2, Inductive, PTL DEF Spec, OneAdminAfterStart
=============================================================================
