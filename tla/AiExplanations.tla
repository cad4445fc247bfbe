---------------------------- MODULE AiExplanations ----------------------------
(***************************************************************************)
(* The texts a language model writes about files and scans.  A request     *)
(* looks for the stored text first, asks the provider only when there is   *)
(* none, and stores what it gets; requests for the same text run at the    *)
(* same time, and a project may be deleted under them.                     *)
(*                                                                         *)
(* The details of a file need two texts one after the other, the directory *)
(* insight of a scan one.  A text is the number of the provider call that  *)
(* wrote it: no two calls write the same.                                  *)
(***************************************************************************)
EXTENDS Naturals, Sequences, FiniteSets

CONSTANTS Clients,      \* requests served at the same time
          Files, Scans, \* what is explained; each of another project
          MaxCalls      \* bound on the calls of the provider that return a text

VARIABLES parents,      \* the files and scans that exist
          stored,       \* the text stored for each explanation
          client,       \* what each request is doing
          calls,        \* how many texts the provider has written
          given,        \* the texts requests were given, by explanation
          wasted        \* how many texts could not be stored, by explanation
vars == <<parents, stored, client, calls, given, wasted>>

Parents == Files \cup Scans

ASSUME ExplanationsAssumption ==
    /\ IsFiniteSet(Clients) /\ Clients # {}
    /\ Files \cap Scans = {}
    /\ MaxCalls \in Nat

Explanations == [of : Files, type : {"summary", "architecture_summary"}]
                    \cup [of : Scans, type : {"directories_insight"}]
NoText       == 0

\* The explanations a request for a file or a scan needs, in order.
Needed(p) ==
    IF p \in Files
    THEN <<[of |-> p, type |-> "summary"], [of |-> p, type |-> "architecture_summary"]>>
    ELSE <<[of |-> p, type |-> "directories_insight"]>>

Stages == {"idle", "looking", "calling", "saving", "refreshing", "rereading"}
Client == [at : Stages, todo : Seq(Explanations), text : Nat]
Idle   == [at |-> "idle", todo |-> <<>>, text |-> NoText]

TypeOK ==
    /\ parents \subseteq Parents
    /\ stored \in [Explanations -> Nat]
    /\ client \in [Clients -> Client]
    /\ calls \in 0..MaxCalls
    /\ given \in [Explanations -> SUBSET Nat]
    /\ wasted \in [Explanations -> Nat]

Init ==
    /\ parents = Parents
    /\ stored = [e \in Explanations |-> NoText]
    /\ client = [c \in Clients |-> Idle]
    /\ calls = 0
    /\ given = [e \in Explanations |-> {}]
    /\ wasted = [e \in Explanations |-> 0]

Wanted(c) == Head(client[c].todo)

-----------------------------------------------------------------------------
\* What a request does when it is through with one explanation.
Continue(c) ==
    client' = [client EXCEPT ![c] =
        IF Len(client[c].todo) > 1
        THEN [Idle EXCEPT !.at = "looking", !.todo = Tail(client[c].todo)]
        ELSE Idle]

GoTo(c, stage, text) ==
    client' = [client EXCEPT ![c].at = stage, ![c].text = text]

Give(c, text) ==
    /\ given' = [given EXCEPT ![Wanted(c)] = @ \cup {text}]
    /\ Continue(c)

\* GET /files/{file_id}?include_summary=true, or the directory insight
Begin(c, p) ==
    /\ client[c].at = "idle"
    /\ p \in parents
    /\ client' = [client EXCEPT ![c] = [Idle EXCEPT !.at = "looking", !.todo = Needed(p)]]
    /\ UNCHANGED <<parents, stored, calls, given, wasted>>

\* Variant: what is stored is not looked for.
LookPast(c) ==
    /\ client[c].at = "looking"
    /\ GoTo(c, "calling", NoText)
    /\ UNCHANGED <<parents, stored, calls, given, wasted>>

Look(c) ==
    /\ client[c].at = "looking"
    /\ IF stored[Wanted(c)] # NoText
       THEN Give(c, stored[Wanted(c)])
       ELSE GoTo(c, "calling", NoText) /\ UNCHANGED given
    /\ UNCHANGED <<parents, stored, calls, wasted>>

Generate(c) ==
    /\ client[c].at = "calling"
    /\ calls < MaxCalls
    /\ calls' = calls + 1
    /\ GoTo(c, "saving", calls + 1)
    /\ UNCHANGED <<parents, stored, given, wasted>>

\* The provider fails, or returns no text: a request for the details of a
\* file goes on without it, and one for an insight has nothing else to do.
ProviderFails(c) ==
    /\ client[c].at = "calling"
    /\ Continue(c)
    /\ UNCHANGED <<parents, stored, calls, given, wasted>>

\* One text for each explanation, and none for what does not exist.
Store(c) == LET e == Wanted(c) IN
    /\ client[c].at = "saving"
    /\ IF e.of \in parents /\ stored[e] = NoText
       THEN /\ stored' = [stored EXCEPT ![e] = client[c].text]
            /\ GoTo(c, "refreshing", client[c].text)
            /\ UNCHANGED wasted
       ELSE /\ wasted' = [wasted EXCEPT ![e] = @ + 1]
            /\ GoTo(c, "rereading", client[c].text)
            /\ UNCHANGED stored
    /\ UNCHANGED <<parents, calls, given>>

\* The row is read again after the commit, and may be gone.
Refresh(c) ==
    /\ client[c].at = "refreshing"
    /\ IF stored[Wanted(c)] # NoText
       THEN Give(c, stored[Wanted(c)])
       ELSE client' = [client EXCEPT ![c] = Idle] /\ UNCHANGED given
    /\ UNCHANGED <<parents, stored, calls, wasted>>

\* Variant: the text that could not be stored is given all the same.
GiveOwn(c) ==
    /\ client[c].at = "rereading"
    /\ Give(c, client[c].text)
    /\ UNCHANGED <<parents, stored, calls, wasted>>

\* After an integrity error: the text that was stored first, if there is one.
Reread(c) ==
    /\ client[c].at = "rereading"
    /\ IF stored[Wanted(c)] # NoText
       THEN Give(c, stored[Wanted(c)])
       ELSE client' = [client EXCEPT ![c] = Idle] /\ UNCHANGED given
    /\ UNCHANGED <<parents, stored, calls, wasted>>

\* A database error ends the whole request, and so does its process.
Fail(c) ==
    /\ client[c].at # "idle"
    /\ client' = [client EXCEPT ![c] = Idle]
    /\ UNCHANGED <<parents, stored, calls, given, wasted>>

\* The project of a file or scan is deleted, and the texts with it.
Delete(p) ==
    /\ p \in parents
    /\ parents' = parents \ {p}
    /\ stored' = [e \in Explanations |-> IF e.of = p THEN NoText ELSE stored[e]]
    /\ UNCHANGED <<client, calls, given, wasted>>

Next ==
    \/ \E c \in Clients :
        \/ \E p \in Parents : Begin(c, p)
        \/ Look(c) \/ Generate(c) \/ ProviderFails(c)
        \/ Store(c) \/ Refresh(c) \/ Reread(c) \/ Fail(c)
    \/ \E p \in Parents : Delete(p)

Spec == Init /\ [][Next]_vars

-----------------------------------------------------------------------------
\* Whoever was given the explanation of a file or scan, at any time, was given
\* the same text: a request that wrote its own and comes second gives that of
\* the first (the integrity error of _create).
EveryoneReadsTheSame == \A e \in Explanations : \A s, t \in given[e] : s = t

\* The provider is asked again only by requests that were under way when the
\* first text was stored: fewer texts are thrown away than there are requests
\* at a time, however often the explanation is asked for.
FewTextsWasted ==
    \A e \in Explanations : e.of \in parents => wasted[e] < Cardinality(Clients)
=============================================================================
