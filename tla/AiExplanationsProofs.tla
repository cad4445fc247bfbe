------------------------ MODULE AiExplanationsProofs ------------------------
(* Everyone reads the same text, and few texts are wasted: for any number  *)
(* of requests, files, scans and provider calls.                           *)
EXTENDS AiExplanations, FiniteSetTheorems, SequenceTheorems, TLAPS

USE DEF NoText

\* A request that is under way wants something.
Busy == \A c \in Clients : client[c].at # "idle" => client[c].todo # <<>>

\* Only what exists has a text, and that is the one everyone was given.
Agreed ==
    \A e \in Explanations :
        /\ e.of \notin parents => stored[e] = NoText
        /\ e.of \in parents => given[e] \subseteq {stored[e]}
        /\ stored[e] = NoText /\ e.of \in parents => given[e] = {}
        /\ \A s, t \in given[e] : s = t

\* The requests that may still bring a text for an explanation.
Bringing(e) == {c \in Clients : client[c].at \in {"calling", "saving"} /\ Wanted(c) = e}

\* Once a text is stored, those under way are all that can still be wasted.
Bounded ==
    \A e \in Explanations : e.of \in parents =>
        /\ stored[e] = NoText => wasted[e] = 0
        /\ stored[e] # NoText => wasted[e] + Cardinality(Bringing(e)) < Cardinality(Clients)

Inv == TypeOK /\ Busy /\ Agreed

-----------------------------------------------------------------------------
LEMMA NeededType ==
    ASSUME NEW p \in Parents
    PROVE  Needed(p) \in Seq(Explanations) /\ Needed(p) # <<>>
<1>1. CASE p \in Files
  <2> DEFINE a == [of |-> p, type |-> "summary"]
             b == [of |-> p, type |-> "architecture_summary"]
  <2>1. a \in Explanations /\ b \in Explanations
    BY <1>1 DEF Explanations
  <2> HIDE DEF a, b
  <2>2. <<a, b>> \in Seq(Explanations) /\ <<a, b>> # <<>>
    BY <2>1
  <2>3. QED  BY <1>1, <2>2 DEF Needed, a, b
<1>2. CASE p \notin Files
  <2>1. [of |-> p, type |-> "directories_insight"] \in Explanations
    BY <1>2 DEF Explanations, Parents
  <2>2. QED  BY <1>2, <2>1 DEF Needed
<1>3. QED  BY <1>1, <1>2

\* What a busy request wants is an explanation.
LEMMA WantedType ==
    ASSUME TypeOK, Busy, NEW c \in Clients, client[c].at # "idle"
    PROVE  Wanted(c) \in Explanations
BY DEF TypeOK, Busy, Client, Wanted

LEMMA TailType ==
    ASSUME NEW S, NEW s \in Seq(S), Len(s) > 1
    PROVE  Tail(s) \in Seq(S) /\ Tail(s) # <<>>
<1> DEFINE t == Tail(s)
<1>1. s # <<>> /\ Len(s) \in Nat
  OBVIOUS
<1>2. t \in Seq(S) /\ Len(t) = Len(s) - 1
  BY <1>1, HeadTailProperties
<1> HIDE DEF t
<1>3. Len(t) > 0
  BY <1>1, <1>2
<1>4. t # <<>>
  BY <1>2, <1>3
<1>5. QED  BY <1>2, <1>4 DEF t

\* A request that goes on looks for what is left of its list.
LEMMA ContinueType ==
    ASSUME TypeOK, Busy, NEW c \in Clients, client[c].at # "idle", Continue(c)
    PROVE  client' \in [Clients -> Client] /\ Busy'
<1> DEFINE next == [Idle EXCEPT !.at = "looking", !.todo = Tail(client[c].todo)]
<1>1. Idle \in Client
  BY DEF Idle, Client, Stages
<1>2. CASE Len(client[c].todo) > 1
  <2>1. client[c].todo \in Seq(Explanations)
    BY DEF TypeOK, Client
  <2>2. Tail(client[c].todo) \in Seq(Explanations) /\ Tail(client[c].todo) # <<>>
    BY <1>2, <2>1, TailType
  <2>3. next \in Client /\ next.todo # <<>>
    BY <2>2 DEF Idle, Client, Stages
  <2>4. client' = [client EXCEPT ![c] = next]
    BY <1>2 DEF Continue
  <2> HIDE DEF next
  <2>5. QED  BY <2>3, <2>4 DEF TypeOK, Busy
<1>3. CASE ~(Len(client[c].todo) > 1)
  <2>1. client' = [client EXCEPT ![c] = Idle]
    BY <1>3 DEF Continue
  <2>2. QED  BY <1>1, <2>1 DEF TypeOK, Busy, Idle
<1>4. QED  BY <1>2, <1>3

LEMMA GoToType ==
    ASSUME TypeOK, Busy, NEW c \in Clients, client[c].at # "idle",
           NEW stage \in Stages, NEW text \in Nat, GoTo(c, stage, text)
    PROVE  client' \in [Clients -> Client] /\ Busy'
BY DEF GoTo, TypeOK, Busy, Client

LEMMA EndType ==
    ASSUME TypeOK, Busy, NEW c \in Clients, client' = [client EXCEPT ![c] = Idle]
    PROVE  client' \in [Clients -> Client] /\ Busy'
<1>1. Idle \in Client
  BY DEF Idle, Client, Stages
<1>2. QED  BY <1>1 DEF TypeOK, Busy, Idle

\* Giving what is stored keeps everyone agreed.
LEMMA GiveStored ==
    ASSUME Inv, NEW c \in Clients, client[c].at # "idle", stored[Wanted(c)] # NoText,
           Give(c, stored[Wanted(c)]), UNCHANGED <<parents, stored, calls, wasted>>
    PROVE  Inv'
<1>1. Wanted(c) \in Explanations
  BY WantedType DEF Inv
<1>2. client' \in [Clients -> Client] /\ Busy'
  BY ContinueType DEF Inv, Give
<1>3. given' \in [Explanations -> SUBSET Nat]
  BY <1>1 DEF Give, Inv, TypeOK
<1>4. Agreed'
  BY <1>1 DEF Give, Inv, TypeOK, Agreed
<1>5. QED  BY <1>2, <1>3, <1>4 DEF Inv, TypeOK

\* Inv is inductive: types, busy requests, and one text for everyone.
LEMMA InvHolds == Spec => []Inv
<1>1. Init => Inv
  BY ExplanationsAssumption DEF Init, Inv, TypeOK, Busy, Agreed, Idle, Client, Stages, Explanations, Parents
<1>2. Inv /\ [Next]_vars => Inv'
  <2> SUFFICES ASSUME Inv, [Next]_vars PROVE Inv'
    OBVIOUS
  <2> USE DEF Inv
  <2>1. ASSUME NEW c \in Clients, NEW p \in Parents, Begin(c, p) PROVE Inv'
    <3>1. [Idle EXCEPT !.at = "looking", !.todo = Needed(p)] \in Client
      BY NeededType DEF Idle, Client, Stages
    <3>2. client' \in [Clients -> Client] /\ Busy'
      BY <2>1, <3>1, NeededType DEF Begin, TypeOK, Busy, Idle
    <3>3. QED  BY <2>1, <3>2 DEF Begin, TypeOK, Agreed
  <2>2. ASSUME NEW c \in Clients, Look(c) PROVE Inv'
    <3>1. CASE stored[Wanted(c)] # NoText
      BY <2>2, <3>1, GiveStored DEF Look
    <3>2. CASE stored[Wanted(c)] = NoText
      <4>1. GoTo(c, "calling", NoText) /\ client[c].at # "idle" /\ "calling" \in Stages /\ NoText \in Nat
        BY <2>2, <3>2 DEF Look, Stages
      <4>2. client' \in [Clients -> Client] /\ Busy'
        BY <4>1, GoToType
      <4>3. QED  BY <2>2, <3>2, <4>2 DEF Look, TypeOK, Agreed
    <3>3. QED  BY <3>1, <3>2
  <2>3. ASSUME NEW c \in Clients, Generate(c) PROVE Inv'
    <3>1. GoTo(c, "saving", calls + 1) /\ client[c].at # "idle" /\ "saving" \in Stages /\ calls + 1 \in Nat
      BY <2>3, ExplanationsAssumption DEF Generate, Stages, TypeOK
    <3>2. client' \in [Clients -> Client] /\ Busy'
      BY <3>1, GoToType
    <3>3. QED  BY <2>3, <3>2, ExplanationsAssumption DEF Generate, TypeOK, Agreed
  <2>4. ASSUME NEW c \in Clients, ProviderFails(c) PROVE Inv'
    <3>1. client' \in [Clients -> Client] /\ Busy'
      BY <2>4, ContinueType DEF ProviderFails
    <3>2. QED  BY <2>4, <3>1 DEF ProviderFails, TypeOK, Agreed
  <2>5. ASSUME NEW c \in Clients, Store(c) PROVE Inv'
    <3> DEFINE e == Wanted(c)
    <3>1. e \in Explanations /\ client[c].text \in Nat /\ client[c].at # "idle"
      BY <2>5, WantedType DEF Store, TypeOK, Client
    <3>2. client' \in [Clients -> Client] /\ Busy'
      <4>1. GoTo(c, "refreshing", client[c].text) \/ GoTo(c, "rereading", client[c].text)
        BY <2>5 DEF Store
      <4>2. "refreshing" \in Stages /\ "rereading" \in Stages
        BY DEF Stages
      <4>3. QED  BY <3>1, <4>1, <4>2, GoToType
    <3>3. CASE e.of \in parents /\ stored[e] = NoText
      BY <2>5, <3>1, <3>2, <3>3 DEF Store, TypeOK, Agreed
    <3>4. CASE ~(e.of \in parents /\ stored[e] = NoText)
      BY <2>5, <3>1, <3>2, <3>4 DEF Store, TypeOK, Agreed
    <3>5. QED  BY <3>3, <3>4
  <2>6. ASSUME NEW c \in Clients, Refresh(c) \/ Reread(c) PROVE Inv'
    <3>1. CASE stored[Wanted(c)] # NoText
      BY <2>6, <3>1, GiveStored DEF Refresh, Reread
    <3>2. CASE stored[Wanted(c)] = NoText
      <4>1. client' \in [Clients -> Client] /\ Busy'
        BY <2>6, <3>2, EndType DEF Refresh, Reread
      <4>2. QED  BY <2>6, <3>2, <4>1 DEF Refresh, Reread, TypeOK, Agreed
    <3>3. QED  BY <3>1, <3>2
  <2>7. ASSUME NEW c \in Clients, Fail(c) PROVE Inv'
    <3>1. client' \in [Clients -> Client] /\ Busy'
      BY <2>7, EndType DEF Fail
    <3>2. QED  BY <2>7, <3>1 DEF Fail, TypeOK, Agreed
  <2>8. ASSUME NEW p \in Parents, Delete(p) PROVE Inv'
    BY <2>8 DEF Delete, TypeOK, Busy, Agreed
  <2>9. CASE UNCHANGED vars
    BY <2>9 DEF vars, TypeOK, Busy, Agreed
  <2>10. QED
    BY <2>1, <2>2, <2>3, <2>4, <2>5, <2>6, <2>7, <2>8, <2>9 DEF Next
<1>3. QED  BY <1>1, <1>2, PTL DEF Spec

-----------------------------------------------------------------------------
\* Nobody starts to bring a text for an explanation that has one.
LEMMA NobodyJoins ==
    ASSUME Inv, Next, NEW e \in Explanations, stored[e] # NoText
    PROVE  /\ Bringing(e)' \subseteq Bringing(e)
           /\ wasted'[e] = wasted[e]
              \/ \E c \in Bringing(e) : wasted'[e] = wasted[e] + 1 /\ c \notin Bringing(e)'
<1> USE DEF Inv
<1> DEFINE Goal == /\ Bringing(e)' \subseteq Bringing(e)
                   /\ wasted'[e] = wasted[e]
                      \/ \E c \in Bringing(e) : wasted'[e] = wasted[e] + 1 /\ c \notin Bringing(e)'
           Here(d) == client[d].at \in {"calling", "saving"} /\ Wanted(d) = e
<1>1. ASSUME NEW c \in Clients, NEW next, client' = [client EXCEPT ![c] = next],
             next.at \in {"calling", "saving"} /\ Head(next.todo) = e => c \in Bringing(e)
      PROVE  Bringing(e)' \subseteq Bringing(e)
  BY <1>1 DEF Bringing, Wanted, TypeOK
<1>2. ASSUME NEW c \in Clients, Continue(c) PROVE Bringing(e)' \subseteq Bringing(e)
  <2> DEFINE next == IF Len(client[c].todo) > 1
                     THEN [Idle EXCEPT !.at = "looking", !.todo = Tail(client[c].todo)] ELSE Idle
  <2>1. client' = [client EXCEPT ![c] = next]
    BY <1>2 DEF Continue
  <2>2. next.at \notin {"calling", "saving"}
    BY DEF Idle
  <2> HIDE DEF next
  <2>3. QED  BY <1>1, <2>1, <2>2
<1>3. ASSUME NEW c \in Clients, client' = [client EXCEPT ![c] = Idle]
      PROVE  Bringing(e)' \subseteq Bringing(e)
  BY <1>1, <1>3 DEF Idle
<1>4. ASSUME NEW c \in Clients, NEW p \in Parents, Begin(c, p) PROVE Goal
  <2> DEFINE next == [Idle EXCEPT !.at = "looking", !.todo = Needed(p)]
  <2>1. client' = [client EXCEPT ![c] = next] /\ wasted' = wasted
    BY <1>4 DEF Begin
  <2>2. next.at \notin {"calling", "saving"}
    BY DEF Idle
  <2> HIDE DEF next
  <2>3. QED  BY <1>1, <2>1, <2>2
<1>5. ASSUME NEW c \in Clients, Look(c) PROVE Goal
  <2>1. CASE stored[Wanted(c)] # NoText
    BY <1>2, <1>5, <2>1 DEF Look, Give
  <2>2. CASE stored[Wanted(c)] = NoText
    <3>1. GoTo(c, "calling", NoText) /\ Wanted(c) # e /\ wasted' = wasted
      BY <1>5, <2>2 DEF Look
    <3>2. QED  BY <3>1 DEF GoTo, Bringing, Wanted, TypeOK, Client
  <2>3. QED  BY <2>1, <2>2
<1>6. ASSUME NEW c \in Clients, Generate(c) PROVE Goal
  BY <1>6 DEF Generate, GoTo, Bringing, Wanted, TypeOK, Client
<1>7. ASSUME NEW c \in Clients, Store(c) PROVE Goal
  <2>1. client'[c].at \notin {"calling", "saving"} /\ Bringing(e)' \subseteq Bringing(e)
    <3>1. PICK stage \in {"refreshing", "rereading"} : GoTo(c, stage, client[c].text)
      BY <1>7 DEF Store
    <3> DEFINE next == [client[c] EXCEPT !.at = stage]
    <3>2. client' = [client EXCEPT ![c] = next] /\ next.at = stage
      BY <3>1 DEF GoTo, TypeOK, Client
    <3>3. client'[c].at = stage
      BY <3>1 DEF GoTo, TypeOK, Client
    <3> HIDE DEF next
    <3>4. QED  BY <1>1, <3>2, <3>3
  <2>2. CASE Wanted(c) = e
    <3>1. c \in Bringing(e) /\ c \notin Bringing(e)'
      BY <1>7, <2>1, <2>2 DEF Store, Bringing
    <3>2. wasted'[e] = wasted[e] + 1
      BY <1>7, <2>2 DEF Store, TypeOK
    <3>3. QED  BY <2>1, <3>1, <3>2
  <2>3. CASE Wanted(c) # e
    BY <1>7, <2>1, <2>3 DEF Store, TypeOK
  <2>4. QED  BY <2>2, <2>3
<1>8. ASSUME NEW c \in Clients, ProviderFails(c) PROVE Goal
  BY <1>2, <1>8 DEF ProviderFails
<1>9. ASSUME NEW c \in Clients, Refresh(c) \/ Reread(c) PROVE Goal
  BY <1>2, <1>3, <1>9 DEF Refresh, Reread, Give
<1>10. ASSUME NEW c \in Clients, Fail(c) PROVE Goal
  BY <1>3, <1>10 DEF Fail
<1>11. ASSUME NEW p \in Parents, Delete(p) PROVE Goal
  BY <1>11 DEF Delete, Bringing, Wanted
<1>12. QED
  BY <1>4, <1>5, <1>6, <1>7, <1>8, <1>9, <1>10, <1>11 DEF Next

\* The strengthening of FewTextsWasted that is inductive.
LEMMA BoundedHolds == Spec => []Bounded
<1>1. Init => Bounded
  BY DEF Init, Bounded
<1>2. Inv /\ Bounded /\ [Next]_vars => Bounded'
  <2> SUFFICES ASSUME Inv, Bounded, [Next]_vars, NEW e \in Explanations, e.of \in parents'
               PROVE  /\ stored'[e] = NoText => wasted'[e] = 0
                      /\ stored'[e] # NoText
                         => wasted'[e] + Cardinality(Bringing(e)') < Cardinality(Clients)
    BY DEF Bounded
  <2>1. CASE UNCHANGED vars
    BY <2>1 DEF Bounded, vars, Bringing, Wanted
  <2>2. CASE Next
    <3>1. e.of \in parents
      BY <2>2 DEF Next, Begin, Look, Generate, ProviderFails, Store, Refresh, Reread, Fail, Delete, Inv, TypeOK
    <3>2. wasted \in [Explanations -> Nat] /\ stored \in [Explanations -> Nat]
      BY DEF Inv, TypeOK
    <3>3. IsFiniteSet(Clients) /\ Bringing(e) \subseteq Clients /\ Bringing(e)' \subseteq Clients
      BY ExplanationsAssumption DEF Bringing
    <3>4. /\ IsFiniteSet(Bringing(e)) /\ Cardinality(Bringing(e)) \in Nat
          /\ IsFiniteSet(Bringing(e)') /\ Cardinality(Bringing(e)') \in Nat
          /\ Cardinality(Clients) \in Nat
      BY <3>3, FS_Subset, FS_CardinalityType
    <3>5. CASE stored[e] = NoText /\ stored'[e] = NoText
      BY <2>2, <3>1, <3>2, <3>5
      DEF Bounded, Next, Begin, Look, Generate, ProviderFails, Store, Refresh, Reread, Fail, Delete, Inv, TypeOK
    <3>6. CASE stored[e] = NoText /\ stored'[e] # NoText
      <4>1. PICK c \in Clients : Store(c)
        BY <2>2, <3>2, <3>6
        DEF Next, Begin, Look, Generate, ProviderFails, Refresh, Reread, Fail, Delete
      <4>2. wasted'[e] = 0
        BY <3>1, <3>2, <3>6, <4>1 DEF Store, Bounded
      <4>3. client'[c].at \notin {"calling", "saving"}
        BY <4>1 DEF Store, GoTo, Inv, TypeOK, Client
      <4>4. Bringing(e)' \subseteq Clients \ {c}
        BY <4>3 DEF Bringing
      <4>5. IsFiniteSet(Clients \ {c}) /\ Cardinality(Clients \ {c}) = Cardinality(Clients) - 1
        BY <3>3, FS_RemoveElement
      <4>6. Cardinality(Bringing(e)') <= Cardinality(Clients) - 1
        BY <4>4, <4>5, FS_Subset
      <4>7. QED  BY <3>4, <3>6, <4>2, <4>6
    <3>7. CASE stored[e] # NoText
      <4>1. wasted[e] + Cardinality(Bringing(e)) < Cardinality(Clients)
        BY <3>1, <3>7 DEF Bounded
      <4>2. Bringing(e)' \subseteq Bringing(e)
        BY <2>2, <3>7, NobodyJoins
      <4>3. stored'[e] # NoText
        BY <2>2, <3>1, <3>2, <3>7
        DEF Next, Begin, Look, Generate, ProviderFails, Store, Refresh, Reread, Fail, Delete, Inv, TypeOK
      <4>4. CASE wasted'[e] = wasted[e]
        <5>1. Cardinality(Bringing(e)') <= Cardinality(Bringing(e))
          BY <3>4, <4>2, FS_Subset
        <5>2. QED  BY <3>2, <3>4, <4>1, <4>3, <4>4, <5>1
      <4>5. ASSUME NEW c \in Bringing(e), wasted'[e] = wasted[e] + 1, c \notin Bringing(e)'
            PROVE  wasted'[e] + Cardinality(Bringing(e)') < Cardinality(Clients)
        <5>1. Bringing(e)' \subseteq Bringing(e) \ {c}
          BY <4>2, <4>5
        <5>2. /\ IsFiniteSet(Bringing(e) \ {c})
              /\ Cardinality(Bringing(e) \ {c}) = Cardinality(Bringing(e)) - 1
          BY <3>4, FS_RemoveElement
        <5>3. Cardinality(Bringing(e)') <= Cardinality(Bringing(e)) - 1
          BY <5>1, <5>2, FS_Subset
        <5>4. QED  BY <3>2, <3>4, <4>1, <4>5, <5>3
      <4>6. wasted'[e] = wasted[e]
            \/ \E c \in Bringing(e) : wasted'[e] = wasted[e] + 1 /\ c \notin Bringing(e)'
        BY <2>2, <3>7, NobodyJoins
      <4>7. QED  BY <4>3, <4>4, <4>5, <4>6
    <3>8. QED  BY <3>5, <3>6, <3>7
  <2>3. QED  BY <2>1, <2>2
<1>3. QED  BY <1>1, <1>2, InvHolds, PTL DEF Spec

-----------------------------------------------------------------------------
\* The variables keep their types.
THEOREM ExplanationTypes == Spec => []TypeOK
BY InvHolds, PTL DEF Inv

\* AiExplanationRepository._create answers the row that is already there, and
\* the service what the repository answers: no two requests are ever given
\* different texts for one explanation.
THEOREM OneTextForEveryone == Spec => []EveryoneReadsTheSame
<1>1. Inv => EveryoneReadsTheSame
  BY DEF Inv, Agreed, EveryoneReadsTheSame
<1>2. QED  BY <1>1, InvHolds, PTL

\* _get_or_generate looks before it asks: only the requests that looked before
\* the first text was stored can waste one, and each of them one at most.
THEOREM WasteIsBounded == Spec => []FewTextsWasted
<1>1. Cardinality(Clients) \in Nat /\ Cardinality(Clients) # 0
  BY ExplanationsAssumption, FS_CardinalityType, FS_EmptySet
<1>2. Inv /\ Bounded => FewTextsWasted
  <2> SUFFICES ASSUME Inv, Bounded, NEW e \in Explanations, e.of \in parents
               PROVE  wasted[e] < Cardinality(Clients)
    BY DEF FewTextsWasted
  <2>1. wasted[e] \in Nat
    BY DEF Inv, TypeOK
  <2>2. IsFiniteSet(Bringing(e)) /\ Cardinality(Bringing(e)) \in Nat
    BY ExplanationsAssumption, FS_Subset, FS_CardinalityType DEF Bringing
  <2>3. QED  BY <1>1, <2>1, <2>2 DEF Bounded
<1>3. QED  BY <1>2, InvHolds, BoundedHolds, PTL
=============================================================================
