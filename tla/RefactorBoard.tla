---------------------------- MODULE RefactorBoard ----------------------------
(***************************************************************************)
(* What the refactor queue of a project is for its user: a board with one  *)
(* ordered lane per status, to which files are added at the end of the     *)
(* first lane, between and within which they are moved, and from which     *)
(* they are removed.  RefactorQueue implements it, as long as one request  *)
(* is served at a time.                                                    *)
(***************************************************************************)
EXTENDS Naturals, Sequences, SequencesExt

CONSTANTS Items,        \* ids of queue items
          FileOf        \* the file each item stands for

VARIABLE lanes          \* the items of each lane, in order

Lanes == {"pending", "in_progress", "completed"}

OnBoard == UNION {Range(lanes[l]) : l \in Lanes}

Empty == [l \in Lanes |-> <<>>]

BoardInit == lanes = Empty

Add(i) ==
    /\ \A j \in OnBoard : FileOf[j] # FileOf[i]
    /\ lanes' = [lanes EXCEPT !["pending"] = Append(@, i)]

\* A lane without an item, which may not be in it.
Without(lane, i) ==
    IF i \in Range(lane) THEN RemoveAt(lane, CHOOSE n \in DOMAIN lane : lane[n] = i) ELSE lane

\* A position past the end of the lane stands for its end.
MoveTo(i, l, position) ==
    /\ i \in OnBoard
    /\ LET without == [k \in Lanes |-> Without(lanes[k], i)]
           index   == IF position > Len(without[l]) THEN Len(without[l]) ELSE position IN
       lanes' = [without EXCEPT ![l] = InsertAt(@, index + 1, i)]

TakeOff(i) ==
    /\ i \in OnBoard
    /\ lanes' = [l \in Lanes |-> Without(lanes[l], i)]

\* The project is deleted, and its board with it.
Clear == lanes' = Empty

BoardNext ==
    \/ \E i \in Items : Add(i) \/ TakeOff(i)
    \/ \E i \in Items, l \in Lanes : \E position \in 0..Len(lanes[l]) : MoveTo(i, l, position)
    \/ Clear

BoardSpec == BoardInit /\ [][BoardNext]_lanes
=============================================================================
