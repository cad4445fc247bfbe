------------------------- MODULE RefactorQueueProofs -------------------------
(***************************************************************************)
(* What holds of the refactor queue for any number of requests, items and  *)
(* positions.  However many requests run, and however out of date the      *)
(* board each was computed from: a move changes the lane of its own item   *)
(* only, and the next write that is not disturbed numbers its lanes again, *)
(* 0, 1, 2, ...  Served one at a time, they are never out of order, and    *)
(* the requests are the operations of the board a user sees.               *)
(*                                                                         *)
(* The numbers are those of counting: in a finite lane whose rows are      *)
(* totally ordered, each row has another number of rows before it, so      *)
(* the numbers are all there are.  The order is total because creation     *)
(* times differ, which is what the invariant says of them.                 *)
(***************************************************************************)
EXTENDS RefactorQueue, Counting, SequenceTheorems

(* The invariant.                                                          *)

Known == {i \in Items : born[i] > 0}

\* Creation times tell items apart: each is later than those before it.
BornInOrder ==
    /\ IsFiniteSet(Known)
    /\ \A i \in Items : born[i] <= Cardinality(Known)
    /\ \A i, j \in Known : born[i] = born[j] => i = j

\* A request works on an item that was created, has read rows of such items,
\* and to move an item has read its row.
WellRead(r) ==
    /\ r.at # "idle" => r.item \in Known
    /\ \A i \in Items : r.view[i].status # "absent" => i \in Known
    /\ r.at \in {"opened", "moving"} => r.view[r.item].status # "absent"

OnlyKnownSeen ==
    /\ \A i \in Items : Present(i) => i \in Known
    /\ \A c \in Clients : WellRead(client[c])

QueueInv == TypeOK /\ BornInOrder /\ OnlyKnownSeen

-----------------------------------------------------------------------------
(* Counting the rows of a lane.                                            *)

\* Whatever rows with positions lie in a lane, gaps and equal positions
\* included: counting the rows before each row (enumerate over the ordered
\* lane) numbers them 0, 1, 2, ..., each number once.
Ranks(table, lane) == {Rank(table, lane, i) : i \in lane}

LEMMA RanksNumberTheLane ==
    ASSUME NEW table, NEW lane, IsFiniteSet(lane),
           \A i \in lane : table[i].position \in Nat /\ born[i] \in Nat,
           \A i, j \in lane : born[i] = born[j] => i = j
    PROVE  /\ Cardinality(lane) \in Nat
           /\ \A i \in lane : Rank(table, lane, i) \in 0..(Cardinality(lane) - 1)
           /\ \A i, j \in lane : Rank(table, lane, i) = Rank(table, lane, j) => i = j
           /\ Ranks(table, lane) = 0..(Cardinality(lane) - 1)
<1> DEFINE below == [i \in lane |-> {j \in lane : Before(table, j, i)}]
<1>1. \A i \in lane : below[i] \subseteq lane /\ i \notin below[i]
  BY DEF Before
<1>2. \A i, j \in lane : i # j => i \in below[j] \/ j \in below[i]
  BY DEF Before
<1>3. \A i, j \in lane : i \in below[j] => below[i] \subseteq below[j]
  BY DEF Before
<1>4. \A i \in lane : Rank(table, lane, i) = Cardinality(below[i])
  BY DEF Rank
<1> HIDE DEF below
<1>5. /\ Cardinality(lane) \in Nat
      /\ \A i \in lane : Cardinality(below[i]) \in 0..(Cardinality(lane) - 1)
      /\ \A i, j \in lane : Cardinality(below[i]) = Cardinality(below[j]) => i = j
      /\ {Cardinality(below[i]) : i \in lane} = 0..(Cardinality(lane) - 1)
  BY <1>1, <1>2, <1>3, RanksNumber
<1>6. QED  BY <1>4, <1>5 DEF Ranks

\* The rows of a lane, as they are or as a request has read them, are finitely
\* many and of items with creation times of their own.
LEMMA LanesAreOrdered ==
    ASSUME QueueInv, NEW table \in [Items -> Row], NEW status \in Status, NEW but,
           \A i \in Items : table[i].status # "absent" => i \in Known
    PROVE  LET lane == Lane(table, status, but) IN
           /\ lane \subseteq Items /\ IsFiniteSet(lane) /\ Cardinality(lane) \in Nat
           /\ \A i \in lane : table[i].position \in Nat /\ born[i] \in Nat
           /\ \A i, j \in lane : born[i] = born[j] => i = j
<1> DEFINE lane == Lane(table, status, but)
<1>1. lane \subseteq Known
  BY DEF Lane, Status, Known
<1>2. IsFiniteSet(lane) /\ Cardinality(lane) \in Nat
  BY <1>1, FS_Subset, FS_CardinalityType DEF QueueInv, BornInOrder
<1>3. \A i \in lane : table[i].position \in Nat /\ born[i] \in Nat
  BY DEF Lane, QueueInv, TypeOK, Row
<1>4. \A i, j \in lane : born[i] = born[j] => i = j
  BY <1>1 DEF QueueInv, BornInOrder
<1>5. QED  BY <1>1, <1>2, <1>3, <1>4 DEF Known

\* In a lane that is not empty some position is the last.
LEMMA SomePositionIsLast ==
    ASSUME NEW table, NEW lane, IsFiniteSet(lane), lane # {},
           \A i \in lane : table[i].position \in Nat /\ born[i] \in Nat,
           \A i, j \in lane : born[i] = born[j] => i = j
    PROVE  \E i \in lane : \A j \in lane : table[j].position <= table[i].position
<1> DEFINE n == Cardinality(lane)
<1>1. n \in Nat /\ n # 0
  BY FS_CardinalityType, FS_EmptySet
<1>2. PICK i \in lane : Rank(table, lane, i) = n - 1
  <2>1. n - 1 \in 0..(n - 1)
    BY <1>1
  <2>2. {Rank(table, lane, i) : i \in lane} = 0..(n - 1)
    <3> HIDE DEF n
    <3>1. QED  BY RanksNumberTheLane DEF n, Ranks
  <2>3. QED  BY <2>1, <2>2
<1>3. \A j \in lane : j = i \/ Before(table, j, i)
  <2> DEFINE below == {j \in lane : Before(table, j, i)}
  <2>1. IsFiniteSet(lane \ {i}) /\ Cardinality(lane \ {i}) = n - 1
    BY FS_RemoveElement
  <2>2. below \subseteq lane \ {i}
    BY DEF Before
  <2>3. Cardinality(below) = n - 1
    BY <1>2 DEF Rank
  <2>4. below = lane \ {i}
    <3> HIDE DEF below
    <3>1. QED  BY <2>1, <2>2, <2>3, FS_Subset
  <2>5. QED  BY <2>4
<1>4. QED  BY <1>3 DEF Before

\* A rank is a number, as there are finitely many rows.
LEMMA RankType ==
    ASSUME NEW table, NEW lane, IsFiniteSet(lane), NEW i
    PROVE  Rank(table, lane, i) \in Nat
BY FS_Subset, FS_CardinalityType DEF Rank

\* What a move writes are rows.
LEMMA RearrangedType ==
    ASSUME QueueInv, NEW c \in Clients, client[c].at = "moving"
    PROVE  Rearranged(client[c]) \in [Items -> Row]
<1> DEFINE request == client[c]
           view == request.view
           others == [s \in Status |-> Lane(view, s, request.item)]
<1>1. /\ request.item \in Items /\ request.status \in Status /\ request.position \in Nat
      /\ view \in [Items -> Row]
  BY DEF QueueInv, TypeOK, Client, OnlyKnownSeen, WellRead, Known
<1>2. \A s \in Status : IsFiniteSet(others[s]) /\ Cardinality(others[s]) \in Nat
  BY <1>1, LanesAreOrdered DEF QueueInv, OnlyKnownSeen, WellRead
<1>3. ASSUME NEW i \in Items, view[i].status # "absent"
      PROVE  view[i].status \in Status /\ Rank(view, others[view[i].status], i) \in Nat
  <2>1. view[i].status \in Status
    BY <1>1, <1>3 DEF Row
  <2>2. QED  BY <1>2, <2>1, RankType
<1>4. QED  BY <1>1, <1>2, <1>3 DEF Rearranged, Row, NoRow

\* A write leaves rows, and makes none.
LEMMA WriteType ==
    ASSUME rows \in [Items -> Row], NEW c \in Clients, NEW lane, NEW new \in [Items -> Row],
           NEW base \in [Items -> Row], Write(c, lane, new, base), lane \subseteq Items,
           \A i \in Items : base[i].status \in {rows[i].status, "absent"}
    PROVE  /\ rows' \in [Items -> Row]
           /\ \A i \in Items : rows'[i].status # "absent" => Present(i)
<1> DEFINE view == client[c].view
           dirty == {i \in lane : new[i] # view[i]}
           written == [i \in Items |-> IF i \in dirty THEN Merged(rows[i], view[i], new[i]) ELSE base[i]]
<1>1. rows' = IF \A i \in dirty : Present(i) THEN written ELSE rows
  BY DEF Write
<1>2. CASE rows' = rows
  BY <1>2 DEF Present
<1>3. CASE rows' = written /\ \A i \in dirty : Present(i)
  <2>1. \A i \in Items : Merged(rows[i], view[i], new[i]) \in Row
    BY DEF Merged, Row
  <2>2. QED  BY <1>3, <2>1 DEF Present
<1>4. QED  BY <1>1, <1>2, <1>3

\* The position a new item gets is a number.
LEMMA NextPositionType ==
    ASSUME QueueInv PROVE NextPosition \in Nat
<1> DEFINE lane == Lane(rows, "pending", NoItem)
           taken == {rows[i].position : i \in lane}
<1>1. /\ IsFiniteSet(lane)
      /\ \A i \in lane : rows[i].position \in Nat /\ born[i] \in Nat
      /\ \A i, j \in lane : born[i] = born[j] => i = j
  BY LanesAreOrdered DEF QueueInv, TypeOK, OnlyKnownSeen, Present, Status
<1>2. CASE taken = {}
  BY <1>2 DEF NextPosition
<1>3. CASE taken # {}
  <2>1. \E i \in lane : \A j \in lane : rows[j].position <= rows[i].position
    BY <1>1, <1>3, SomePositionIsLast
  <2>2. \E p \in taken : \A q \in taken : q <= p
    BY <2>1
  <2>3. (CHOOSE p \in taken : \A q \in taken : q <= p) \in taken
    BY <2>2
  <2>4. taken \subseteq Nat
    BY <1>1
  <2>5. NextPosition = (CHOOSE p \in taken : \A q \in taken : q <= p) + 1
    BY <1>3 DEF NextPosition
  <2>6. ASSUME NEW p \in Nat PROVE p + 1 \in Nat
    OBVIOUS
  <2> HIDE DEF taken
  <2>7. QED  BY <2>3, <2>4, <2>5, <2>6
<1>4. QED  BY <1>2, <1>3

-----------------------------------------------------------------------------
\* A new creation time is later than all others.
LEMMA BeginAddInv ==
    ASSUME QueueInv, NEW c \in Clients, NEW i \in Items, BeginAdd(c, i)
    PROVE  QueueInv'
<1>1. /\ born[i] = 0 /\ born' = [born EXCEPT ![i] = Cardinality(Known) + 1]
      /\ client' = [client EXCEPT ![c] = [Idle EXCEPT !.at = "adding", !.item = i, !.position = NextPosition]]
      /\ rows' = rows /\ project' = project
  BY DEF BeginAdd, Known
<1>2. Cardinality(Known) \in Nat
  BY FS_CardinalityType DEF QueueInv, BornInOrder
<1>3. born' \in [Items -> Nat]
  BY <1>1, <1>2 DEF QueueInv, TypeOK
<1>4. Known' = Known \cup {i} /\ i \notin Known
  BY <1>1, <1>2 DEF QueueInv, TypeOK, Known
<1>5. IsFiniteSet(Known') /\ Cardinality(Known') = Cardinality(Known) + 1
  BY <1>4, FS_AddElement DEF QueueInv, BornInOrder
<1>6. BornInOrder'
  <2>1. /\ born'[i] = Cardinality(Known) + 1
        /\ \A j \in Items \ {i} : born'[j] = born[j]
        /\ \A j \in Items : born[j] \in Nat /\ born[j] <= Cardinality(Known)
        /\ \A j, k \in Known : born[j] = born[k] => j = k
    BY <1>1 DEF QueueInv, TypeOK, BornInOrder
  <2>2. Known \subseteq Items
    BY DEF Known
  <2>3. \A j \in Items : born'[j] <= Cardinality(Known')
    BY <1>2, <1>5, <2>1
  <2>4. \A j, k \in Known' : born'[j] = born'[k] => j = k
    BY <1>2, <1>4, <2>1, <2>2
  <2>5. QED  BY <1>5, <2>3, <2>4 DEF BornInOrder
<1>7. TypeOK'
  <2>1. [Idle EXCEPT !.at = "adding", !.item = i, !.position = NextPosition] \in Client
    BY NextPositionType DEF Idle, Client, Stages, Status, NoRows, NoRow, Row
  <2>2. QED  BY <1>1, <1>3, <2>1 DEF QueueInv, TypeOK
<1>8. OnlyKnownSeen'
  <2>1. \A j \in Items : Present(j)' => j \in Known'
    BY <1>1, <1>4 DEF QueueInv, OnlyKnownSeen, Present
  <2>2. ASSUME NEW d \in Clients PROVE WellRead(client[d])'
    <3>1. CASE d = c
      <4>1. /\ client'[d].at = "adding" /\ client'[d].item = i
            /\ client'[d].view = NoRows
        BY <1>1, <3>1 DEF QueueInv, TypeOK, Idle
      <4>2. QED  BY <1>4, <4>1 DEF WellRead, NoRows, NoRow
    <3>2. CASE d # c
      <4>1. client'[d] = client[d]
        BY <1>1, <3>2 DEF QueueInv, TypeOK
      <4>2. WellRead(client[d])
        BY DEF QueueInv, OnlyKnownSeen
      <4>3. QED  BY <1>4, <4>1, <4>2 DEF WellRead
    <3>3. QED  BY <3>1, <3>2
  <2>3. QED  BY <2>1, <2>2 DEF OnlyKnownSeen
<1>9. QED  BY <1>6, <1>7, <1>8 DEF QueueInv

\* The steps that create no item.
LEMMA OtherStepsInv ==
    ASSUME QueueInv, UNCHANGED born,
           project' \in BOOLEAN, rows' \in [Items -> Row], client' \in [Clients -> Client],
           \A i \in Items : rows'[i].status # "absent" => i \in Known,
           \A c \in Clients : WellRead(client'[c])
    PROVE  QueueInv'
<1>1. Known' = Known
  BY DEF Known
<1>2. TypeOK'
  BY DEF QueueInv, TypeOK
<1>3. BornInOrder'
  BY <1>1 DEF QueueInv, BornInOrder
<1>4. OnlyKnownSeen'
  BY <1>1 DEF OnlyKnownSeen, Present, WellRead
<1>5. QED  BY <1>2, <1>3, <1>4 DEF QueueInv

\* An idle client, and rows that are not there.
LEMMA EmptyTypes ==
    Idle \in Client /\ WellRead(Idle) /\ NoRow \in Row /\ NoRows \in [Items -> Row]
BY DEF Idle, Client, Stages, Status, NoRows, NoRow, Row, WellRead

\* A commit writes rows of items that are known, and ends its request.
LEMMA CommitInv ==
    ASSUME QueueInv, NEW c \in Clients, CommitAdd(c) \/ CommitMove(c) \/ CommitRemoval(c)
    PROVE  QueueInv'
<1> USE EmptyTypes
<1>1. /\ client' = [client EXCEPT ![c] = Idle] /\ project' = project /\ born' = born
      /\ client[c].item \in Known /\ client[c] \in Client
  BY DEF CommitAdd, CommitMove, CommitRemoval, Leave, QueueInv, TypeOK, OnlyKnownSeen, WellRead
<1>2. /\ rows' \in [Items -> Row]
      /\ \A i \in Items : rows'[i].status # "absent" => i \in Known
  <2>1. CASE CommitAdd(c)
    <3>1. /\ rows \in [Items -> Row] /\ client[c].item \in Known
          /\ \A i \in Items : rows[i].status # "absent" => i \in Known
      BY <1>1 DEF QueueInv, TypeOK, OnlyKnownSeen, Present
    <3>2. QED  BY <1>1, <2>1, <3>1 DEF CommitAdd, Client, Row, Status
  <2>2. CASE CommitMove(c)
    <3> DEFINE lane == {i \in Items : client[c].view[i].status # "absent"}
               new == Rearranged(client[c])
    <3>1. new \in [Items -> Row]
      BY <2>2, RearrangedType DEF CommitMove
    <3>2. Write(c, lane, new, rows) /\ rows \in [Items -> Row]
      BY <2>2 DEF CommitMove, QueueInv, TypeOK
    <3>. lane \subseteq Items
      OBVIOUS
    <3> HIDE DEF new, lane
    <3>3. /\ rows' \in [Items -> Row]
          /\ \A i \in Items : rows'[i].status # "absent" => Present(i)
      BY <3>1, <3>2, WriteType
    <3>4. QED  BY <3>3 DEF QueueInv, OnlyKnownSeen
  <2>3. CASE CommitRemoval(c)
    <3> DEFINE view == client[c].view
               rest == Lane(view, client[c].status, NoItem)
               new  == [i \in Items |-> [status |-> view[i].status, position |-> Rank(view, rest, i)]]
               base == [rows EXCEPT ![client[c].item] = NoRow]
    <3>1. view \in [Items -> Row] /\ rows \in [Items -> Row]
      BY <1>1 DEF Client, QueueInv, TypeOK
    <3>2. IsFiniteSet(rest) /\ rest \subseteq Items
      BY <1>1, <3>1, LanesAreOrdered DEF QueueInv, OnlyKnownSeen, WellRead, Client
    <3>3. new \in [Items -> Row]
      <4>1. \A i \in Items : Rank(view, rest, i) \in Nat
        BY <3>2, RankType
      <4>2. QED  BY <3>1, <4>1 DEF Row
    <3>4. /\ base \in [Items -> Row]
          /\ \A i \in Items : base[i].status \in {rows[i].status, "absent"}
      BY <3>1 DEF NoRow
    <3>5. Write(c, rest, new, base)
      BY <2>3 DEF CommitRemoval
    <3> HIDE DEF new, base, rest
    <3>6. /\ rows' \in [Items -> Row]
          /\ \A i \in Items : rows'[i].status # "absent" => Present(i)
      BY <3>1, <3>2, <3>3, <3>4, <3>5, WriteType
    <3>7. QED  BY <3>6 DEF QueueInv, OnlyKnownSeen
  <2>4. QED  BY <2>1, <2>2, <2>3
<1>3. client' \in [Clients -> Client]
  BY <1>1 DEF QueueInv, TypeOK
<1>4. \A d \in Clients : WellRead(client'[d])
  <2>1. \A d \in Clients : client'[d] \in {client[d], Idle}
    BY <1>1 DEF QueueInv, TypeOK
  <2>2. QED  BY <2>1 DEF QueueInv, OnlyKnownSeen
<1>5. QED  BY <1>1, <1>2, <1>3, <1>4, OtherStepsInv DEF QueueInv, TypeOK

\* What a request reads it reads of rows that are there, or it stops.
LEMMA ReadInv ==
    ASSUME QueueInv, NEW c \in Clients,
           \/ \E i \in Items : OpenDoomed(c, i)
           \/ \E i \in Items, status \in Targets, position \in 0..MaxPosition :
                  OpenItem(c, i, status, position)
           \/ LoadBoard(c) \/ FlushRemoval(c) \/ RollBack(c)
    PROVE  QueueInv'
<1> USE EmptyTypes
<1> DEFINE Becomes(r) == client' = [client EXCEPT ![c] = r] /\ r \in Client /\ WellRead(r)
<1>1. /\ rows' = rows /\ project' = project /\ born' = born
      /\ client[c] \in Client /\ WellRead(client[c])
      /\ rows \in [Items -> Row] /\ client \in [Clients -> Client]
      /\ \A i \in Items : rows[i].status # "absent" => i \in Known
  BY DEF OpenDoomed, OpenItem, LoadBoard, FlushRemoval, RollBack, QueueInv, TypeOK, OnlyKnownSeen, Present
<1>2. ASSUME NEW i \in Items, OpenDoomed(c, i) PROVE \E r : Becomes(r)
  <2> DEFINE r == [Idle EXCEPT !.at = "doomed", !.item = i, !.status = rows[i].status]
  <2>1. rows[i].status \in Status /\ i \in Known
    BY <1>1, <1>2 DEF OpenDoomed, Present, Row
  <2>2. r \in Client /\ WellRead(r)
    BY <2>1 DEF Idle, Client, Stages, NoRows, NoRow, WellRead
  <2>3. client' = [client EXCEPT ![c] = r]
    BY <1>2 DEF OpenDoomed
  <2>4. QED  BY <2>2, <2>3
<1>3. ASSUME NEW i \in Items, NEW status \in Targets, NEW position \in 0..MaxPosition,
             OpenItem(c, i, status, position)
      PROVE  \E r : Becomes(r)
  <2> DEFINE r == [at |-> "opened", item |-> i, status |-> status, position |-> position,
                   view |-> [NoRows EXCEPT ![i] = rows[i]]]
  <2>1. rows[i].status # "absent" /\ i \in Known /\ status \in Status /\ position \in Nat
    BY <1>1, <1>3, QueueAssumption DEF OpenItem, Present
  <2>2. r \in Client /\ WellRead(r)
    BY <1>1, <2>1 DEF Client, Stages, NoRows, NoRow, WellRead
  <2>3. client' = [client EXCEPT ![c] = r]
    BY <1>3 DEF OpenItem
  <2>4. QED  BY <2>2, <2>3
<1>4. ASSUME LoadBoard(c) PROVE \E r : Becomes(r)
  <2> DEFINE view == [rows EXCEPT ![client[c].item] = client[c].view[client[c].item]]
             r == [client[c] EXCEPT !.at = "moving", !.view = view]
  <2>1. /\ client[c].item \in Known /\ client[c].item \in Items
        /\ client[c].view[client[c].item].status # "absent"
    BY <1>1, <1>4 DEF LoadBoard, WellRead, Known
  <2>2. view \in [Items -> Row] /\ \A i \in Items : view[i].status # "absent" => i \in Known
    BY <1>1, <2>1 DEF Client
  <2>3. view[client[c].item].status # "absent"
    BY <1>1, <2>1
  <2>4. client' = [client EXCEPT ![c] = r]
    BY <1>1, <1>4 DEF LoadBoard
  <2> HIDE DEF view
  <2>5. r \in Client /\ WellRead(r)
    BY <1>1, <2>1, <2>2, <2>3 DEF Client, Stages, WellRead
  <2>6. QED  BY <2>4, <2>5
<1>5. ASSUME FlushRemoval(c) PROVE \E r : Becomes(r)
  <2> DEFINE rest == Lane(rows, client[c].status, client[c].item)
             view == [j \in Items |-> IF j \in rest THEN rows[j] ELSE NoRow]
             r == [client[c] EXCEPT !.at = "removing", !.view = view]
  <2>1. client[c].item \in Known
    BY <1>1, <1>5 DEF FlushRemoval, WellRead
  <2>2. view \in [Items -> Row] /\ \A i \in Items : view[i].status # "absent" => i \in Known
    BY <1>1 DEF NoRow
  <2>3. client' = [client EXCEPT ![c] = r]
    BY <1>1, <1>5 DEF FlushRemoval
  <2> HIDE DEF view
  <2>4. r \in Client /\ WellRead(r)
    BY <1>1, <2>1, <2>2 DEF Client, Stages, WellRead
  <2>5. QED  BY <2>3, <2>4
<1>6. ASSUME RollBack(c) PROVE \E r : Becomes(r)
  BY <1>6 DEF RollBack, Leave
<1>7. PICK r : Becomes(r)
  <2> HIDE DEF Becomes
  <2>1. QED  BY <1>2, <1>3, <1>4, <1>5, <1>6
<1>8. client' \in [Clients -> Client] /\ \A d \in Clients : client'[d] \in {client[d], r}
  BY <1>1, <1>7
<1>9. \A d \in Clients : WellRead(client'[d])
  BY <1>7, <1>8 DEF QueueInv, OnlyKnownSeen
<1>10. QED  BY <1>1, <1>8, <1>9, OtherStepsInv DEF QueueInv, TypeOK

\* Every step keeps the invariant.
LEMMA QueueInvariant == Spec => []QueueInv
<1>1. Init => QueueInv
  <2> SUFFICES ASSUME Init PROVE QueueInv
    OBVIOUS
  <2>1. Known = {}
    BY DEF Init, Known
  <2>2. QED
    BY <2>1, EmptyTypes, FS_EmptySet DEF Init, QueueInv, TypeOK, BornInOrder, OnlyKnownSeen, Present, NoRows, NoRow
<1>2. QueueInv /\ [Next]_vars => QueueInv'
  <2> SUFFICES ASSUME QueueInv, [Next]_vars PROVE QueueInv'
    OBVIOUS
  <2>1. CASE UNCHANGED vars
    BY <2>1 DEF vars, QueueInv, TypeOK, BornInOrder, Known, OnlyKnownSeen, Present, WellRead
  <2>2. CASE DeleteProject
    <3>1. /\ rows' \in [Items -> Row] /\ \A i \in Items : rows'[i].status = "absent"
          /\ born' = born /\ client' = client /\ project' = FALSE
      BY <2>2, EmptyTypes DEF DeleteProject, NoRows, NoRow
    <3>2. QED  BY <3>1, OtherStepsInv DEF QueueInv, TypeOK, OnlyKnownSeen
  <2>3. ASSUME NEW c \in Clients, ClientStep(c) PROVE QueueInv'
    BY <2>3, BeginAddInv, CommitInv, ReadInv DEF ClientStep
  <2>4. QED  BY <2>1, <2>2, <2>3 DEF Next
<1>3. QED  BY <1>1, <1>2, PTL DEF Spec

\* Rows, requests and what these have read stay what they are declared to be
\* (RefactorQueueItem, RefactorQueueService), the positions computed from any
\* board included: ranks are numbers, as a lane is always finite, and the last
\* position of a lane that is not empty exists.
THEOREM QueueTypes == Spec => []TypeOK
<1>1. QueueInv => TypeOK
  BY DEF QueueInv
<1>2. QED  BY <1>1, QueueInvariant, PTL

-----------------------------------------------------------------------------
(* Who changes the lane of a file.                                         *)

\* There is a row, or none, for each item and nothing else.
RowsOfItems == rows = [i \in Items |-> rows[i]]

\* What the transition of another lane is blamed on.
OwnMove(i) == \E c \in Clients : /\ client[c].at = "moving"
                                  /\ client[c].item = i
                                  /\ client[c].status = rows'[i].status

\* A write of rows whose status is as it was loaded leaves the status of each
\* row alone, but for the item that is written with another one: the unit of
\* work writes only the columns that differ.
LEMMA WriteKeepsStatus ==
    ASSUME RowsOfItems,
           NEW c, NEW lane, NEW new, NEW base, Write(c, lane, new, base),
           NEW i \in Items,
           base[i].status \in {rows[i].status, "absent"},
           i \in lane => new[i].status = client[c].view[i].status
    PROVE  rows'[i].status \in {rows[i].status, "absent"}
<1> DEFINE view == client[c].view
           dirty == {k \in lane : new[k] # view[k]}
           written == [k \in Items |-> IF k \in dirty THEN Merged(rows[k], view[k], new[k]) ELSE base[k]]
<1>1. rows' = IF \A k \in dirty : Present(k) THEN written ELSE rows
  BY DEF Write
<1>2. CASE rows' = rows
  BY <1>2
<1>3. CASE rows' = written
  <2>1. rows'[i] = IF i \in dirty THEN Merged(rows[i], view[i], new[i]) ELSE base[i]
    BY <1>3
  <2>2. CASE i \in dirty
    <3>1. new[i].status = view[i].status
      BY <2>2
    <3>2. QED  BY <2>1, <2>2, <3>1 DEF Merged
  <2>3. QED  BY <2>1, <2>2
<1>4. QED  BY <1>1, <1>2, <1>3

\* A file changes lane only by a move of that file to that lane (move and
\* delete of RefactorQueueRepository rewrite the rows of other files from a
\* snapshot): for any number of requests, files and positions.
THEOREM OnlyOwnMoves == Spec => MovesKeepOtherLanes
<1> DEFINE Step(i) == Present(i) /\ rows'[i].status \notin {rows[i].status, "absent"} => OwnMove(i)
<1>1. RowsOfItems /\ [Next]_vars => [OnlyOwnMove]_vars
  <2> SUFFICES ASSUME RowsOfItems, Next, NEW i \in Items PROVE Step(i)
    BY DEF OnlyOwnMove, OwnMove
  <2>1. CASE rows' = rows
    BY <2>1
  <2>2. CASE DeleteProject
    BY <2>2 DEF DeleteProject, NoRows, NoRow
  <2>3. ASSUME NEW c \in Clients, CommitAdd(c) PROVE Step(i)
    BY <2>3 DEF CommitAdd, Present, RowsOfItems
  <2>4. ASSUME NEW c \in Clients, CommitMove(c) PROVE Step(i)
    <3> DEFINE request == client[c]
               lane == {k \in Items : request.view[k].status # "absent"}
               new == Rearranged(request)
    <3>1. client[c].at = "moving" /\ Write(c, lane, new, rows)
      BY <2>4 DEF CommitMove
    <3>2. CASE i = request.item
      <4>1. new[i].status = request.status
        BY <3>2 DEF Rearranged
      <4>2. rows'[i].status \in {rows[i].status, new[i].status}
        BY <3>1 DEF Write, Merged, RowsOfItems
      <4>3. QED  BY <3>1, <3>2, <4>1, <4>2 DEF OwnMove
    <3>3. CASE i # request.item
      <4>1. i \in lane => new[i].status = request.view[i].status
        BY <3>3 DEF Rearranged
      <4>2. QED  BY <3>1, <4>1, WriteKeepsStatus
    <3>4. QED  BY <3>2, <3>3
  <2>5. ASSUME NEW c \in Clients, CommitRemoval(c) PROVE Step(i)
    <3> DEFINE view == client[c].view
               rest == Lane(view, client[c].status, NoItem)
               new  == [k \in Items |-> [status |-> view[k].status, position |-> Rank(view, rest, k)]]
               base == [rows EXCEPT ![client[c].item] = NoRow]
    <3>1. Write(c, rest, new, base)
      BY <2>5 DEF CommitRemoval
    <3>2. base[i].status \in {rows[i].status, "absent"}
      BY DEF RowsOfItems, NoRow
    <3>3. new[i].status = view[i].status
      OBVIOUS
    <3> HIDE DEF view, rest, new, base
    <3>4. rows'[i].status \in {rows[i].status, "absent"}
      <4>1. new[i].status = client[c].view[i].status
        BY <3>3 DEF view
      <4>2. QED  BY <3>1, <3>2, <4>1, WriteKeepsStatus
    <3>5. QED  BY <3>4
  <2>6. DeleteProject \/ \E c \in Clients : ClientStep(c)
    BY DEF Next
  <2>7. ASSUME NEW c \in Clients, ClientStep(c) PROVE Step(i)
    <3>1. rows' = rows \/ CommitAdd(c) \/ CommitMove(c) \/ CommitRemoval(c)
      BY <2>7 DEF ClientStep, BeginAdd, OpenItem, LoadBoard, OpenDoomed, FlushRemoval, RollBack
    <3>2. QED  BY <2>1, <2>3, <2>4, <2>5, <3>1
  <2>8. QED  BY <2>2, <2>6, <2>7
<1>2. QueueInv => RowsOfItems
  BY DEF QueueInv, TypeOK, RowsOfItems
<1>3. QED  BY <1>1, <1>2, QueueInvariant, PTL DEF Spec, MovesKeepOtherLanes

-----------------------------------------------------------------------------
\* A numbered lane.
Numbered(table, status) ==
    LET lane == Lane(table, status, NoItem) IN
    {table[i].position : i \in lane} = 0..(Cardinality(lane) - 1)

\* Whatever board a move was computed from, with gaps, with equal positions,
\* out of date: the board it computes has no gap in any lane.
LEMMA RearrangedIsNumbered ==
    ASSUME QueueInv, NEW c \in Clients, client[c].at = "moving", NEW status \in Status
    PROVE  Numbered(Rearranged(client[c]), status)
<1> DEFINE request == client[c]
           view == request.view
           new == Rearranged(request)
           others == [s \in Status |-> Lane(view, s, request.item)]
           room == Cardinality(others[request.status])
           index == IF request.position > room THEN room ELSE request.position
           lane == Lane(new, status, NoItem)
           rest == others[status]
           rank(i) == Rank(view, rest, i)
<1>1. /\ request.item \in Items /\ request.status \in Status /\ request.position \in Nat
      /\ view \in [Items -> Row] /\ request.item # NoItem
      /\ \A i \in Items : view[i].status # "absent" => i \in Known
  BY QueueAssumption DEF QueueInv, TypeOK, Client, OnlyKnownSeen, WellRead, Known
<1>2. /\ rest \subseteq Items /\ IsFiniteSet(rest) /\ Cardinality(rest) \in Nat
      /\ \A i \in rest : view[i].position \in Nat /\ born[i] \in Nat
      /\ \A i, j \in rest : born[i] = born[j] => i = j
  BY <1>1, LanesAreOrdered
<1>3. /\ \A i \in rest : rank(i) \in 0..(Cardinality(rest) - 1)
      /\ {rank(i) : i \in rest} = 0..(Cardinality(rest) - 1)
  <2> HIDE DEF rest
  <2>1. \A i \in rest : rank(i) \in 0..(Cardinality(rest) - 1)
    BY <1>2, RanksNumberTheLane
  <2>2. Ranks(view, rest) = 0..(Cardinality(rest) - 1)
    BY <1>2, RanksNumberTheLane
  <2>3. QED  BY <2>1, <2>2 DEF Ranks
<1>4. \A i \in rest : /\ i \in Items /\ i # request.item
                      /\ view[i].status = status /\ status # "absent"
  BY DEF Lane, Status
<1>5. \A i \in rest : new[i].status = status
                    /\ new[i].position = IF status = request.status /\ rank(i) >= index
                                         THEN rank(i) + 1 ELSE rank(i)
  BY <1>4 DEF Rearranged
<1>6. new[request.item] = [status |-> request.status, position |-> index]
  BY <1>1 DEF Rearranged
<1>7. \A i \in Items \ {request.item} : new[i].status = view[i].status
  BY <1>1 DEF Rearranged, NoRow
<1>8. lane = IF status = request.status THEN rest \cup {request.item} ELSE rest
  <2>1. NoItem \notin Items
    BY QueueAssumption
  <2> HIDE DEF new, view
  <2>2. QED  BY <1>1, <1>6, <1>7, <2>1 DEF Lane
<1> HIDE DEF new, lane, rest, index, view, rank
<1>9. CASE status # request.status
  <2>1. {new[i].position : i \in lane} = {rank(i) : i \in rest}
    BY <1>5, <1>8, <1>9
  <2>2. QED  BY <1>3, <1>8, <1>9, <2>1 DEF Numbered, lane, new
<1>10. CASE status = request.status
  <2>1. room = Cardinality(rest) /\ index \in 0..room /\ room \in Nat
    BY <1>1, <1>2, <1>10 DEF index, rest
  <2>2. Cardinality(lane) = room + 1
    <3>1. request.item \notin rest
      BY <1>4
    <3>2. Cardinality(rest \cup {request.item}) = Cardinality(rest) + 1
      BY <1>2, <3>1, FS_AddElement
    <3>3. QED  BY <1>8, <1>10, <2>1, <3>2
  <2> HIDE DEF room
  <2>3. ASSUME NEW i \in lane PROVE new[i].position \in 0..room
    BY <1>3, <1>5, <1>6, <1>8, <1>10, <2>1
  <2>4. ASSUME NEW k \in 0..room PROVE \E i \in lane : new[i].position = k
    <3>1. CASE k = index
      BY <1>6, <1>8, <1>10, <3>1
    <3>2. CASE k < index
      <4>1. k \in 0..(room - 1)
        BY <2>1, <3>2
      <4>2. PICK i \in rest : rank(i) = k
        BY <1>3, <2>1, <4>1
      <4>3. new[i].position = k
        BY <1>5, <2>1, <3>2, <4>2
      <4>4. QED  BY <1>8, <1>10, <4>2, <4>3
    <3>3. CASE k > index
      <4>1. k - 1 \in 0..(room - 1) /\ k - 1 >= index
        BY <2>1, <3>3
      <4>2. PICK i \in rest : rank(i) = k - 1
        BY <1>3, <2>1, <4>1
      <4>3. new[i].position = k
        BY <1>5, <1>10, <2>1, <4>1, <4>2
      <4>4. QED  BY <1>8, <1>10, <4>2, <4>3
    <3>4. QED  BY <2>1, <3>1, <3>2, <3>3
  <2>5. {new[i].position : i \in lane} = 0..room
    BY <2>3, <2>4
  <2>6. QED  BY <2>1, <2>2, <2>5 DEF Numbered, lane, new
<1>11. QED  BY <1>9, <1>10

\* A move of a board that is still as it was read stores what it computed.
LEMMA UndisturbedMoveStores ==
    ASSUME QueueInv, NEW c \in Clients, CommitMove(c), client[c].view = rows
    PROVE  \A i \in Items : \/ rows'[i] = Rearranged(client[c])[i]
                           \/ /\ rows'[i].status = "absent"
                              /\ Rearranged(client[c])[i].status = "absent"
<1> DEFINE new == Rearranged(client[c])
           dirty == {i \in {j \in Items : rows[j].status # "absent"} : new[i] # rows[i]}
<1>1. new \in [Items -> Row] /\ rows \in [Items -> Row]
  BY RearrangedType DEF CommitMove, QueueInv, TypeOK
<1>2. \A i \in dirty : Present(i)
  BY DEF Present
<1>3. rows' = [i \in Items |-> IF i \in dirty THEN Merged(rows[i], rows[i], new[i]) ELSE rows[i]]
  BY <1>2 DEF CommitMove, Write
<1>4. \A i \in Items : Merged(rows[i], rows[i], new[i]) = new[i]
  BY <1>1 DEF Merged, Row
<1>5. \A i \in Items : rows[i].status = "absent" => new[i].status = "absent"
  <2>1. client[c].item \in Items /\ rows[client[c].item].status # "absent"
    BY DEF CommitMove, QueueInv, OnlyKnownSeen, WellRead, Known
  <2>2. ASSUME NEW i \in Items, rows[i].status = "absent" PROVE new[i].status = "absent"
    BY <2>1, <2>2 DEF Rearranged, NoRow
  <2>3. QED  BY <2>2
<1>6. QED  BY <1>1, <1>3, <1>4, <1>5

\* A move of a board that is still as it was read numbers every lane.
LEMMA UndisturbedMoveNumbers ==
    ASSUME QueueInv, NEW c \in Clients, CommitMove(c), client[c].view = rows
    PROVE  Dense'
<1> SUFFICES ASSUME NEW status \in Status PROVE Numbered(rows', status)
  BY DEF Dense, Numbered, Lane
<1> DEFINE new == Rearranged(client[c])
<1>1. Numbered(new, status)
  BY RearrangedIsNumbered DEF CommitMove
<1>2. \A i \in Items : \/ rows'[i] = new[i]
                       \/ rows'[i].status = "absent" /\ new[i].status = "absent"
  BY UndisturbedMoveStores
<1> HIDE DEF new
<1>3. Lane(rows', status, NoItem) = Lane(new, status, NoItem)
  BY <1>2 DEF Lane, Status
<1>4. \A i \in Lane(new, status, NoItem) : rows'[i].position = new[i].position
  BY <1>2 DEF Lane, Status
<1>5. {rows'[i].position : i \in Lane(new, status, NoItem)} = {new[i].position : i \in Lane(new, status, NoItem)}
  BY <1>4
<1>6. QED  BY <1>1, <1>3, <1>5 DEF Numbered

\* Whatever interleaved requests left behind, the next move that is not
\* disturbed (move of RefactorQueueRepository: it renumbers every lane) leaves
\* the lanes numbered 0, 1, 2, ...: for any number of requests, items and
\* positions.
THEOREM MovesRestoreOrder == Spec => MoveRestoresOrder
<1>1. QueueInv /\ [Next]_vars =>
        [\A c \in Clients : CommitMove(c) /\ client[c].view = rows => Dense']_vars
  BY UndisturbedMoveNumbers
<1>2. QED  BY <1>1, QueueInvariant, PTL DEF Spec, MoveRestoresOrder

-----------------------------------------------------------------------------
\* A removal of an item numbers the rest of the lane, if that is as it was read.
LEMMA RemovalNumbers ==
    ASSUME QueueInv, NEW c \in Clients, CommitRemoval(c),
           Lane(rows, client[c].status, client[c].item) = Lane(client[c].view, client[c].status, NoItem),
           \A i \in Lane(rows, client[c].status, client[c].item) : client[c].view[i] = rows[i]
    PROVE  LET rest == Lane(rows, client[c].status, client[c].item) IN
           /\ \A i \in rest : /\ rows'[i].status = rows[i].status
                             /\ rows'[i].position = Rank(rows, rest, i)
           /\ \A i \in Items \ rest : rows'[i] = IF i = client[c].item THEN NoRow ELSE rows[i]
           /\ {rows'[i].position : i \in rest} = 0..(Cardinality(rest) - 1)
<1> DEFINE request == client[c]
           view == request.view
           rest == Lane(rows, request.status, request.item)
           new  == [i \in Items |-> [status |-> view[i].status, position |-> Rank(view, rest, i)]]
           base == [rows EXCEPT ![request.item] = NoRow]
           dirty == {i \in rest : new[i] # view[i]}
<1>1. /\ rest \subseteq Items /\ IsFiniteSet(rest)
      /\ \A i \in rest : rows[i].position \in Nat /\ born[i] \in Nat
      /\ \A i, j \in rest : born[i] = born[j] => i = j
  BY LanesAreOrdered DEF QueueInv, TypeOK, OnlyKnownSeen, Present, Client
<1>2. rows \in [Items -> Row] /\ request.status \in Status
  BY DEF QueueInv, TypeOK, Client
<1>3. \A i \in rest : Present(i) /\ i # request.item /\ rows[i] = view[i]
  BY <1>2 DEF Lane, Present, Status
<1>4. Write(c, rest, new, base)
  BY DEF CommitRemoval
<1>5. rows' = [i \in Items |-> IF i \in dirty THEN Merged(rows[i], view[i], new[i]) ELSE base[i]]
  <2>1. \A i \in dirty : Present(i)
    BY <1>3
  <2> HIDE DEF new, base, rest
  <2>2. QED  BY <1>4, <2>1 DEF Write
<1>6. ASSUME NEW i \in rest PROVE Rank(view, rest, i) = Rank(rows, rest, i)
  <2>1. \A j \in rest : Before(view, j, i) <=> Before(rows, j, i)
    BY <1>3 DEF Before
  <2>2. QED  BY <2>1 DEF Rank
<1>7. ASSUME NEW i \in rest
      PROVE  rows'[i].status = rows[i].status /\ rows'[i].position = Rank(rows, rest, i)
  <2>1. new[i] = [status |-> rows[i].status, position |-> Rank(rows, rest, i)]
    BY <1>1, <1>3, <1>6
  <2>2. base[i] = rows[i] /\ rows[i] = view[i] /\ rows[i] \in Row
    BY <1>1, <1>2, <1>3
  <2>3. rows'[i] = IF new[i] # view[i] THEN Merged(rows[i], view[i], new[i]) ELSE base[i]
    BY <1>1, <1>5
  <2> HIDE DEF new, base, view, rest
  <2>4. QED  BY <2>1, <2>2, <2>3 DEF Merged, Row
<1>8. {Rank(rows, rest, i) : i \in rest} = 0..(Cardinality(rest) - 1)
  <2> HIDE DEF rest
  <2>1. QED  BY <1>1, RanksNumberTheLane DEF Ranks
<1>9. {rows'[i].position : i \in rest} = {Rank(rows, rest, i) : i \in rest}
  <2> HIDE DEF rest
  <2>1. QED  BY <1>7
<1>10. \A i \in Items \ rest : rows'[i] = base[i]
  BY <1>5
<1>11. QED  BY <1>2, <1>7, <1>8, <1>9, <1>10

\* A removal, while its lane does not change (delete of
\* RefactorQueueRepository), closes the gap it makes and any other of the lane:
\* for any number of requests, items and positions.
THEOREM RemovalsCloseGaps == Spec => RemovalClosesGap
<1> DEFINE Closed(c) ==
         LET rest == Lane(rows, client[c].status, client[c].item)
             read == Lane(client[c].view, client[c].status, NoItem) IN
         CommitRemoval(c) /\ rest = read /\ (\A i \in rest : client[c].view[i] = rows[i])
         => {rows'[i].position : i \in rest} = 0..(Cardinality(rest) - 1)
<1>1. QueueInv /\ [Next]_vars => [\A c \in Clients : Closed(c)]_vars
  BY RemovalNumbers
<1>2. QED  BY <1>1, QueueInvariant, PTL DEF Spec, RemovalClosesGap

-----------------------------------------------------------------------------
(* One request at a time.                                                  *)

\* What a request has read, or computed, is still so when it uses it, unless
\* the project was deleted in between.
UpToDate(c) ==
    LET request == client[c] IN
    /\ request.at = "adding" /\ project =>
           request.position = Cardinality(Lane(rows, "pending", NoItem))
    /\ request.at = "opened" => rows = NoRows \/ request.view[request.item] = rows[request.item]
    /\ request.at = "moving" => rows = NoRows \/ request.view = rows
    /\ request.at \in {"doomed", "removing"} =>
           rows = NoRows \/ rows[request.item].status = request.status
    /\ request.at = "removing" =>
           \A i \in Items : request.view[i] = IF i \in Lane(rows, request.status, request.item)
                                             THEN rows[i] ELSE NoRow

OneAtATime == \A c, d \in Clients : c = d

SequentialInv == Dense /\ \A c \in Clients : UpToDate(c)

\* In a numbered lane the next position is the number of its rows.
LEMMA NextPositionCounts ==
    ASSUME QueueInv, Dense
    PROVE  NextPosition = Cardinality(Lane(rows, "pending", NoItem))
<1> DEFINE lane == Lane(rows, "pending", NoItem)
           taken == {rows[i].position : i \in lane}
           n == Cardinality(lane)
<1>1. n \in Nat
  BY LanesAreOrdered DEF QueueInv, TypeOK, OnlyKnownSeen, Present, Status
<1>2. taken = 0..(n - 1)
  BY DEF Dense, Status
<1> HIDE DEF n
<1>3. CASE n = 0
  <2>1. taken = {}
    BY <1>2, <1>3
  <2>2. QED  BY <1>3, <2>1 DEF NextPosition, n
<1>4. CASE n # 0
  <2>1. taken # {} /\ n - 1 \in taken /\ \A q \in taken : q <= n - 1
    BY <1>1, <1>2, <1>4
  <2> HIDE DEF taken
  <2>2. \A p \in taken : (\A q \in taken : q <= p) => p = n - 1
    BY <1>1, <1>2, <2>1
  <2> DEFINE last == CHOOSE p \in taken : \A q \in taken : q <= p
  <2>3. NextPosition = last + 1
    BY <2>1 DEF NextPosition, taken
  <2>4. last = n - 1
    BY <2>1, <2>2
  <2> HIDE DEF last
  <2>5. NextPosition = n
    BY <1>1, <2>3, <2>4
  <2>6. QED  BY <2>5 DEF n
<1>5. QED  BY <1>3, <1>4

\* No rows, no gaps.
LEMMA NoRowsNumbered == \A status \in Status : Numbered(NoRows, status)
<1>1. \A status \in Status : Lane(NoRows, status, NoItem) = {}
  BY DEF Lane, NoRows, NoRow, Status
<1>2. QED  BY <1>1, FS_EmptySet DEF Numbered

\* Each of the three commits keeps the lanes numbered, if what its request
\* knows is up to date: the new row is the last of its lane, ...
LEMMA AddKeepsNumbers ==
    ASSUME QueueInv, Dense, NEW c \in Clients, UpToDate(c), CommitAdd(c)
    PROVE  Dense'
<1> DEFINE i == client[c].item
           lane == Lane(rows, "pending", NoItem)
           n == Cardinality(lane)
<1>1. CASE rows' = rows
  BY <1>1 DEF Dense, Lane
<1>2. CASE rows' # rows
  <2>1. /\ ~Present(i) /\ i \in Items /\ i # NoItem /\ rows \in [Items -> Row]
        /\ rows' = [rows EXCEPT ![i] = [status |-> "pending", position |-> n]]
    BY <1>2, QueueAssumption DEF CommitAdd, UpToDate, QueueInv, TypeOK, OnlyKnownSeen, WellRead, Known
  <2>2. IsFiniteSet(lane) /\ n \in Nat /\ i \notin lane
    BY <2>1, LanesAreOrdered DEF QueueInv, TypeOK, OnlyKnownSeen, Present, Status, Lane
  <2>3. Lane(rows', "pending", NoItem) = lane \cup {i}
    BY <2>1 DEF Lane, Present
  <2>4. Cardinality(lane \cup {i}) = n + 1
    BY <2>2, FS_AddElement
  <2>5. {rows[k].position : k \in lane} = 0..(n - 1)
    BY DEF Dense, Status
  <2>6. rows'[i].position = n /\ \A k \in lane : rows'[k] = rows[k]
    BY <2>1, <2>2 DEF Lane
  <2>7. {rows'[k].position : k \in lane \cup {i}} = 0..n
    <3> HIDE DEF lane, i, n
    <3>1. \A m \in 0..n : m = n \/ m \in 0..(n - 1)
      BY <2>2
    <3>2. n \in 0..n /\ \A m \in 0..(n - 1) : m \in 0..n
      BY <2>2
    <3>3. QED  BY <2>5, <2>6, <3>1, <3>2
  <2>8. Numbered(rows', "pending")
    <3>1. n = (n + 1) - 1
      BY <2>2
    <3>2. QED  BY <2>3, <2>4, <2>7, <3>1 DEF Numbered
  <2>9. ASSUME NEW status \in Status, status # "pending" PROVE Numbered(rows', status)
    <3>1. Lane(rows', status, NoItem) = Lane(rows, status, NoItem)
      BY <2>1, <2>9 DEF Lane, Present, Status
    <3>2. \A k \in Lane(rows, status, NoItem) : rows'[k] = rows[k]
      BY <2>1 DEF Lane, Present, Status
    <3>3. {rows'[k].position : k \in Lane(rows, status, NoItem)} = {rows[k].position : k \in Lane(rows, status, NoItem)}
      BY <3>2
    <3>4. QED  BY <3>1, <3>3 DEF Numbered, Dense
  <2>10. QED  BY <2>8, <2>9 DEF Dense, Numbered, Lane
<1>3. QED  BY <1>1, <1>2

\* ... a move numbers all lanes, or fails as the rows are gone, ...
LEMMA MoveKeepsNumbers ==
    ASSUME QueueInv, Dense, NEW c \in Clients, UpToDate(c), CommitMove(c)
    PROVE  Dense'
<1>1. CASE client[c].view = rows
  BY <1>1, UndisturbedMoveNumbers
<1>2. CASE rows = NoRows
  <2> DEFINE lane == {i \in Items : client[c].view[i].status # "absent"}
             dirty == {i \in lane : Rearranged(client[c])[i] # client[c].view[i]}
  <2>1. \A i \in Items : ~Present(i)
    BY <1>2 DEF Present, NoRows, NoRow
  <2>2. rows' = rows
    <3>1. CASE dirty = {}
      BY <1>2, <3>1 DEF CommitMove, Write, NoRows
    <3>2. CASE dirty # {}
      BY <2>1, <3>2 DEF CommitMove, Write
    <3>3. QED  BY <3>1, <3>2
  <2>3. QED  BY <2>2 DEF Dense, Lane
<1>3. QED  BY <1>1, <1>2 DEF UpToDate, CommitMove

\* ... and a removal numbers its lane, and leaves the others alone.
LEMMA RemovalKeepsNumbers ==
    ASSUME QueueInv, Dense, NEW c \in Clients, UpToDate(c), CommitRemoval(c)
    PROVE  Dense'
<1> DEFINE request == client[c]
           rest == Lane(rows, request.status, request.item)
<1>1. /\ request.status \in Status /\ request.item \in Items /\ NoItem \notin Items
      /\ rows = NoRows \/ rows[request.item].status = request.status
      /\ \A i \in Items : request.view[i] = IF i \in rest THEN rows[i] ELSE NoRow
  BY QueueAssumption DEF QueueInv, TypeOK, Client, OnlyKnownSeen, WellRead, Known, UpToDate, CommitRemoval
<1>2. rest = Lane(request.view, request.status, NoItem)
  BY <1>1 DEF Lane, NoRow, Status
<1>3. \A i \in rest : request.view[i] = rows[i]
  BY <1>1 DEF Lane
<1>4. /\ \A i \in rest : rows'[i].status = rows[i].status
      /\ \A i \in Items \ rest : rows'[i] = IF i = request.item THEN NoRow ELSE rows[i]
      /\ {rows'[i].position : i \in rest} = 0..(Cardinality(rest) - 1)
  BY <1>2, <1>3, RemovalNumbers
<1>5. Numbered(rows', request.status)
  <2>1. Lane(rows', request.status, NoItem) = rest
    BY <1>1, <1>4 DEF Lane, NoRow, NoRows, Status
  <2>2. QED  BY <1>4, <2>1 DEF Numbered
<1>6. ASSUME NEW status \in Status, status # request.status PROVE Numbered(rows', status)
  <2> DEFINE lane == Lane(rows, status, NoItem)
  <2>1. \A i \in lane : i \notin rest /\ i # request.item /\ i \in Items
    BY <1>1, <1>6 DEF Lane, NoRows, NoRow, Status
  <2>2. Lane(rows', status, NoItem) = lane
    BY <1>1, <1>4, <1>6, <2>1 DEF Lane, NoRow, Status
  <2>3. \A i \in lane : rows'[i] = rows[i]
    BY <1>4, <2>1
  <2>4. {rows'[i].position : i \in lane} = {rows[i].position : i \in lane}
    BY <2>3
  <2>5. QED  BY <2>2, <2>4 DEF Numbered, Dense
<1>7. QED  BY <1>5, <1>6 DEF Dense, Numbered, Lane

\* A step of the only request leaves it up to date.
LEMMA OnlyRequestUpToDate ==
    ASSUME QueueInv, SequentialInv, NEW c \in Clients, ClientStep(c)
    PROVE  UpToDate(c)'
<1>1. client \in [Clients -> Client] /\ rows \in [Items -> Row]
  BY DEF QueueInv, TypeOK
<1>2. CASE client' = [client EXCEPT ![c] = Idle]
  BY <1>1, <1>2 DEF UpToDate, Idle
<1>3. ASSUME NEW i \in Items, BeginAdd(c, i) PROVE UpToDate(c)'
  <2>1. /\ client'[c].at = "adding" /\ client'[c].position = NextPosition
        /\ rows' = rows
    BY <1>1, <1>3 DEF BeginAdd, Idle
  <2>2. NextPosition = Cardinality(Lane(rows, "pending", NoItem))
    BY NextPositionCounts DEF SequentialInv
  <2>3. QED  BY <2>1, <2>2 DEF UpToDate, Lane
<1>4. ASSUME NEW i \in Items, OpenDoomed(c, i) PROVE UpToDate(c)'
  <2>1. /\ client'[c].at = "doomed" /\ client'[c].item = i /\ client'[c].status = rows[i].status
        /\ rows' = rows
    BY <1>1, <1>4 DEF OpenDoomed, Idle
  <2>2. QED  BY <2>1 DEF UpToDate
<1>5. ASSUME NEW i \in Items, NEW status \in Targets, NEW position \in 0..MaxPosition,
             OpenItem(c, i, status, position)
      PROVE  UpToDate(c)'
  <2>1. /\ client'[c].at = "opened" /\ client'[c].item = i
        /\ client'[c].view = [NoRows EXCEPT ![i] = rows[i]] /\ rows' = rows
    BY <1>1, <1>5 DEF OpenItem
  <2>2. client'[c].view[i] = rows[i]
    BY <2>1 DEF NoRows
  <2>3. QED  BY <2>1, <2>2 DEF UpToDate
<1>6. CASE LoadBoard(c)
  <2> DEFINE i == client[c].item
  <2>1. /\ client'[c].at = "moving" /\ client[c].at = "opened" /\ rows' = rows
        /\ client'[c].view = [rows EXCEPT ![i] = client[c].view[i]]
    BY <1>1, <1>6 DEF LoadBoard, Client
  <2>2. rows = NoRows \/ client[c].view[i] = rows[i]
    BY <2>1 DEF SequentialInv, UpToDate
  <2>3. rows = NoRows \/ client'[c].view = rows
    BY <1>1, <2>1, <2>2
  <2>4. QED  BY <2>1, <2>3 DEF UpToDate
<1>7. CASE FlushRemoval(c)
  <2> DEFINE rest == Lane(rows, client[c].status, client[c].item)
  <2>1. /\ client'[c].at = "removing" /\ client[c].at = "doomed" /\ rows' = rows
        /\ client'[c].status = client[c].status /\ client'[c].item = client[c].item
        /\ client'[c].view = [j \in Items |-> IF j \in rest THEN rows[j] ELSE NoRow]
    BY <1>1, <1>7 DEF FlushRemoval, Client
  <2>2. rows = NoRows \/ rows[client[c].item].status = client[c].status
    BY <2>1 DEF SequentialInv, UpToDate
  <2>3. Lane(rows', client'[c].status, client'[c].item) = rest
    BY <2>1
  <2>4. \A j \in Items : client'[c].view[j] = IF j \in rest THEN rows[j] ELSE NoRow
    BY <2>1
  <2> HIDE DEF rest
  <2>5. QED  BY <2>1, <2>2, <2>3, <2>4 DEF UpToDate
<1>8. QED
  BY <1>2, <1>3, <1>4, <1>5, <1>6, <1>7
  DEF ClientStep, CommitAdd, CommitMove, CommitRemoval, RollBack, Leave

\* The board stays numbered, and what is known of it up to date.
LEMMA SequentialInvariant ==
    ASSUME OneAtATime PROVE Spec => []SequentialInv
<1>1. Init => SequentialInv
  <2> SUFFICES ASSUME Init PROVE SequentialInv
    OBVIOUS
  <2>1. Dense
    BY NoRowsNumbered DEF Init, Dense, Numbered
  <2>2. \A c \in Clients : UpToDate(c)
    BY DEF Init, UpToDate, Idle
  <2>3. QED  BY <2>1, <2>2 DEF SequentialInv
<1>2. QueueInv /\ SequentialInv /\ [Next]_vars => SequentialInv'
  <2> SUFFICES ASSUME QueueInv, SequentialInv, [Next]_vars PROVE SequentialInv'
    OBVIOUS
  <2>1. CASE UNCHANGED vars
    BY <2>1 DEF vars, SequentialInv, Dense, Lane, UpToDate
  <2>2. CASE DeleteProject
    <3>1. rows' = NoRows /\ project' = FALSE /\ client' = client /\ \A c \in Clients : client[c].at # "removing"
      BY <2>2 DEF DeleteProject
    <3>2. Dense'
      BY <3>1, NoRowsNumbered DEF Dense, Numbered
    <3>3. \A c \in Clients : UpToDate(c)'
      BY <3>1 DEF UpToDate
    <3>4. QED  BY <3>2, <3>3 DEF SequentialInv
  <2>3. ASSUME NEW c \in Clients, ClientStep(c) PROVE SequentialInv'
    <3>1. UpToDate(c) /\ Dense
      BY DEF SequentialInv
    <3>2. ASSUME rows' = rows PROVE Dense'
      BY <3>1, <3>2 DEF Dense, Lane
    <3>3. rows' = rows \/ CommitAdd(c) \/ CommitMove(c) \/ CommitRemoval(c)
      BY <2>3 DEF ClientStep, BeginAdd, OpenItem, LoadBoard, OpenDoomed, FlushRemoval, RollBack
    <3>4. Dense'
      BY <3>1, <3>2, <3>3, AddKeepsNumbers, MoveKeepsNumbers, RemovalKeepsNumbers
    <3>5. UpToDate(c)'
      BY <2>3, OnlyRequestUpToDate
    <3>6. \A d \in Clients : UpToDate(d)'
      BY <3>5 DEF OneAtATime
    <3>7. QED  BY <3>4, <3>6 DEF SequentialInv
  <2>4. QED  BY <2>1, <2>2, <2>3 DEF Next
<1>3. QED  BY <1>1, <1>2, QueueInvariant, PTL DEF Spec

\* As long as requests are served one at a time, though they may fail at any
\* step and the project may be deleted under them, every lane of the refactor
\* queue stays numbered 0, 1, 2, ...: for any number of items and positions.
THEOREM QueueStaysNumbered ==
    ASSUME OneAtATime PROVE Spec => []Dense
<1>1. SequentialInv => Dense
  BY DEF SequentialInv
<1>2. QED  BY <1>1, SequentialInvariant, PTL

-----------------------------------------------------------------------------
(* The board.                                                              *)

\* The items of a set in a sequence, each in the place its number says.
Placed(seq, S, number) ==
    /\ seq \in Seq(S)
    /\ \A n \in 1..Len(seq) : number[seq[n]] = n - 1
    /\ \A i \in S : number[i] \in Nat /\ number[i] + 1 \in 1..Len(seq) /\ seq[number[i] + 1] = i

\* There is one such sequence.
LEMMA PlacedOnce ==
    ASSUME NEW S, NEW number, NEW seq, NEW other,
           Placed(seq, S, number), Placed(other, S, number)
    PROVE  seq = other
<1>1. /\ Len(seq) \in Nat /\ Len(other) \in Nat
      /\ \A n \in 1..Len(seq) : seq[n] \in S
      /\ \A n \in 1..Len(other) : other[n] \in S
  BY DEF Placed
<1>2. Len(seq) <= Len(other)
  <2>1. CASE Len(seq) = 0
    BY <1>1, <2>1
  <2>2. CASE Len(seq) # 0
    <3>1. Len(seq) \in 1..Len(seq)
      BY <1>1, <2>2
    <3>2. number[seq[Len(seq)]] = Len(seq) - 1 /\ seq[Len(seq)] \in S
      BY <1>1, <3>1 DEF Placed
    <3>3. Len(seq) - 1 + 1 \in 1..Len(other)
      BY <3>2 DEF Placed
    <3>4. QED  BY <1>1, <3>3
  <2>3. QED  BY <2>1, <2>2
<1>3. Len(other) <= Len(seq)
  <2>1. CASE Len(other) = 0
    BY <1>1, <2>1
  <2>2. CASE Len(other) # 0
    <3>1. Len(other) \in 1..Len(other)
      BY <1>1, <2>2
    <3>2. number[other[Len(other)]] = Len(other) - 1 /\ other[Len(other)] \in S
      BY <1>1, <3>1 DEF Placed
    <3>3. Len(other) - 1 + 1 \in 1..Len(seq)
      BY <3>2 DEF Placed
    <3>4. QED  BY <1>1, <3>3
  <2>3. QED  BY <2>1, <2>2
<1>4. ASSUME NEW n \in 1..Len(seq) PROVE seq[n] = other[n]
  <2>1. seq[n] \in S /\ number[seq[n]] = n - 1 /\ n - 1 + 1 = n
    BY <1>1, <1>4 DEF Placed
  <2>2. QED  BY <2>1 DEF Placed
<1>5. QED  BY <1>1, <1>2, <1>3, <1>4, SeqEqual DEF Placed

\* Only the numbers of the items matter.
LEMMA PlacedSame ==
    ASSUME NEW S, NEW number, NEW same, NEW seq, Placed(seq, S, number),
           \A i \in S : same[i] = number[i]
    PROVE  Placed(seq, S, same)
<1>1. \A n \in 1..Len(seq) : seq[n] \in S
  BY DEF Placed
<1>2. QED  BY <1>1 DEF Placed

\* What Without of the board makes of a lane.
LEMMA WithoutPlaces ==
    ASSUME NEW S, NEW number, NEW seq, NEW i, NEW new, Placed(seq, S, number),
           \A j \in S \ {i} : new[j] = IF i \in S /\ number[j] > number[i]
                                      THEN number[j] - 1 ELSE number[j]
    PROVE  Placed(Board!Without(seq, i), S \ {i}, new)
<1>1. /\ Len(seq) \in Nat /\ DOMAIN seq = 1..Len(seq) /\ seq \in Seq(S)
      /\ \A n \in 1..Len(seq) : seq[n] \in S
      /\ \A j \in S : number[j] \in Nat /\ number[j] + 1 \in 1..Len(seq) /\ seq[number[j] + 1] = j
  BY DEF Placed
<1>2. i \in Board!Range(seq) <=> i \in S
  BY <1>1 DEF Board!Range
<1>3. CASE i \notin S
  <2>1. Board!Without(seq, i) = seq /\ S \ {i} = S
    BY <1>2, <1>3 DEF Board!Without
  <2>2. \A j \in S : new[j] = number[j]
    BY <1>3
  <2>3. QED  BY <2>1, <2>2, PlacedSame
<1>4. CASE i \in S
  <2> DEFINE k == number[i] + 1
             front == SubSeq(seq, 1, k - 1)
             back == SubSeq(seq, k + 1, Len(seq))
             rest == front \o back
  <2>1. k \in 1..Len(seq) /\ seq[k] = i /\ number[i] \in Nat
    BY <1>1, <1>4
  <2>2. \A n \in 1..Len(seq) : number[seq[n]] = n - 1
    BY DEF Placed
  <2>3. (CHOOSE n \in DOMAIN seq : seq[n] = i) = k
    <3>1. \A n \in DOMAIN seq : seq[n] = i <=> n = k
      BY <1>1, <2>1, <2>2
    <3>2. k \in DOMAIN seq
      BY <1>1, <2>1
    <3> HIDE DEF k
    <3>3. QED  BY <3>1, <3>2
  <2>4. Board!Without(seq, i) = rest
    <3>1. Board!Without(seq, i) = Board!RemoveAt(seq, k)
      BY <1>2, <1>4, <2>3 DEF Board!Without
    <3>2. QED  BY <3>1 DEF Board!RemoveAt
  <2> DEFINE others == S \ {i}
  <2>5. \A n \in 1..Len(seq) : n # k => seq[n] \in others
    BY <1>1, <2>1, <2>2
  <2> HIDE DEF k
  <2>6. /\ front \in Seq(others) /\ Len(front) = k - 1
        /\ \A n \in 1..k - 1 : front[n] = seq[n]
    <3>1. \A n \in 1..k - 1 : seq[n] \in others
      BY <1>1, <2>1, <2>5
    <3>2. 1 \in Int /\ k - 1 \in Int
      BY <2>1
    <3>3. /\ front \in Seq(others) /\ Len(front) = IF 1 <= k - 1 THEN k - 1 - 1 + 1 ELSE 0
          /\ \A n \in 1..k - 1 - 1 + 1 : front[n] = seq[1 + n - 1]
      <4> HIDE DEF others
      <4>1. QED  BY <3>1, <3>2, SubSeqProperties
    <3> HIDE DEF front, others
    <3>4. QED  BY <2>1, <3>3
  <2>7. /\ back \in Seq(others) /\ Len(back) = Len(seq) - k
        /\ \A n \in 1..Len(seq) - k : back[n] = seq[k + n]
    <3>1. \A n \in k + 1..Len(seq) : seq[n] \in others
      BY <1>1, <2>1, <2>5
    <3>2. k + 1 \in Int /\ Len(seq) \in Int
      BY <1>1, <2>1
    <3>3. /\ back \in Seq(others) /\ Len(back) = IF k + 1 <= Len(seq) THEN Len(seq) - (k + 1) + 1 ELSE 0
          /\ \A n \in 1..Len(seq) - (k + 1) + 1 : back[n] = seq[k + 1 + n - 1]
      <4> HIDE DEF others
      <4>1. QED  BY <3>1, <3>2, SubSeqProperties
    <3> HIDE DEF back, others
    <3>4. Len(back) = Len(seq) - k
      <4>1. k \in Int /\ Len(seq) \in Int /\ k <= Len(seq)
        BY <1>1, <2>1
      <4>2. Len(back) = IF k + 1 <= Len(seq) THEN Len(seq) - (k + 1) + 1 ELSE 0
        BY <3>3
      <4>3. QED  BY <4>1, <4>2
    <3>5. ASSUME NEW n \in 1..Len(seq) - k PROVE back[n] = seq[k + n]
      <4>1. n \in 1..Len(seq) - (k + 1) + 1 /\ k + 1 + n - 1 = k + n
        BY <1>1, <2>1, <3>5
      <4>2. QED  BY <3>3, <4>1
    <3>6. QED  BY <3>3, <3>4, <3>5
  <2> HIDE DEF front, back
  <2>8. /\ rest \in Seq(others) /\ Len(rest) = Len(seq) - 1
        /\ \A n \in 1..Len(seq) - 1 : rest[n] = IF n <= k - 1 THEN front[n] ELSE back[n - (k - 1)]
    <3>1. /\ rest \in Seq(others) /\ Len(rest) = Len(front) + Len(back)
          /\ \A n \in 1..Len(front) + Len(back) : rest[n] = IF n <= Len(front) THEN front[n] ELSE back[n - Len(front)]
      <4> HIDE DEF others
      <4>1. QED  BY <2>6, <2>7, ConcatProperties
    <3>2. Len(front) + Len(back) = Len(seq) - 1
      BY <1>1, <2>1, <2>6, <2>7
    <3> HIDE DEF rest, others
    <3>3. QED  BY <2>6, <3>1, <3>2
  <2> HIDE DEF rest
  <2>9. \A n \in 1..Len(seq) - 1 : rest[n] = IF n < k THEN seq[n] ELSE seq[n + 1]
    <3> TAKE n \in 1..Len(seq) - 1
    <3>1. CASE n < k
      BY <1>1, <2>1, <2>6, <2>8, <3>1
    <3>2. CASE n >= k
      <4>1. n - (k - 1) \in 1..Len(seq) - k /\ k + (n - (k - 1)) = n + 1 /\ ~(n <= k - 1)
        BY <1>1, <2>1, <3>2
      <4>2. rest[n] = back[n - (k - 1)]
        BY <2>8, <4>1
      <4>3. back[n - (k - 1)] = seq[n + 1]
        BY <2>7, <4>1
      <4>4. ~(n < k)
        BY <2>1, <3>2
      <4>5. QED  BY <4>2, <4>3, <4>4
    <3>3. QED  BY <1>1, <2>1, <3>1, <3>2
  <2>10. ASSUME NEW n \in 1..Len(rest) PROVE new[rest[n]] = n - 1
    <3>0. n \in 1..Len(seq) - 1 /\ rest[n] \in S \ {i}
      BY <2>8
    <3>1. CASE n < k
      <4>1. rest[n] = seq[n] /\ n \in 1..Len(seq)
        BY <1>1, <2>9, <3>0, <3>1
      <4>2. number[rest[n]] = n - 1 /\ ~(number[rest[n]] > number[i]) /\ rest[n] \in S
        BY <1>1, <2>1, <2>2, <3>1, <4>1 DEF k
      <4>3. QED  BY <3>0, <4>2
    <3>2. CASE n >= k
      <4>1. rest[n] = seq[n + 1] /\ n + 1 \in 1..Len(seq)
        BY <1>1, <2>1, <2>9, <3>0, <3>2
      <4>2. number[rest[n]] = n /\ number[rest[n]] > number[i] /\ rest[n] \in S
        BY <1>1, <2>1, <2>2, <3>2, <4>1 DEF k
      <4>3. QED  BY <1>4, <3>0, <4>2
    <3>3. QED  BY <1>1, <2>1, <3>0, <3>1, <3>2
  <2>11. ASSUME NEW j \in others
         PROVE  new[j] \in Nat /\ new[j] + 1 \in 1..Len(rest) /\ rest[new[j] + 1] = j
    <3>1. number[j] \in Nat /\ number[j] + 1 \in 1..Len(seq) /\ seq[number[j] + 1] = j /\ number[j] # number[i]
      BY <1>1, <1>4, <2>1, <2>11 DEF k
    <3>2. CASE number[j] > number[i]
      <4>1. new[j] = number[j] - 1
        BY <1>4, <2>11, <3>2
      <4>2. number[j] \in Nat /\ number[j] \in 1..Len(seq) - 1 /\ ~(number[j] < k)
        BY <1>1, <2>1, <3>1, <3>2 DEF k
      <4>3. rest[number[j]] = j
        BY <2>9, <3>1, <4>2
      <4>4. QED  BY <1>1, <2>8, <4>1, <4>2, <4>3
    <3>3. CASE number[j] < number[i]
      <4>1. new[j] = number[j]
        BY <1>1, <2>1, <2>11, <3>1, <3>3
      <4>2. number[j] + 1 \in 1..Len(seq) - 1 /\ number[j] + 1 < k
        BY <1>1, <2>1, <3>1, <3>3 DEF k
      <4>3. rest[number[j] + 1] = j
        BY <2>9, <3>1, <4>2
      <4>4. QED  BY <1>1, <2>8, <3>1, <4>1, <4>2, <4>3
    <3>4. QED  BY <2>1, <3>1, <3>2, <3>3
  <2>12. QED  BY <2>4, <2>8, <2>10, <2>11 DEF Placed
<1>5. QED  BY <1>3, <1>4

\* InsertAt puts three parts together.
LEMMA InsertedParts ==
    ASSUME NEW seq, NEW k, NEW i
    PROVE  Board!InsertAt(seq, k, i) = SubSeq(seq, 1, k - 1) \o <<i>> \o SubSeq(seq, k, Len(seq))
BY DEF Board!InsertAt

\* What InsertAt makes of a lane that does not have the item.
LEMMA InsertPlaces ==
    ASSUME NEW S, NEW number, NEW seq, NEW i, NEW new, i \notin S, Placed(seq, S, number),
           NEW index \in 0..Len(seq), new[i] = index,
           \A j \in S : new[j] = IF number[j] >= index THEN number[j] + 1 ELSE number[j]
    PROVE  Placed(Board!InsertAt(seq, index + 1, i), S \cup {i}, new)
<1> DEFINE T == S \cup {i}
           front == SubSeq(seq, 1, index)
           back == SubSeq(seq, index + 1, Len(seq))
           more == front \o <<i>>
           all == more \o back
<1>1. /\ Len(seq) \in Nat
      /\ \A n \in 1..Len(seq) : seq[n] \in S /\ number[seq[n]] = n - 1
      /\ \A j \in S : number[j] \in Nat /\ number[j] + 1 \in 1..Len(seq) /\ seq[number[j] + 1] = j
  BY DEF Placed
<1>2. Board!InsertAt(seq, index + 1, i) = all
  <2>1. index + 1 - 1 = index
    BY <1>1
  <2> DEFINE n == index + 1
  <2>2. Board!InsertAt(seq, n, i) = SubSeq(seq, 1, n - 1) \o <<i>> \o SubSeq(seq, n, Len(seq))
    <3> HIDE DEF n
    <3>1. QED  BY InsertedParts, Zenon
  <2>3. SubSeq(seq, 1, n - 1) = front
    BY <2>1
  <2>4. QED  BY <2>2, <2>3
<1>3. \A n \in 1..Len(seq) : seq[n] \in T
  BY <1>1
<1>4. /\ front \in Seq(T) /\ Len(front) = index
      /\ \A n \in 1..index : front[n] = seq[n]
  <2>1. 1 \in Int /\ index \in Int /\ \A n \in 1..index : seq[n] \in T
    BY <1>1, <1>3
  <2>2. /\ front \in Seq(T) /\ Len(front) = IF 1 <= index THEN index - 1 + 1 ELSE 0
        /\ \A n \in 1..index - 1 + 1 : front[n] = seq[1 + n - 1]
    <3> HIDE DEF T
    <3>1. QED  BY <2>1, SubSeqProperties
  <2> HIDE DEF front, T
  <2>3. QED  BY <1>1, <2>2
<1>5. /\ back \in Seq(T) /\ Len(back) = Len(seq) - index
      /\ \A n \in 1..Len(seq) - index : back[n] = seq[index + n]
  <2>1. index + 1 \in Int /\ Len(seq) \in Int /\ \A n \in index + 1..Len(seq) : seq[n] \in T
    BY <1>1, <1>3
  <2>2. /\ back \in Seq(T) /\ Len(back) = IF index + 1 <= Len(seq) THEN Len(seq) - (index + 1) + 1 ELSE 0
        /\ \A n \in 1..Len(seq) - (index + 1) + 1 : back[n] = seq[index + 1 + n - 1]
    <3> HIDE DEF T
    <3>1. QED  BY <2>1, SubSeqProperties
  <2> HIDE DEF back, T
  <2>3. QED  BY <1>1, <2>2
<1> HIDE DEF front, back
<1>6. /\ more \in Seq(T) /\ Len(more) = index + 1
      /\ \A n \in 1..index + 1 : more[n] = IF n <= index THEN seq[n] ELSE i
  <2>1. <<i>> \in Seq(T) /\ Len(<<i>>) = 1 /\ <<i>>[1] = i
    OBVIOUS
  <2>2. /\ more \in Seq(T) /\ Len(more) = Len(front) + Len(<<i>>)
        /\ \A n \in 1..Len(front) + Len(<<i>>) : more[n] = IF n <= Len(front) THEN front[n] ELSE <<i>>[n - Len(front)]
    <3> HIDE DEF T
    <3>1. QED  BY <1>4, <2>1, ConcatProperties
  <2>3. ASSUME NEW n \in 1..index + 1 PROVE more[n] = IF n <= index THEN seq[n] ELSE i
    <3>1. more[n] = IF n <= index THEN front[n] ELSE <<i>>[n - index]
      BY <1>4, <2>1, <2>2
    <3>2. n <= index \/ n - index = 1
      BY <1>1
    <3>3. n <= index => n \in 1..index
      BY <1>1
    <3> HIDE DEF more
    <3>4. QED  BY <1>4, <2>1, <3>1, <3>2, <3>3
  <2>4. Len(more) = index + 1
    BY <1>4, <2>1, <2>2
  <2>5. QED  BY <2>2, <2>3, <2>4
<1> HIDE DEF more
<1>7. /\ all \in Seq(T) /\ Len(all) = Len(seq) + 1
      /\ \A n \in 1..Len(seq) + 1 : all[n] = IF n <= index + 1 THEN more[n] ELSE back[n - (index + 1)]
  <2>1. /\ all \in Seq(T) /\ Len(all) = Len(more) + Len(back)
        /\ \A n \in 1..Len(more) + Len(back) : all[n] = IF n <= Len(more) THEN more[n] ELSE back[n - Len(more)]
    <3>1. more \in Seq(T) /\ back \in Seq(T)
      BY <1>5, <1>6
    <3> HIDE DEF T
    <3>2. QED  BY <3>1, ConcatProperties
  <2>2. Len(more) + Len(back) = Len(seq) + 1
    BY <1>1, <1>5, <1>6
  <2> HIDE DEF all, T
  <2>3. QED  BY <1>6, <2>1, <2>2
<1> HIDE DEF all
<1>8. ASSUME NEW n \in 1..Len(seq) + 1
      PROVE  all[n] = IF n <= index THEN seq[n] ELSE IF n = index + 1 THEN i ELSE seq[n - 1]
  <2>1. CASE n <= index + 1
    BY <1>1, <1>6, <1>7, <2>1
  <2>2. CASE n > index + 1
    <3>1. n - (index + 1) \in 1..Len(seq) - index /\ index + (n - (index + 1)) = n - 1
      BY <1>1, <2>2
    <3>2. all[n] = back[n - (index + 1)]
      BY <1>1, <1>7, <2>2
    <3>3. back[n - (index + 1)] = seq[n - 1]
      BY <1>5, <3>1
    <3>4. ~(n <= index) /\ n # index + 1
      BY <1>1, <2>2
    <3>5. QED  BY <3>2, <3>3, <3>4
  <2>3. QED  BY <1>1, <2>1, <2>2
<1>9. ASSUME NEW n \in 1..Len(all) PROVE new[all[n]] = n - 1
  <2>1. CASE n <= index
    <3>1. all[n] = seq[n] /\ n \in 1..Len(seq)
      BY <1>1, <1>7, <1>8, <1>9, <2>1
    <3>2. all[n] \in S /\ all[n] # i /\ number[all[n]] = n - 1 /\ ~(number[all[n]] >= index)
      BY <1>1, <2>1, <3>1
    <3>3. QED  BY <3>2
  <2>2. CASE n = index + 1
    <3>1. all[n] = i
      BY <1>1, <1>7, <1>8, <1>9, <2>2
    <3>2. QED  BY <1>1, <2>2, <3>1
  <2>3. CASE n > index + 1
    <3>1. all[n] = seq[n - 1] /\ n - 1 \in 1..Len(seq)
      BY <1>1, <1>7, <1>8, <1>9, <2>3
    <3>2. all[n] \in S /\ all[n] # i /\ number[all[n]] = n - 2 /\ number[all[n]] >= index
      BY <1>1, <2>3, <3>1
    <3>3. new[all[n]] = n - 2 + 1
      BY <3>2
    <3>4. QED  BY <1>1, <1>7, <3>3
  <2>4. QED  BY <1>1, <1>7, <2>1, <2>2, <2>3
<1>10. ASSUME NEW j \in T
       PROVE  new[j] \in Nat /\ new[j] + 1 \in 1..Len(all) /\ all[new[j] + 1] = j
  <2>1. CASE j = i
    <3>1. new[j] = index
      BY <2>1
    <3>2. index \in Nat /\ index + 1 \in 1..Len(seq) + 1
      BY <1>1
    <3>3. QED  BY <1>7, <1>8, <2>1, <3>1, <3>2
  <2>2. CASE j # i /\ number[j] >= index
    <3> DEFINE place == number[j] + 1
    <3>1. number[j] \in Nat /\ place \in 1..Len(seq) /\ seq[place] = j
      BY <1>1, <1>10, <2>2
    <3>2. new[j] = place
      BY <1>10, <2>2
    <3>3. place > index
      BY <1>1, <2>2, <3>1
    <3> HIDE DEF place
    <3>4. /\ place \in Nat /\ place + 1 \in 1..Len(seq) + 1
          /\ ~(place + 1 <= index) /\ place + 1 # index + 1
      BY <1>1, <3>1, <3>3
    <3>5. all[place + 1] = seq[place + 1 - 1] /\ place + 1 - 1 = place
      BY <1>8, <3>4
    <3>6. all[place + 1] = j
      BY <3>1, <3>5
    <3>7. QED  BY <1>7, <3>2, <3>4, <3>6
  <2>3. CASE j # i /\ ~(number[j] >= index)
    <3>1. number[j] \in Nat /\ number[j] + 1 \in 1..Len(seq) /\ seq[number[j] + 1] = j
      BY <1>1, <1>10, <2>3
    <3>2. new[j] = number[j]
      BY <2>3
    <3>3. number[j] + 1 \in 1..Len(seq) + 1 /\ number[j] + 1 <= index
      BY <1>1, <2>3, <3>1
    <3>4. all[number[j] + 1] = j
      BY <1>8, <3>1, <3>3
    <3>5. QED  BY <1>7, <3>1, <3>2, <3>3, <3>4
  <2>4. QED  BY <2>1, <2>2, <2>3
<1>11. Placed(all, T, new)
  BY <1>7, <1>9, <1>10 DEF Placed
<1>12. QED  BY <1>2, <1>11

\* In a numbered lane, as many rows come before a row as its position says.
LEMMA RankIsPosition ==
    ASSUME QueueInv, Dense, NEW status \in Status
    PROVE  LET lane == Lane(rows, status, NoItem) IN
           /\ \A i \in lane : Rank(rows, lane, i) = rows[i].position
           /\ \A i, j \in lane : Before(rows, i, j) <=> rows[i].position < rows[j].position
<1> DEFINE lane == Lane(rows, status, NoItem)
           n == Cardinality(lane)
           position == [i \in lane |-> rows[i].position]
<1>1. /\ IsFiniteSet(lane) /\ n \in Nat
      /\ \A i \in lane : rows[i].position \in Nat /\ born[i] \in Nat
  BY LanesAreOrdered DEF QueueInv, TypeOK, OnlyKnownSeen, Present
<1>2. {rows[i].position : i \in lane} = 0..(n - 1)
  BY DEF Dense
<1> HIDE DEF lane, n
<1>3. position \in Surjection(lane, 0..(n - 1))
  <2>1. \A i \in lane : rows[i].position \in 0..(n - 1)
    BY <1>2
  <2>2. \A m \in 0..(n - 1) : \E i \in lane : rows[i].position = m
    BY <1>2
  <2>3. QED  BY <2>1, <2>2 DEF Surjection
<1>4. \A i, j \in lane : rows[i].position = rows[j].position => i = j
  <2>1. Cardinality(0..(n - 1)) = n
    BY <1>1, FS_Interval
  <2>2. position \in Injection(lane, 0..(n - 1))
    BY <1>1, <1>3, <2>1, FS_SurjSameCardinalityImpliesInj DEF n
  <2>3. QED  BY <2>2 DEF Injection, IsInjective
<1>5. ASSUME NEW i \in lane, NEW j \in lane
      PROVE  Before(rows, i, j) <=> rows[i].position < rows[j].position
  <2>1. rows[i].position = rows[j].position => ~(born[i] < born[j])
    BY <1>1, <1>4, <1>5
  <2>2. QED  BY <2>1 DEF Before
<1>6. ASSUME NEW i \in lane PROVE Rank(rows, lane, i) = rows[i].position
  <2> DEFINE before == {j \in lane : Before(rows, j, i)}
             last == rows[i].position - 1
             place == [j \in before |-> rows[j].position]
  <2>1. \A j \in lane : j \in before <=> rows[j].position < rows[i].position
    BY <1>5, <1>6
  <2>2. before \subseteq lane /\ IsFiniteSet(before)
    BY <1>1, FS_Subset
  <2>3. rows[i].position \in 0..(n - 1)
    BY <1>2, <1>6
  <2> HIDE DEF before
  <2>4. \A j \in before : rows[j].position \in 0..last
    BY <1>1, <1>6, <2>1, <2>2
  <2>5. ASSUME NEW m \in 0..last PROVE \E j \in before : rows[j].position = m
    <3>1. m \in 0..(n - 1) /\ m < rows[i].position
      BY <1>1, <2>3
    <3>2. PICK j \in lane : rows[j].position = m
      BY <1>2, <3>1
    <3>3. QED  BY <2>1, <3>1, <3>2
  <2>6. place \in Bijection(before, 0..last)
    <3>1. place \in Injection(before, 0..last)
      BY <1>4, <2>2, <2>4 DEF Injection, IsInjective
    <3>2. place \in Surjection(before, 0..last)
      BY <2>4, <2>5 DEF Surjection
    <3>3. QED  BY <3>1, <3>2 DEF Bijection
  <2>7. Cardinality(0..last) = Cardinality(before)
    BY <2>2, <2>6, FS_Bijection DEF ExistsBijection
  <2>8. Cardinality(0..last) = rows[i].position
    <3>1. last \in Int
      BY <2>3
    <3>2. Cardinality(0..last) = IF 0 > last THEN 0 ELSE last - 0 + 1
      <4> HIDE DEF last
      <4>1. QED  BY <3>1, FS_Interval
    <3>3. QED  BY <2>3, <3>2
  <2>9. QED  BY <2>7, <2>8 DEF Rank, before
<1>7. QED  BY <1>5, <1>6 DEF lane

Positions(table) == [i \in Items |-> table[i].position]

\* The lists of lanes that are numbered: each item in the place of its position.
Lists == \A status \in Status :
             Placed(Listed(status), Lane(rows, status, NoItem), Positions(rows))

\* Counting the rows before each row finds each in the place of its position.
LEMMA NumberedLists == QueueInv /\ Dense => Lists
<1> SUFFICES ASSUME QueueInv, Dense, NEW status \in Status
             PROVE  Placed(Listed(status), Lane(rows, status, NoItem), Positions(rows))
  BY DEF Lists
<1> DEFINE lane == Lane(rows, status, NoItem)
           n == Cardinality(lane)
           listed == Listed(status)
<1>1. /\ lane \subseteq Items /\ n \in Nat
      /\ \A i \in lane : rows[i].position \in Nat /\ Positions(rows)[i] = rows[i].position
  BY LanesAreOrdered DEF QueueInv, TypeOK, OnlyKnownSeen, Present, Positions
<1>2. {rows[i].position : i \in lane} = 0..(n - 1)
  BY DEF Dense
<1>3. listed = [m \in 1..n |-> CHOOSE i \in lane : Rank(rows, lane, i) = m - 1]
  BY DEF Listed
<1>4. \A i \in lane : Rank(rows, lane, i) = rows[i].position
  BY RankIsPosition
<1>5. \A i, j \in lane : rows[i].position = rows[j].position => i = j
  <2>1. /\ IsFiniteSet(lane) /\ \A i \in lane : rows[i].position \in Nat /\ born[i] \in Nat
        /\ \A i, j \in lane : born[i] = born[j] => i = j
    BY LanesAreOrdered DEF QueueInv, TypeOK, OnlyKnownSeen, Present
  <2>2. \A i, j \in lane : Rank(rows, lane, i) = Rank(rows, lane, j) => i = j
    <3> HIDE DEF lane
    <3>1. QED  BY <2>1, RanksNumberTheLane
  <2>3. QED  BY <1>4, <2>2
<1> HIDE DEF lane, n, listed
<1>6. ASSUME NEW m \in 1..n PROVE listed[m] \in lane /\ rows[listed[m]].position = m - 1
  <2>1. m - 1 \in 0..(n - 1)
    BY <1>1
  <2>2. PICK i \in lane : rows[i].position = m - 1
    BY <1>2, <2>1
  <2>3. Rank(rows, lane, i) = m - 1
    BY <1>4, <2>2
  <2> DEFINE item == CHOOSE j \in lane : Rank(rows, lane, j) = m - 1
  <2>4. item \in lane /\ Rank(rows, lane, item) = m - 1
    BY <2>3
  <2>5. listed[m] = item
    BY <1>3
  <2> HIDE DEF item
  <2>6. QED  BY <1>4, <2>4, <2>5
<1>7. listed \in [1..n -> lane]
  BY <1>3, <1>6
<1>8. listed \in Seq(lane) /\ Len(listed) = n
  BY <1>1, <1>7
<1>9. ASSUME NEW i \in lane
      PROVE  rows[i].position + 1 \in 1..n /\ listed[rows[i].position + 1] = i
  <2>1. rows[i].position \in 0..(n - 1)
    BY <1>2, <1>9
  <2> DEFINE place == rows[i].position + 1
  <2>2. rows[i].position \in Nat
    BY <1>1, <1>9
  <2>3. place \in 1..n /\ place - 1 = rows[i].position
    BY <1>1, <2>1, <2>2
  <2> HIDE DEF place
  <2>4. listed[place] \in lane /\ rows[listed[place]].position = rows[i].position
    BY <1>6, <2>3
  <2>5. listed[place] = i
    BY <1>5, <1>9, <2>4
  <2>6. QED  BY <2>3, <2>5 DEF place
<1>10. QED  BY <1>1, <1>6, <1>8, <1>9 DEF Placed, lane, listed

\* Without one of its items, ...
LEMMA RankWithout ==
    ASSUME QueueInv, Dense, NEW status \in Status, NEW i \in Items,
           NEW j \in Lane(rows, status, i)
    PROVE  Rank(rows, Lane(rows, status, i), j)
             = IF i \in Lane(rows, status, NoItem) /\ rows[j].position > rows[i].position
               THEN rows[j].position - 1 ELSE rows[j].position
<1> DEFINE lane == Lane(rows, status, NoItem)
           rest == Lane(rows, status, i)
           before == {k \in lane : Before(rows, k, j)}
<1>1. rest = lane \ {i} /\ j \in lane /\ j # i
  BY QueueAssumption DEF Lane
<1>2. /\ IsFiniteSet(lane) /\ \A k \in lane : rows[k].position \in Nat
      /\ \A k \in lane : Rank(rows, lane, k) = rows[k].position
      /\ \A k \in lane : Before(rows, k, j) <=> rows[k].position < rows[j].position
  BY <1>1, RankIsPosition, LanesAreOrdered DEF QueueInv, TypeOK, OnlyKnownSeen, Present
<1>3. Cardinality(before) = rows[j].position /\ IsFiniteSet(before)
  BY <1>1, <1>2, FS_Subset DEF Rank
<1>4. Rank(rows, rest, j) = Cardinality(before \ {i})
  <2>1. {k \in rest : Before(rows, k, j)} = before \ {i}
    BY <1>1
  <2>2. QED  BY <2>1 DEF Rank
<1>5. i \in before <=> i \in lane /\ rows[j].position > rows[i].position
  BY <1>1, <1>2
<1> HIDE DEF before
<1>6. CASE i \in before
  <2>1. Cardinality(before \ {i}) = Cardinality(before) - 1
    BY <1>3, <1>6, FS_RemoveElement
  <2>2. QED  BY <1>3, <1>4, <1>5, <1>6, <2>1
<1>7. CASE i \notin before
  <2>1. before \ {i} = before
    BY <1>7
  <2>2. QED  BY <1>3, <1>4, <1>5, <1>7, <2>1
<1>8. QED  BY <1>6, <1>7

\* ... the list of a lane shows the others in the places of their ranks.
LEMMA WithoutListed ==
    ASSUME QueueInv, Dense, NEW status \in Status, NEW i \in Items
    PROVE  Placed(Board!Without(Listed(status), i), Lane(rows, status, i),
                  [j \in Items |-> Rank(rows, Lane(rows, status, i), j)])
<1> DEFINE lane == Lane(rows, status, NoItem)
           rest == Lane(rows, status, i)
           number == Positions(rows)
           ranks == [j \in Items |-> Rank(rows, rest, j)]
<1>1. Placed(Listed(status), lane, number)
  BY NumberedLists DEF Lists
<1>2. rest = lane \ {i} /\ lane \subseteq Items
  BY QueueAssumption DEF Lane
<1>3. ASSUME NEW j \in rest
      PROVE  ranks[j] = IF i \in lane /\ number[j] > number[i] THEN number[j] - 1 ELSE number[j]
  <2>1. ranks[j] = IF i \in lane /\ rows[j].position > rows[i].position
                   THEN rows[j].position - 1 ELSE rows[j].position
    BY <1>2, <1>3, RankWithout
  <2>2. number[j] = rows[j].position /\ number[i] = rows[i].position
    BY <1>2, <1>3 DEF Positions
  <2> HIDE DEF ranks, rest, number, lane
  <2>3. QED  BY <2>1, <2>2
<1> HIDE DEF ranks, rest, lane, number
<1>4. Placed(Board!Without(Listed(status), i), rest, ranks)
  BY <1>1, <1>2, <1>3, WithoutPlaces
<1>5. QED  BY <1>4 DEF ranks, rest

\* A sequence is as long as it has items.
LEMMA PlacedLength ==
    ASSUME NEW S, NEW number, NEW seq, IsFiniteSet(S), Placed(seq, S, number)
    PROVE  Len(seq) = Cardinality(S)
<1> DEFINE n == Len(seq)
           place == [i \in S |-> number[i] + 1]
<1>1. n \in Nat /\ \A m \in 1..n : seq[m] \in S /\ number[seq[m]] = m - 1
  BY DEF Placed
<1>2. \A i \in S : number[i] \in Nat /\ number[i] + 1 \in 1..n /\ seq[number[i] + 1] = i
  BY DEF Placed
<1> HIDE DEF n
<1>3. place \in Injection(S, 1..n)
  <2>1. place \in [S -> 1..n] /\ \A i \in S : seq[place[i]] = i
    BY <1>2
  <2>2. QED  BY <2>1 DEF Injection, IsInjective
<1>4. place \in Surjection(S, 1..n)
  <2>1. ASSUME NEW m \in 1..n PROVE seq[m] \in S /\ place[seq[m]] = m
    BY <1>1, <2>1
  <2>2. QED  BY <1>2, <2>1 DEF Surjection
<1>5. Cardinality(1..n) = Cardinality(S)
  BY <1>3, <1>4, FS_Bijection DEF ExistsBijection, Bijection
<1>6. Cardinality(1..n) = n
  BY <1>1, FS_Interval
<1>7. QED  BY <1>5, <1>6 DEF n

\* What Append makes of one.
LEMMA AppendPlaces ==
    ASSUME NEW S, NEW number, NEW seq, NEW i, NEW new, i \notin S, Placed(seq, S, number),
           new[i] = Len(seq), \A j \in S : new[j] = number[j]
    PROVE  Placed(Append(seq, i), S \cup {i}, new)
<1> DEFINE T == S \cup {i}
           all == Append(seq, i)
<1>1. /\ Len(seq) \in Nat
      /\ \A n \in 1..Len(seq) : seq[n] \in S /\ number[seq[n]] = n - 1
      /\ \A j \in S : number[j] \in Nat /\ number[j] + 1 \in 1..Len(seq) /\ seq[number[j] + 1] = j
  BY DEF Placed
<1>2. seq \in Seq(T) /\ i \in T
  <2>1. seq \in [1..Len(seq) -> T]
    BY <1>1 DEF Placed
  <2> HIDE DEF T
  <2>2. seq \in Seq(T)
    BY <1>1, <2>1
  <2>3. QED  BY <2>2 DEF T
<1>3. /\ all \in Seq(T) /\ Len(all) = Len(seq) + 1
      /\ \A n \in 1..Len(seq) : all[n] = seq[n]
      /\ all[Len(seq) + 1] = i
  <2> HIDE DEF T
  <2>1. QED  BY <1>2, AppendProperties
<1> HIDE DEF all
<1>4. ASSUME NEW n \in 1..Len(all) PROVE new[all[n]] = n - 1
  <2>1. CASE n = Len(seq) + 1
    <3>1. QED  BY <1>1, <1>3, <2>1
  <2>2. CASE n \in 1..Len(seq)
    <3>1. all[n] \in S /\ all[n] # i /\ number[all[n]] = n - 1
      BY <1>1, <1>3, <2>2
    <3>2. QED  BY <3>1
  <2>3. QED  BY <1>1, <1>3, <2>1, <2>2
<1>5. ASSUME NEW j \in T
      PROVE  new[j] \in Nat /\ new[j] + 1 \in 1..Len(all) /\ all[new[j] + 1] = j
  <2>1. CASE j = i
    <3>1. new[j] = Len(seq)
      BY <2>1
    <3>2. QED  BY <1>1, <1>3, <2>1, <3>1
  <2>2. CASE j # i
    <3>1. new[j] = number[j] /\ j \in S
      BY <2>2
    <3>2. QED  BY <1>1, <1>3, <3>1
  <2>3. QED  BY <2>1, <2>2
<1>6. Placed(all, T, new)
  BY <1>3, <1>4, <1>5 DEF Placed
<1>7. QED  BY <1>6 DEF all

-----------------------------------------------------------------------------
(* The operations.                                                         *)

\* The board shows what is there.
LEMMA ShownIsPresent ==
    ASSUME QueueInv, Lists
    PROVE  \A i : i \in Board!OnBoard <=> i \in Items /\ Present(i)
<1>1. \A status \in Status : Board!Range(ListedLanes[status]) = Lane(rows, status, NoItem)
  <2> TAKE status \in Status
  <2> DEFINE seq == Listed(status)
             lane == Lane(rows, status, NoItem)
  <2>1. Placed(seq, lane, Positions(rows))
    BY DEF Lists
  <2> HIDE DEF seq, lane
  <2>2. Board!Range(seq) = lane
    BY <2>1 DEF Placed, Board!Range
  <2>3. QED  BY <2>2 DEF ListedLanes, seq, lane
<1>2. Board!Lanes = Status
  BY DEF Board!Lanes, Status
<1>3. \A i : i \in Board!OnBoard <=> \E status \in Status : i \in Lane(rows, status, NoItem)
  BY <1>1, <1>2 DEF Board!OnBoard
<1>4. \A i \in Items : rows[i].status \in Status \cup {"absent"}
  BY DEF QueueInv, TypeOK, Row
<1>5. QED  BY <1>3, <1>4, QueueAssumption DEF Lane, Present, Status

\* What is in its places is what the list is afterwards.
LEMMA ListedAfter ==
    ASSUME Lists', NEW status \in Status, NEW seq, NEW lane, NEW number,
           lane = Lane(rows', status, NoItem), lane \subseteq Items, Placed(seq, lane, number),
           \A i \in lane : rows'[i].position = number[i]
    PROVE  Listed(status)' = seq
<1>1. Placed(Listed(status)', lane, Positions(rows'))
  BY DEF Lists
<1>2. \A i \in lane : Positions(rows')[i] = number[i]
  BY DEF Positions
<1>3. Placed(seq, lane, Positions(rows'))
  BY <1>2, PlacedSame
<1>4. QED  BY <1>1, <1>3, PlacedOnce

\* Where no row changes, no list does.
LEMMA ListedAsBefore ==
    ASSUME Lists, Lists', NEW status \in Status,
           Lane(rows', status, NoItem) = Lane(rows, status, NoItem),
           \A i \in Lane(rows, status, NoItem) : rows'[i] = rows[i]
    PROVE  Listed(status)' = Listed(status)
<1> DEFINE lane == Lane(rows, status, NoItem)
           number == Positions(rows)
           seq == Listed(status)
<1>1. Placed(seq, lane, number) /\ lane \subseteq Items
  BY DEF Lists, Lane
<1>2. \A i \in lane : rows'[i].position = number[i]
  BY <1>1 DEF Positions
<1>3. lane = Lane(rows', status, NoItem)
  OBVIOUS
<1> HIDE DEF lane, number, seq
<1>4. Listed(status)' = seq
  BY <1>1, <1>2, <1>3, ListedAfter
<1>5. QED  BY <1>4 DEF seq

\* An insert puts the file at the end of the first lane.
LEMMA AddOnBoard ==
    ASSUME QueueInv, Dense, Lists, Lists', NEW c \in Clients, UpToDate(c), CommitAdd(c), rows' # rows
    PROVE  client[c].item \in Items /\ Board!Add(client[c].item)
<1> DEFINE i == client[c].item
           lane == Lane(rows, "pending", NoItem)
           n == Cardinality(lane)
           seq == Listed("pending")
           number == Positions(rows)
<1>1. /\ ~Present(i) /\ i \in Items /\ i # NoItem /\ rows \in [Items -> Row]
      /\ rows' = [rows EXCEPT ![i] = [status |-> "pending", position |-> n]]
      /\ \A j \in Items : Present(j) => FileOf[j] # FileOf[i]
  BY QueueAssumption DEF CommitAdd, UpToDate, QueueInv, TypeOK, OnlyKnownSeen, WellRead, Known
<1>2. IsFiniteSet(lane) /\ lane \subseteq Items /\ i \notin lane
  BY <1>1, LanesAreOrdered DEF QueueInv, TypeOK, OnlyKnownSeen, Present, Status, Lane
<1>3. Lane(rows', "pending", NoItem) = lane \cup {i}
  BY <1>1 DEF Lane, Present
<1>4. Placed(seq, lane, number)
  BY DEF Lists, Status
<1>5. Len(seq) = n
  <2> HIDE DEF seq, lane, number
  <2>1. QED  BY <1>2, <1>4, PlacedLength
<1>6. \A j \in lane \cup {i} : rows'[j].position = IF j = i THEN n ELSE number[j]
  BY <1>1, <1>2 DEF Positions
<1>7. Listed("pending")' = Append(seq, i)
  <2> DEFINE new == Positions(rows')
             all == lane \cup {i}
  <2>1. new[i] = n /\ \A j \in lane : new[j] = number[j]
    BY <1>1, <1>2, <1>6 DEF Positions
  <2>2. \A j \in all : rows'[j].position = new[j]
    BY <1>1, <1>2 DEF Positions
  <2>3. all \subseteq Items /\ all = Lane(rows', "pending", NoItem) /\ "pending" \in Status
    BY <1>1, <1>2, <1>3 DEF Status
  <2> HIDE DEF new, seq, lane, number, i, n
  <2>4. Placed(Append(seq, i), all, new)
    BY <1>2, <1>4, <1>5, <2>1, AppendPlaces
  <2> HIDE DEF all
  <2>5. QED  BY <2>2, <2>3, <2>4, ListedAfter
<1>8. ASSUME NEW status \in Status, status # "pending" PROVE Listed(status)' = Listed(status)
  <2>1. Lane(rows', status, NoItem) = Lane(rows, status, NoItem)
    BY <1>1, <1>8 DEF Lane, Present, Status
  <2>2. \A j \in Lane(rows, status, NoItem) : rows'[j] = rows[j]
    BY <1>1 DEF Lane, Present, Status
  <2>3. QED  BY <2>1, <2>2, ListedAsBefore
<1>9. ListedLanes' = [ListedLanes EXCEPT !["pending"] = Append(@, i)]
  <2>1. ListedLanes' = [status \in Status |-> Listed(status)']
    BY DEF ListedLanes
  <2>2. ListedLanes = [status \in Status |-> Listed(status)] /\ "pending" \in Status
    BY DEF ListedLanes, Status
  <2> HIDE DEF i
  <2>3. QED  BY <1>7, <1>8, <2>1, <2>2
<1>10. \A j \in Board!OnBoard : FileOf[j] # FileOf[i]
  BY <1>1, ShownIsPresent
<1>11. QED  BY <1>1, <1>9, <1>10 DEF Board!Add

\* A move of a board that is still as it was read puts the item where it was
\* asked to be.
LEMMA MoveOnBoard ==
    ASSUME QueueInv, Dense, Lists, Lists', NEW c \in Clients, CommitMove(c),
           client[c].view = rows
    PROVE  Board!MoveTo(client[c].item, client[c].status, client[c].position)
<1> DEFINE request == client[c]
<1>0. PICK target \in Status : target = request.status
  BY DEF QueueInv, TypeOK, Client
<1> DEFINE i == request.item
           others == [s \in Status |-> Lane(rows, s, i)]
           room == Cardinality(others[target])
           index == IF request.position > room THEN room ELSE request.position
           new == Rearranged(request)
           without == [s \in Status |-> Board!Without(Listed(s), i)]
           ranks(s) == [j \in Items |-> Rank(rows, others[s], j)]
<1>1. /\ i \in Items /\ target = request.status /\ request.position \in Nat /\ Present(i)
      /\ rows \in [Items -> Row] /\ i # NoItem
  BY <1>0, QueueAssumption DEF QueueInv, TypeOK, Client, OnlyKnownSeen, WellRead, Known, CommitMove, Present
<1>2. \A s \in Status : IsFiniteSet(others[s]) /\ Cardinality(others[s]) \in Nat
                     /\ others[s] \subseteq Items /\ i \notin others[s]
  <2>1. ASSUME NEW s \in Status
        PROVE  /\ IsFiniteSet(others[s]) /\ Cardinality(others[s]) \in Nat
               /\ others[s] \subseteq Items /\ i \notin others[s]
    <3>1. \A j \in Items : rows[j].status # "absent" => j \in Known
      BY DEF QueueInv, OnlyKnownSeen, Present
    <3>2. i \notin Lane(rows, s, i) /\ Lane(rows, s, i) \subseteq Items
      BY DEF Lane
    <3> HIDE DEF i
    <3>3. QED  BY <1>1, <3>1, <3>2, LanesAreOrdered
  <2>2. QED  BY <2>1
<1>3. \A j \in Items : rows'[j] = new[j] \/ (rows'[j].status = "absent" /\ new[j].status = "absent")
  BY UndisturbedMoveStores
<1>4. new[i] = [status |-> target, position |-> index]
  BY <1>1 DEF Rearranged
<1>5. \A j \in Items \ {i} : new[j].status = rows[j].status
  BY <1>1 DEF Rearranged, NoRow
<1>6. \A s \in Status : \A j \in others[s] :
        new[j].position = IF s = target /\ Rank(rows, others[s], j) >= index
                          THEN Rank(rows, others[s], j) + 1 ELSE Rank(rows, others[s], j)
  <2>1. ASSUME NEW s \in Status, NEW j \in others[s]
        PROVE  j \in Items /\ j # i /\ rows[j].status = s /\ s # "absent"
    BY <2>1 DEF Lane, Status
  <2>2. QED  BY <1>0, <1>1, <2>1 DEF Rearranged
<1>7. ASSUME NEW s \in Status
      PROVE  Placed(Board!Without(Listed(s), i), others[s], ranks(s))
  BY <1>1, WithoutListed
<1>8. ASSUME NEW s \in Status
      PROVE  Lane(rows', s, NoItem) = IF s = target THEN others[s] \cup {i} ELSE others[s]
  <2>1. Lane(rows', s, NoItem) = Lane(new, s, NoItem)
    <3> HIDE DEF new
    <3>1. QED  BY <1>3 DEF Lane, Status
  <2>2. others[s] = Lane(rows, s, i) /\ NoItem \notin Items
    BY QueueAssumption
  <2> HIDE DEF new, others
  <2>3. Lane(new, s, NoItem) = IF s = target THEN others[s] \cup {i} ELSE others[s]
    BY <1>1, <1>4, <1>5, <2>2 DEF Lane
  <2>4. QED  BY <2>1, <2>3
<1>9. ASSUME NEW s \in Status, NEW j \in Lane(rows', s, NoItem) PROVE rows'[j].position = new[j].position
  BY <1>3, <1>9 DEF Lane, Status
<1>10. room = Len(without[target]) /\ index \in 0..room
  <2>1. Placed(without[target], others[target], ranks(target))
    BY <1>1, <1>7
  <2>2. IsFiniteSet(others[target]) /\ room \in Nat
    BY <1>1, <1>2
  <2>3. Len(without[target]) = room
    <3> DEFINE number == ranks(target)
    <3> HIDE DEF without, others, number
    <3>1. QED  BY <2>1, <2>2, PlacedLength DEF number
  <2> HIDE DEF without, room
  <2>4. QED  BY <1>1, <2>2, <2>3
<1>11. Listed(target)' = Board!InsertAt(without[target], index + 1, i)
  <2> DEFINE seq == without[target]
             S == others[target]
             number == ranks(target)
             places == Positions(rows')
             all == S \cup {i}
  <2>1. Placed(seq, S, number) /\ i \notin S /\ index \in 0..Len(seq) /\ S \subseteq Items
    BY <1>1, <1>2, <1>7, <1>10
  <2>2. all = Lane(rows', target, NoItem) /\ all \subseteq Items
    BY <1>1, <1>8, <2>1
  <2>3. \A j \in all : rows'[j].position = new[j].position /\ places[j] = rows'[j].position
    BY <1>1, <1>9, <2>2 DEF Positions
  <2>4. places[i] = index
    BY <1>4, <2>3
  <2>5. \A j \in S : places[j] = IF number[j] >= index THEN number[j] + 1 ELSE number[j]
    <3> TAKE j \in S
    <3>1. number[j] = Rank(rows, S, j)
      BY <2>1
    <3>2. new[j].position = IF Rank(rows, S, j) >= index THEN Rank(rows, S, j) + 1 ELSE Rank(rows, S, j)
      BY <1>1, <1>6
    <3> HIDE DEF number, new, places, index
    <3>3. QED  BY <2>3, <3>1, <3>2
  <2> HIDE DEF seq, S, number, places, index, i
  <2>6. Placed(Board!InsertAt(seq, index + 1, i), all, places)
    BY <2>1, <2>4, <2>5, InsertPlaces
  <2> DEFINE lane == all
             result == Board!InsertAt(seq, index + 1, i)
  <2>7. \A j \in lane : rows'[j].position = places[j]
    BY <2>3
  <2> HIDE DEF lane, result
  <2>8. Listed(target)' = result
    BY <1>1, <2>2, <2>6, <2>7, ListedAfter DEF lane, result
  <2>9. QED  BY <2>8 DEF result, seq
<1>12. ASSUME NEW s \in Status, s # target PROVE Listed(s)' = without[s]
  <2> DEFINE seq == without[s]
             lane == others[s]
             number == ranks(s)
  <2>1. Placed(seq, lane, number) /\ lane \subseteq Items
    BY <1>2, <1>7
  <2>2. lane = Lane(rows', s, NoItem)
    BY <1>8, <1>12
  <2>3. \A j \in lane : rows'[j].position = number[j]
    BY <1>6, <1>9, <1>12, <2>1, <2>2
  <2> HIDE DEF seq, lane, number
  <2>4. Listed(s)' = seq
    BY <2>1, <2>2, <2>3, ListedAfter
  <2>5. QED  BY <2>4 DEF seq
<1>13. i \in Board!OnBoard
  BY <1>1, ShownIsPresent
<1>14. ListedLanes' = [without EXCEPT ![target] = Board!InsertAt(@, index + 1, i)]
  <2>1. ListedLanes' = [s \in Status |-> Listed(s)']
    BY DEF ListedLanes
  <2>2. \A s \in Status : s # target => Listed(s)' = without[s]
    BY <1>12
  <2> HIDE DEF index, i, without
  <2>3. without = [s \in Status |-> without[s]]
    BY DEF without
  <2>4. QED  BY <1>11, <2>1, <2>2, <2>3
<1>15. without = [s \in Board!Lanes |-> Board!Without(ListedLanes[s], i)]
  BY DEF Board!Lanes, Status, ListedLanes
<1>16. index = IF request.position > Len(without[target]) THEN Len(without[target]) ELSE request.position
  BY <1>10
<1> HIDE DEF without, index
<1>17. QED  BY <1>1, <1>13, <1>14, <1>15, <1>16 DEF Board!MoveTo
\* A removal takes the item off its lane, and moves those after it up.
LEMMA RemovalOnBoard ==
    ASSUME QueueInv, Dense, Lists, Lists', NEW c \in Clients, UpToDate(c), CommitRemoval(c),
           rows # NoRows
    PROVE  Board!TakeOff(client[c].item)
<1> DEFINE request == client[c]
           i == request.item
           rest == Lane(rows, request.status, i)
<1>1. /\ i \in Items /\ request.status \in Status /\ rows[i].status = request.status
      /\ NoItem \notin Items /\ Present(i)
      /\ \A j \in Items : request.view[j] = IF j \in rest THEN rows[j] ELSE NoRow
  BY QueueAssumption DEF QueueInv, TypeOK, Client, OnlyKnownSeen, WellRead, Known, UpToDate,
                         CommitRemoval, Present, Status
<1>2. rest = Lane(request.view, request.status, NoItem)
  BY <1>1 DEF Lane, NoRow, Status
<1>3. \A j \in rest : request.view[j] = rows[j]
  BY <1>1 DEF Lane
<1>4. /\ \A j \in rest : /\ rows'[j].status = rows[j].status
                         /\ rows'[j].position = Rank(rows, rest, j)
      /\ \A j \in Items \ rest : rows'[j] = IF j = i THEN NoRow ELSE rows[j]
  BY <1>2, <1>3, RemovalNumbers
<1>5. ASSUME NEW s \in Status PROVE Listed(s)' = Board!Without(Listed(s), i)
  <2> DEFINE lane == Lane(rows, s, i)
             seq == Board!Without(Listed(s), i)
             number == [j \in Items |-> Rank(rows, lane, j)]
  <2>1. Placed(seq, lane, number) /\ lane \subseteq Items
    <3> HIDE DEF i
    <3>1. QED  BY <1>1, WithoutListed DEF Lane
  <2>2. \A j \in lane : j \in Items /\ j # i /\ rows[j].status = s
    BY DEF Lane
  <2>3. lane = Lane(rows', s, NoItem)
    <3>1. ASSUME NEW j \in Items PROVE rows'[j].status = s <=> j # i /\ rows[j].status = s
      <4>1. CASE j \in rest
        BY <1>4, <4>1 DEF Lane
      <4>2. CASE j = i
        BY <1>4, <4>2 DEF Lane, NoRow, Status
      <4>3. CASE j \notin rest /\ j # i
        BY <1>4, <4>3
      <4>4. QED  BY <4>1, <4>2, <4>3
    <3> HIDE DEF i
    <3>2. QED  BY <1>1, <3>1 DEF Lane
  <2>4. ASSUME NEW j \in lane PROVE rows'[j].position = number[j]
    <3>1. CASE s = request.status
      BY <1>4, <2>1, <2>4, <3>1
    <3>2. CASE s # request.status
      <4>1. j \notin rest /\ rows'[j] = rows[j]
        BY <1>4, <2>2, <2>4, <3>2 DEF Lane
      <4>2. i \notin Lane(rows, s, NoItem)
        BY <1>1, <3>2 DEF Lane
      <4>3. Rank(rows, lane, j) = rows[j].position
        <5> HIDE DEF i
        <5>1. QED  BY <1>1, <2>4, <4>2, RankWithout
      <4>4. QED  BY <2>2, <2>4, <4>1, <4>3
    <3>3. QED  BY <3>1, <3>2
  <2> HIDE DEF lane, seq, number
  <2>5. Listed(s)' = seq
    BY <2>1, <2>3, <2>4, ListedAfter
  <2>6. QED  BY <2>5 DEF seq
<1>6. ListedLanes' = [s \in Board!Lanes |-> Board!Without(ListedLanes[s], i)]
  <2>1. ListedLanes' = [s \in Status |-> Listed(s)']
    BY DEF ListedLanes
  <2>2. \A s \in Status : ListedLanes[s] = Listed(s)
    BY DEF ListedLanes
  <2>3. Board!Lanes = Status
    BY DEF Board!Lanes, Status
  <2> HIDE DEF i
  <2>4. QED  BY <1>5, <2>1, <2>2, <2>3
<1>7. i \in Board!OnBoard
  BY <1>1, ShownIsPresent
<1>8. QED  BY <1>6, <1>7 DEF Board!TakeOff

\* No rows, an empty board.
EmptyBoard == rows = NoRows => ListedLanes = Board!Empty

LEMMA NothingListed == EmptyBoard
<1> SUFFICES ASSUME rows = NoRows PROVE ListedLanes = Board!Empty
  BY DEF EmptyBoard
<1>1. ASSUME NEW s \in Status PROVE Listed(s) = <<>>
  <2>1. Lane(rows, s, NoItem) = {}
    BY DEF Lane, NoRows, NoRow, Status
  <2>2. Cardinality(Lane(rows, s, NoItem)) = 0
    BY <2>1, FS_EmptySet
  <2>3. QED  BY <2>2 DEF Listed
<1>2. QED  BY <1>1 DEF ListedLanes, Board!Empty, Board!Lanes, Status

\* Without rows nothing is moved and nothing removed.
LEMMA NothingMoves ==
    ASSUME rows = NoRows, NEW c \in Clients, CommitMove(c) PROVE rows' = rows
<1> DEFINE lane == {i \in Items : client[c].view[i].status # "absent"}
           dirty == {i \in lane : Rearranged(client[c])[i] # client[c].view[i]}
<1>1. \A i \in Items : ~Present(i)
  BY DEF Present, NoRows, NoRow
<1>2. CASE dirty = {}
  BY <1>2 DEF CommitMove, Write, NoRows
<1>3. CASE dirty # {}
  BY <1>1, <1>3 DEF CommitMove, Write
<1>4. QED  BY <1>2, <1>3

\* The removal of a row that is gone, with all others, writes nothing.
LEMMA NothingRemoved ==
    ASSUME QueueInv, rows = NoRows, NEW c \in Clients, UpToDate(c), CommitRemoval(c)
    PROVE  rows' = rows
<1> DEFINE request == client[c]
           rest == Lane(rows, request.status, request.item)
<1>1. request.status \in Status /\ request.item \in Items
      /\ \A i \in Items : request.view[i] = IF i \in rest THEN rows[i] ELSE NoRow
  BY DEF QueueInv, TypeOK, Client, OnlyKnownSeen, WellRead, Known, UpToDate, CommitRemoval
<1>2. rest = {}
  BY <1>1 DEF Lane, NoRows, NoRow, Status
<1>3. Lane(request.view, request.status, NoItem) = {}
  BY <1>1, <1>2 DEF Lane, NoRow, Status
<1>4. [rows EXCEPT ![request.item] = NoRow] = rows
  BY <1>1 DEF NoRows
<1>5. QED  BY <1>3, <1>4 DEF CommitRemoval, Write, NoRows

\* A lane without an item is no longer than with it.
LEMMA LessIsListed ==
    ASSUME QueueInv, Dense, NEW status \in Status, NEW i \in Items
    PROVE  /\ Len(ListedLanes[status]) \in Nat
           /\ Len(Board!Without(ListedLanes[status], i)) \in 0..Len(ListedLanes[status])
<1> DEFINE lane == Lane(rows, status, NoItem)
           rest == Lane(rows, status, i)
           seq == Listed(status)
           ranks == [j \in Items |-> Rank(rows, rest, j)]
           number == Positions(rows)
<1>1. IsFiniteSet(lane) /\ Cardinality(lane) \in Nat /\ rest \subseteq lane
  <2>1. rest \subseteq lane
    BY QueueAssumption DEF Lane
  <2>2. \A j \in Items : rows[j].status # "absent" => j \in Known
    BY DEF QueueInv, OnlyKnownSeen, Present
  <2>3. rows \in [Items -> Row]
    BY DEF QueueInv, TypeOK
  <2>4. QED  BY <2>1, <2>2, <2>3, LanesAreOrdered
<1>2. IsFiniteSet(rest) /\ Cardinality(rest) \in 0..Cardinality(lane)
  BY <1>1, FS_Subset, FS_CardinalityType
<1>3. Placed(seq, lane, number) /\ Placed(Board!Without(seq, i), rest, ranks)
  BY NumberedLists, WithoutListed DEF Lists
<1> HIDE DEF lane, rest, seq, ranks, number
<1>4. Len(seq) = Cardinality(lane) /\ Len(Board!Without(seq, i)) = Cardinality(rest)
  BY <1>1, <1>2, <1>3, PlacedLength
<1>5. ListedLanes[status] = seq
  BY DEF ListedLanes, seq
<1>6. QED  BY <1>1, <1>2, <1>4, <1>5

\* What a step of the queue is on the board.
LEMMA StepOnBoard ==
    ASSUME QueueInv, SequentialInv, Lists, Lists', EmptyBoard', [Next]_vars
    PROVE  [Board!BoardNext]_ListedLanes
<1>1. ASSUME rows' = rows PROVE ListedLanes' = ListedLanes
  <2>1. \A s \in Status : Listed(s)' = Listed(s)
    BY <1>1, ListedAsBefore
  <2>2. QED  BY <2>1 DEF ListedLanes
<1>2. CASE DeleteProject
  BY <1>2 DEF DeleteProject, EmptyBoard, NoRows, Board!BoardNext, Board!Clear
<1>3. ASSUME NEW c \in Clients, CommitAdd(c), rows' # rows PROVE Board!BoardNext
  BY <1>3, AddOnBoard DEF SequentialInv, Board!BoardNext
<1>4. ASSUME NEW c \in Clients, CommitMove(c), rows' # rows PROVE Board!BoardNext
  <2> DEFINE i == client[c].item
             target == client[c].status
             position == client[c].position
             room == Len(ListedLanes[target])
             near == IF position > room THEN room ELSE position
  <2>1. client[c].view = rows
    <3>1. rows # NoRows
      BY <1>4, NothingMoves DEF SequentialInv
    <3>2. QED  BY <1>4, <3>1 DEF SequentialInv, UpToDate, CommitMove
  <2>2. Board!MoveTo(i, target, position)
    BY <1>4, <2>1, MoveOnBoard DEF SequentialInv
  <2>3. i \in Items /\ target \in Status /\ position \in Nat
    BY <1>4 DEF QueueInv, TypeOK, Client, OnlyKnownSeen, WellRead, Known, CommitMove
  <2>4. room \in Nat /\ Len(Board!Without(ListedLanes[target], i)) \in 0..room
    <3> HIDE DEF i, target
    <3>1. QED  BY <2>3, LessIsListed DEF SequentialInv
  <2>5. Board!MoveTo(i, target, near) /\ near \in 0..room
    <3> HIDE DEF i, target, position, room
    <3>1. near \in 0..room
      BY <2>3, <2>4
    <3> DEFINE length == Len(Board!Without(ListedLanes[target], i))
    <3>2. (IF near > length THEN length ELSE near) = (IF position > length THEN length ELSE position)
      BY <2>3, <2>4
    <3> HIDE DEF near
    <3>3. target \in Board!Lanes
      BY <2>3 DEF Board!Lanes, Status
    <3>4. QED  BY <2>2, <3>1, <3>2, <3>3 DEF Board!MoveTo
  <2>6. target \in Board!Lanes
    BY <2>3 DEF Board!Lanes, Status
  <2> HIDE DEF i, target, near, room
  <2>7. QED  BY <2>3, <2>5, <2>6 DEF Board!BoardNext, room
<1>5. ASSUME NEW c \in Clients, CommitRemoval(c), rows' # rows PROVE Board!BoardNext
  <2>1. rows # NoRows
    BY <1>5, NothingRemoved DEF SequentialInv
  <2>2. client[c].item \in Items
    BY <1>5 DEF QueueInv, TypeOK, Client, OnlyKnownSeen, WellRead, Known, CommitRemoval
  <2>3. QED  BY <1>5, <2>1, <2>2, RemovalOnBoard DEF SequentialInv, Board!BoardNext
<1>6. QED
  <2>1. CASE UNCHANGED vars
    BY <1>1, <2>1 DEF vars
  <2>2. ASSUME NEW c \in Clients, ClientStep(c) PROVE [Board!BoardNext]_ListedLanes
    BY <1>1, <1>3, <1>4, <1>5, <2>2
       DEF ClientStep, BeginAdd, OpenItem, LoadBoard, OpenDoomed, FlushRemoval, RollBack
  <2>3. QED  BY <1>2, <2>1, <2>2 DEF Next

\* The lists of requests served one at a time.
LEMMA ListsInOrder == ASSUME OneAtATime PROVE Spec => [](QueueInv /\ SequentialInv /\ Lists)
<1>1. SequentialInv => Dense
  BY DEF SequentialInv
<1>2. QED  BY <1>1, SequentialInvariant, QueueInvariant, NumberedLists, PTL

\* Served one at a time, the requests of the queue are the operations of the
\* board (RefactorQueueRepository: list_for_project shows it): for any number of
\* items, files and positions.
THEOREM QueueImplementsBoard ==
    ASSUME OneAtATime PROVE Spec => ImplementsBoard
<1>1. Init => Board!BoardInit
  BY NothingListed DEF Init, EmptyBoard, Board!BoardInit
<1>2. QueueInv /\ SequentialInv /\ Lists /\ Lists' /\ EmptyBoard' /\ [Next]_vars
        => [Board!BoardNext]_ListedLanes
  BY StepOnBoard
<1>3. []EmptyBoard
  BY NothingListed, PTL
<1>4. QED  BY <1>1, <1>2, <1>3, ListsInOrder, PTL DEF Spec, ImplementsBoard, Board!BoardSpec

\* A move puts its item where the user asked for it, or at the end of the lane
\* when that is nearer, and leaves the order of all others alone.
THEOREM MovesDoAsAsked ==
    ASSUME OneAtATime PROVE Spec => MovesAsAsked
<1> DEFINE AsAsked ==
        \A c \in Clients : LET request == client[c] IN
            CommitMove(c) /\ Present(request.item)
              => Board!MoveTo(request.item, request.status, request.position)
<1>1. QueueInv /\ SequentialInv /\ Lists /\ Lists' /\ [Next]_vars => [AsAsked]_vars
  <2> SUFFICES ASSUME QueueInv, SequentialInv, Lists, Lists', NEW c \in Clients,
                      CommitMove(c), Present(client[c].item)
               PROVE  Board!MoveTo(client[c].item, client[c].status, client[c].position)
    BY DEF AsAsked
  <2>1. rows # NoRows
    BY DEF Present, NoRows, NoRow, QueueInv, TypeOK, Client, OnlyKnownSeen, WellRead, Known, CommitMove
  <2>2. client[c].view = rows
    BY <2>1 DEF SequentialInv, UpToDate, CommitMove
  <2>3. QED  BY <2>2, MoveOnBoard DEF SequentialInv
<1>2. QED  BY <1>1, ListsInOrder, PTL DEF Spec, MovesAsAsked, AsAsked
=============================================================================
