--------------------------- MODULE DashboardsProofs ---------------------------
(* What the dashboards show, for any number of scans, projects and         *)
(* analyses: a dependency graph read by two statements is closed, no page  *)
(* of the list skips a scan, every scan is counted once, and queries       *)
(* written apart show the same numbers, in trends and in summaries.        *)
EXTENDS Dashboards, Counting, SequenceTheorems

Statuses == {"pending", "running", "succeeded", "failed", "cancelled"}

Settled == {"succeeded", "failed", "cancelled"}

\* The columns an update finds, or sets: a scan that runs has been started, one
\* that has a finish time is settled, and one that succeeded has both times.
Row(r) ==
    /\ DOMAIN r = {"status", "created", "started", "finished", "analysis"}
    /\ r.status \in Statuses /\ r.analysis \in Analyses \cup {NoAnalysis}
    /\ r.started \in Nat \cup {None} /\ r.finished \in Nat \cup {None}
    /\ r.status \in {"running", "succeeded"} => r.started \in Nat
    /\ r.status = "succeeded" => r.finished \in Nat
    /\ r.finished # None => r.status \in Settled

\* What may be stored has edges between its own files only.
Closed(analysis) ==
    LET paths == {f.path : f \in analysis.files} IN analysis.edges \subseteq paths \X paths

\* The table of scans, and the record of the request.
Rows ==
    /\ scans = [s \in DOMAIN scans |-> scans[s]]
    /\ \A s \in DOMAIN scans : Row(scans[s]) /\ Closed(scans[s].analysis)
    /\ viewer = [at |-> viewer.at, scan |-> viewer.scan, nodes |-> viewer.nodes, edges |-> viewer.edges]

\* A scan that may be shown is one that was there, and while its row is there it
\* stays as it was: the id of a scan that is deleted is not used again.
Watched ==
    viewer.at \in {"nodes", "edges"} =>
        /\ viewer.scan \in issued
        /\ viewer.scan \in DOMAIN scans =>
             /\ Status(viewer.scan) = "succeeded"
             /\ viewer.at = "edges" => viewer.nodes = NodeRows(viewer.scan)

GraphInv == TypeOK /\ Rows /\ Watched /\ GraphIsClosed

-----------------------------------------------------------------------------
LEMMA LatelyBounds ==
    ASSUME clock \in Nat
    PROVE  Lately \subseteq 0..clock
<1>1. Max({0, clock - 1}) \in {0, clock - 1} /\ Max({0, clock - 1}) >= 0
  <2>1. \E x \in {0, clock - 1} : \A y \in {0, clock - 1} : x >= y
    <3>1. CASE clock - 1 >= 0  BY <3>1
    <3>2. CASE ~ clock - 1 >= 0  BY <3>2
    <3>3. QED  BY <3>1, <3>2
  <2>2. QED  BY <2>1 DEF Max
<1>2. QED  BY <1>1 DEF Lately

LEMMA GraphInit == Init => GraphInv
<1> SUFFICES ASSUME Init PROVE GraphInv
  OBVIOUS
<1>1. DOMAIN scans = {}
  BY DEF Init
<1>2. TypeOK
  BY <1>1, DashboardsAssumption DEF Init, TypeOK, NoGraph
<1>3. Rows
  BY <1>1 DEF Init, Rows, NoGraph
<1>4. QED  BY <1>2, <1>3 DEF Init, GraphInv, Watched, GraphIsClosed, NoGraph

\* A scan is requested under a new id.
LEMMA RequestStep ==
    ASSUME GraphInv, NEW s \in Ids, Request(s)
    PROVE  GraphInv'
<1>1. PICK created \in Lately :
        scans' = [t \in DOMAIN scans \cup {s} |->
                     IF t # s THEN scans[t]
                     ELSE [status |-> "pending", created |-> created, started |-> None,
                           finished |-> None, analysis |-> NoAnalysis]]
  BY DEF Request
<1> DEFINE row == [status |-> "pending", created |-> created, started |-> None,
                   finished |-> None, analysis |-> NoAnalysis]
<1>2. s \notin DOMAIN scans /\ scans'[s] = row
  BY <1>1 DEF Request, GraphInv, TypeOK
<1>3. /\ DOMAIN scans' = DOMAIN scans \cup {s}
      /\ \A t \in DOMAIN scans : scans'[t] = scans[t]
      /\ scans' = [t \in DOMAIN scans \cup {s} |-> scans'[t]]
  BY <1>1, <1>2
<1>4. UNCHANGED <<clock, viewer>> /\ issued' = issued \cup {s} /\ s \notin issued
  BY DEF Request
<1>5. TypeOK'
  <2>1. created \in 0..clock
    BY LatelyBounds DEF GraphInv, TypeOK
  <2>2. QED  BY <1>2, <1>3, <1>4, <2>1 DEF GraphInv, TypeOK
<1>6. Rows'
  <2>1. Row(row) /\ Closed(NoAnalysis)
    BY DEF Row, Statuses, Settled, Closed, NoAnalysis
  <2>2. QED  BY <1>2, <1>3, <1>4, <2>1 DEF GraphInv, Rows
<1>7. Watched' /\ GraphIsClosed'
  <2>1. GraphIsClosed'
    BY <1>4 DEF GraphInv, GraphIsClosed
  <2>2. ASSUME viewer.at \in {"nodes", "edges"}
        PROVE  /\ viewer.scan \in issued'
               /\ viewer.scan \in DOMAIN scans' => viewer.scan \in DOMAIN scans
                                                 /\ scans'[viewer.scan] = scans[viewer.scan]
    BY <1>3, <1>4, <2>2 DEF GraphInv, Watched
  <2>3. Watched'
    BY <1>4, <2>2 DEF GraphInv, Watched, Status, NodeRows, FilesOf
  <2>4. QED  BY <2>1, <2>3
<1>8. QED  BY <1>5, <1>6, <1>7 DEF GraphInv

\* A scan that is pending or running is written: nobody looks at it yet.
LEMMA WriteStep ==
    ASSUME GraphInv, NEW s \in DOMAIN scans, Status(s) # "succeeded",
           NEW row, scans' = [scans EXCEPT ![s] = row],
           Row(row), Closed(row.analysis), row.created = scans[s].created,
           UNCHANGED <<clock, issued, viewer>>
    PROVE  GraphInv'
<1>1. /\ DOMAIN scans' = DOMAIN scans
      /\ \A t \in DOMAIN scans : scans'[t] = IF t = s THEN row ELSE scans[t]
      /\ scans' = [t \in DOMAIN scans |-> scans'[t]]
  BY DEF GraphInv, Rows
<1>2. TypeOK'
  BY <1>1 DEF GraphInv, TypeOK
<1>3. Rows'
  BY <1>1 DEF GraphInv, Rows
<1>4. Watched' /\ GraphIsClosed'
  BY <1>1 DEF GraphInv, Watched, GraphIsClosed, Status, NodeRows, FilesOf
<1>5. QED  BY <1>2, <1>3, <1>4 DEF GraphInv

LEMMA ScanStep ==
    ASSUME GraphInv, NEW s \in DOMAIN scans,
           Start(s) \/ Succeed(s) \/ \E status \in {"failed", "cancelled"} : GiveUp(s, status)
    PROVE  GraphInv'
<1>1. Row(scans[s]) /\ Closed(scans[s].analysis)
  BY DEF GraphInv, Rows
<1>2. Status(s) \in {"pending", "running"} /\ UNCHANGED <<clock, issued, viewer>>
  BY DEF Start, Succeed, GiveUp
<1>0. clock \in Nat /\ Lately \subseteq Nat /\ Status(s) # "succeeded"
  BY <1>2, LatelyBounds DEF GraphInv, TypeOK
<1>3. CASE Start(s)
  <2> DEFINE row == [scans[s] EXCEPT !.status = "running", !.started = clock]
  <2>1. Row(row) /\ row.analysis = scans[s].analysis /\ row.created = scans[s].created
    BY <1>0, <1>1, <1>2 DEF Row, Statuses, Settled, Status
  <2>2. scans' = [scans EXCEPT ![s] = row]
    BY <1>3 DEF Start
  <2> HIDE DEF row
  <2>3. QED  BY <1>0, <1>1, <1>2, <2>1, <2>2, WriteStep
<1>4. CASE Succeed(s)
  <2>1. PICK analysis \in Analyses \cup {NoAnalysis} :
          scans' = [scans EXCEPT ![s].status = "succeeded", ![s].finished = clock,
                                 ![s].analysis = analysis]
    BY <1>4 DEF Succeed
  <2> DEFINE row == [scans[s] EXCEPT !.status = "succeeded", !.finished = clock, !.analysis = analysis]
  <2>2. Row(row) /\ row.analysis = analysis /\ row.created = scans[s].created
    <3>1. Status(s) = "running"
      BY <1>4 DEF Succeed
    <3>2. QED  BY <1>0, <1>1, <2>1, <3>1 DEF Row, Statuses, Settled, Status
  <2>3. Closed(analysis)
    BY DashboardsAssumption DEF Closed, NoAnalysis
  <2>4. scans' = [scans EXCEPT ![s] = row]
    BY <2>1
  <2> HIDE DEF row
  <2>5. QED  BY <1>0, <1>2, <2>2, <2>3, <2>4, WriteStep
<1>5. CASE \E status \in {"failed", "cancelled"} : GiveUp(s, status)
  <2>1. PICK status \in {"failed", "cancelled"} : GiveUp(s, status)
    BY <1>5
  <2>2. PICK finished \in Nat : scans' = [scans EXCEPT ![s].status = status, ![s].finished = finished]
    BY <1>0, <2>1 DEF GiveUp
  <2> DEFINE row == [scans[s] EXCEPT !.status = status, !.finished = finished]
  <2>3. Row(row) /\ row.analysis = scans[s].analysis /\ row.created = scans[s].created
    BY <1>1, <1>2 DEF Row, Statuses, Settled, Status
  <2>4. scans' = [scans EXCEPT ![s] = row]
    BY <2>2
  <2> HIDE DEF row
  <2>5. QED  BY <1>0, <1>1, <1>2, <2>3, <2>4, WriteStep
<1>6. QED  BY <1>3, <1>4, <1>5

LEMMA DeletionStep ==
    ASSUME GraphInv, NEW p, DeleteProject(p)
    PROVE  GraphInv'
<1> DEFINE left == {t \in DOMAIN scans : ProjectOf[t] # p}
<1>1. /\ scans' = [s \in left |-> scans[s]] /\ DOMAIN scans' = left
      /\ UNCHANGED <<clock, issued, viewer>>
  BY DEF DeleteProject
<1>2. TypeOK'
  BY <1>1 DEF GraphInv, TypeOK
<1>3. Rows'
  BY <1>1 DEF GraphInv, Rows
<1>4. Watched' /\ GraphIsClosed'
  BY <1>1 DEF GraphInv, Watched, GraphIsClosed, Status, NodeRows, FilesOf
<1>5. QED  BY <1>2, <1>3, <1>4 DEF GraphInv

\* The steps of the request itself.
LEMMA ViewerStep ==
    ASSUME GraphInv, ReadGraph \/ CloseGraph \/ \E s \in DOMAIN scans : OpenGraph(s)
    PROVE  GraphInv'
<1>1. UNCHANGED <<clock, scans, issued>>
  BY DEF ReadGraph, CloseGraph, OpenGraph
<1>2. CASE CloseGraph
  BY <1>1, <1>2 DEF GraphInv, TypeOK, Rows, Watched, GraphIsClosed, CloseGraph, NoGraph
<1>3. CASE \E s \in DOMAIN scans : OpenGraph(s)
  BY <1>1, <1>3 DEF GraphInv, TypeOK, Rows, Watched, GraphIsClosed, OpenGraph, NoGraph, Status
<1>4. CASE ReadGraph /\ viewer.at = "nodes"
  <2>1. viewer' = [viewer EXCEPT !.at = "edges", !.nodes = NodeRows(viewer.scan)]
    BY <1>4 DEF ReadGraph, NodesBeforeEdges
  <2>2. /\ viewer'.at = "edges" /\ viewer'.scan = viewer.scan /\ viewer'.edges = viewer.edges
        /\ viewer'.nodes = NodeRows(viewer.scan)
        /\ viewer' = [at |-> viewer'.at, scan |-> viewer'.scan, nodes |-> viewer'.nodes, edges |-> viewer'.edges]
    BY <2>1 DEF GraphInv, Rows
  <2>3. QED
    BY <1>1, <1>4, <2>2 DEF GraphInv, TypeOK, Rows, Watched, GraphIsClosed, Status, NodeRows, FilesOf
<1>5. CASE ReadGraph /\ viewer.at = "edges"
  <2>1. viewer' = [viewer EXCEPT !.at = "shown", !.edges = EdgeRows(viewer.scan)]
    BY <1>5 DEF ReadGraph, NodesBeforeEdges
  <2>2. /\ viewer'.at = "shown" /\ viewer'.scan = viewer.scan /\ viewer'.nodes = viewer.nodes
        /\ viewer'.edges = EdgeRows(viewer.scan)
        /\ viewer' = [at |-> viewer'.at, scan |-> viewer'.scan, nodes |-> viewer'.nodes, edges |-> viewer'.edges]
    BY <2>1 DEF GraphInv, Rows
  <2>3. EdgeRows(viewer.scan) \subseteq viewer.nodes \X viewer.nodes
    <3>1. CASE viewer.scan \in DOMAIN scans
      <4>1. viewer.nodes = NodeRows(viewer.scan)
        BY <1>5, <3>1 DEF GraphInv, Watched
      <4>2. Closed(scans[viewer.scan].analysis)
        BY <3>1 DEF GraphInv, Rows
      <4>3. QED  BY <3>1, <4>1, <4>2 DEF Closed, NodeRows, EdgeRows, FilesOf
    <3>2. CASE viewer.scan \notin DOMAIN scans
      BY <3>2 DEF EdgeRows
    <3>3. QED  BY <3>1, <3>2
  <2>4. QED
    BY <1>1, <1>5, <2>2, <2>3 DEF GraphInv, TypeOK, Rows, Watched, GraphIsClosed
<1>6. QED  BY <1>2, <1>3, <1>4, <1>5 DEF ReadGraph, NodesBeforeEdges

LEMMA GraphStep == GraphInv /\ [Next]_vars => GraphInv'
<1> SUFFICES ASSUME GraphInv, [Next]_vars PROVE GraphInv'
  OBVIOUS
<1>1. CASE Tick
  <2>1. clock' = clock + 1 /\ clock < MaxTime /\ UNCHANGED <<scans, issued, viewer>>
    BY <1>1 DEF Tick
  <2>2. TypeOK'
    BY <2>1, DashboardsAssumption DEF GraphInv, TypeOK
  <2>3. QED
    BY <2>1, <2>2 DEF GraphInv, Rows, Watched, GraphIsClosed, Status, NodeRows, FilesOf
<1>2. CASE \E s \in Ids : Request(s)
  BY <1>2, RequestStep
<1>3. CASE \E s \in DOMAIN scans :
             Start(s) \/ Succeed(s) \/ \E status \in {"failed", "cancelled"} : GiveUp(s, status)
  BY <1>3, ScanStep
<1>4. CASE \E p \in Projects : DeleteProject(p)
  BY <1>4, DeletionStep
<1>5. CASE ReadGraph \/ CloseGraph \/ \E s \in DOMAIN scans : OpenGraph(s)
  BY <1>5, ViewerStep
<1>6. CASE UNCHANGED <<clock, scans, issued, viewer>>
  BY <1>6 DEF GraphInv, TypeOK, Rows, Watched, GraphIsClosed, Status, NodeRows, FilesOf
<1>7. (\E descending \in BOOLEAN : OpenList(descending)) \/ ReadPage \/ UNCHANGED vars
        => UNCHANGED <<clock, scans, issued, viewer>>
  BY DEF OpenList, ReadPage, vars
<1>8. QED
  BY <1>1, <1>2, <1>3, <1>4, <1>5, <1>6, <1>7 DEF Next

LEMMA GraphInvariant == Spec => []GraphInv
<1>1. QED  BY GraphInit, GraphStep, PTL DEF Spec

-----------------------------------------------------------------------------
\* Rows keep their ids and times: no scan is created later than now.
THEOREM DashboardTypes == Spec => []TypeOK
<1>1. GraphInv => TypeOK
  BY DEF GraphInv
<1>2. QED  BY <1>1, GraphInvariant, PTL

\* No dependency graph is shown with an edge to a node that is not shown, though
\* its two statements may see the scan before and after its deletion
\* (FilesRepository.list_scan_dependency_graph).
THEOREM ShownGraphsAreClosed == Spec => []GraphIsClosed
<1>1. GraphInv => GraphIsClosed
  BY DEF GraphInv
<1>2. QED  BY <1>1, GraphInvariant, PTL

-----------------------------------------------------------------------------
(* The list of scans, page by page.                                        *)

Preceding(descending, s) == {t \in DOMAIN scans : ListedBefore(descending, t, s)}
Place(descending, s) == Cardinality(Preceding(descending, s))

\* What the client has not seen of the scans it began with is still ahead of it.
UnseenAhead ==
    /\ pager = [page |-> pager.page, descending |-> pager.descending, unseen |-> pager.unseen]
    /\ pager.page \in Nat /\ pager.descending \in BOOLEAN
    /\ pager.page = 0 => pager = NoList
    /\ pager.page > 0 =>
         /\ pager.unseen \subseteq DOMAIN scans
         /\ \A s \in pager.unseen : (pager.page - 1) * PageSize \leq Place(pager.descending, s)

LEMMA ScansAreFinite ==
    ASSUME GraphInv
    PROVE  /\ IsFiniteSet(DOMAIN scans) /\ DOMAIN scans \subseteq Nat
           /\ \A s \in DOMAIN scans : scans[s].created \in Nat /\ Status(s) \in Statuses
<1>1. DOMAIN scans \subseteq Ids /\ \A s \in DOMAIN scans : scans[s].created \in Nat
  BY DEF GraphInv, TypeOK
<1>2. IsFiniteSet(DOMAIN scans) /\ DOMAIN scans \subseteq Nat
  BY <1>1, DashboardsAssumption, FS_Subset
<1>3. QED  BY <1>1, <1>2 DEF GraphInv, Rows, Row, Status

\* The order of the list is one of the ids and the times.
LEMMA ListIsOrdered ==
    ASSUME GraphInv, NEW d \in BOOLEAN
    PROVE  /\ \A s \in DOMAIN scans : ~ ListedBefore(d, s, s)
           /\ \A s, t \in DOMAIN scans : s # t => ListedBefore(d, s, t) \/ ListedBefore(d, t, s)
           /\ \A s, t, u \in DOMAIN scans :
                 ListedBefore(d, s, t) /\ ListedBefore(d, t, u) => ListedBefore(d, s, u)
BY ScansAreFinite DEF ListedBefore

\* Of some scans one is listed first.
LEMMA OneIsFirst ==
    ASSUME GraphInv, NEW d \in BOOLEAN, NEW S, S \subseteq DOMAIN scans
    PROVE  LET below == [s \in S |-> {t \in S : ListedBefore(d, t, s)}] IN
           /\ Cardinality(S) \in Nat
           /\ \A s \in S : Cardinality(below[s]) \in 0..(Cardinality(S) - 1)
           /\ \A s, t \in S : Cardinality(below[s]) = Cardinality(below[t]) => s = t
           /\ S # {} => \E s \in S : \A t \in S \ {s} : ListedBefore(d, s, t)
<1> DEFINE below == [s \in S |-> {t \in S : ListedBefore(d, t, s)}]
<1>0. IsFiniteSet(S)
  BY ScansAreFinite, FS_Subset
<1>1. \A s \in S : below[s] \subseteq S /\ s \notin below[s]
  BY ListIsOrdered
<1>2. \A s, t \in S : s # t => s \in below[t] \/ t \in below[s]
  BY ListIsOrdered
<1>3. \A s, t \in S : s \in below[t] => below[s] \subseteq below[t]
  BY ListIsOrdered
<1>4. \A s, t \in S : t \in below[s] <=> ListedBefore(d, t, s)
  OBVIOUS
<1> HIDE DEF below
<1>5. /\ Cardinality(S) \in Nat
      /\ \A s \in S : IsFiniteSet(below[s]) /\ Cardinality(below[s]) \in 0..(Cardinality(S) - 1)
      /\ \A s, t \in S : Cardinality(below[s]) = Cardinality(below[t]) => s = t
      /\ {Cardinality(below[s]) : s \in S} = 0..(Cardinality(S) - 1)
  BY <1>0, <1>1, <1>2, <1>3, RanksNumber
<1>6. ASSUME S # {} PROVE \E s \in S : \A t \in S \ {s} : ListedBefore(d, s, t)
  <2>1. 0 \in 0..(Cardinality(S) - 1)
    BY <1>0, <1>5, <1>6, FS_EmptySet
  <2>2. PICK s \in S : Cardinality(below[s]) = 0
    BY <1>5, <2>1
  <2>3. below[s] = {}
    BY <1>5, <2>2, FS_EmptySet
  <2>4. QED  BY <1>2, <1>4, <2>3
<1>7. QED  BY <1>5, <1>6 DEF below

\* Every scan is in the list, at its place.
LEMMA ListHoldsAll ==
    ASSUME GraphInv, NEW d \in BOOLEAN
    PROVE  /\ Cardinality(DOMAIN scans) \in Nat
           /\ \A s \in DOMAIN scans :
                 /\ Place(d, s) \in 0..(Cardinality(DOMAIN scans) - 1)
                 /\ Listed(d)[Place(d, s) + 1] = s
<1> DEFINE S == DOMAIN scans
           n == Cardinality(S)
           below == [s \in S |-> {t \in S : ListedBefore(d, t, s)}]
<1>1. \A s \in S : Place(d, s) = Cardinality(below[s])
  BY DEF Place, Preceding
<1>2. /\ n \in Nat
      /\ \A s \in S : Cardinality(below[s]) \in 0..(n - 1)
      /\ \A s, t \in S : Cardinality(below[s]) = Cardinality(below[t]) => s = t
  <2>1. S \subseteq DOMAIN scans
    OBVIOUS
  <2> HIDE DEF S
  <2>2. QED  BY <2>1, OneIsFirst
<1> HIDE DEF below
<1>3. /\ \A s \in S : Place(d, s) \in 0..(n - 1)
      /\ \A s, t \in S : Place(d, s) = Place(d, t) => s = t
  BY <1>1, <1>2
<1>4. ASSUME NEW s \in S PROVE Listed(d)[Place(d, s) + 1] = s
  <2> DEFINE i == Place(d, s) + 1
  <2>1. i \in 1..n /\ i - 1 = Place(d, s)
    BY <1>2, <1>3
  <2>2. Listed(d)[i] = CHOOSE t \in S : Place(d, t) = i - 1
    BY <2>1 DEF Listed, InOrder, Place, Preceding
  <2>3. QED  BY <1>3, <2>1, <2>2
<1>5. QED  BY <1>2, <1>3, <1>4

\* A page begins at its offset, and holds the scans whose places it covers.
LEMMA PageHolds ==
    ASSUME GraphInv, NEW d \in BOOLEAN, NEW offset \in Nat,
           NEW s \in DOMAIN scans, offset \leq Place(d, s)
    PROVE  /\ ToSet(Items(d, offset)) # {}
           /\ Place(d, s) < offset + PageSize => s \in ToSet(Items(d, offset))
<1> DEFINE n == Cardinality(DOMAIN scans)
           last == Min({offset + PageSize, n})
           list == Listed(d)
           items == SubSeq(list, offset + 1, last)
           k == Place(d, s)
<1>1. n \in Nat /\ k \in 0..(n - 1) /\ list[k + 1] = s /\ PageSize \in Nat /\ PageSize > 0
  BY ListHoldsAll, DashboardsAssumption
<1>2. last \in Nat /\ last \leq offset + PageSize /\ last \leq n /\ (last = offset + PageSize \/ last = n)
  <2>1. \E x \in {offset + PageSize, n} : \A y \in {offset + PageSize, n} : x \leq y
    BY <1>1
  <2>2. QED  BY <1>1, <2>1 DEF Min
<1>3. offset + 1 \leq last /\ (k < offset + PageSize => k + 1 \leq last)
  BY <1>1, <1>2
<1>4. /\ items \in Seq({list[i] : i \in (offset + 1)..last})
      /\ Len(items) = last - (offset + 1) + 1
      /\ \A i \in 1..(last - (offset + 1) + 1) : items[i] = list[(offset + 1) + i - 1]
  <2>1. \A i \in (offset + 1)..last : list[i] \in {list[j] : j \in (offset + 1)..last}
    OBVIOUS
  <2>2. offset + 1 \in Int /\ last \in Int
    BY <1>2
  <2> HIDE DEF list, last
  <2>3. QED  BY <1>3, <2>1, <2>2, SubSeqProperties
<1> HIDE DEF list, last, k, n
<1>5. DOMAIN items = 1..(last - offset)
  BY <1>2, <1>4
<1> HIDE DEF items
<1>6. ToSet(items) # {}
  <2>1. 1 \in DOMAIN items
    BY <1>2, <1>3, <1>5
  <2>2. QED  BY <2>1 DEF ToSet
<1>7. ASSUME k < offset + PageSize PROVE s \in ToSet(items)
  <2> DEFINE i == k + 1 - offset
  <2>1. i \in 1..(last - (offset + 1) + 1) /\ (offset + 1) + i - 1 = k + 1
    BY <1>1, <1>2, <1>3, <1>7 DEF k
  <2>2. i \in DOMAIN items
    BY <1>2, <1>5, <2>1
  <2>3. items[i] = s
    BY <1>1, <1>4, <2>1
  <2> HIDE DEF i
  <2>4. QED  BY <2>2, <2>3 DEF ToSet
<1>8. Items(d, offset) = items
  BY DEF Items, items, list, last, n
<1>9. QED  BY <1>6, <1>7, <1>8 DEF k

\* Nobody's place in the list moves forward while scans are requested and settled.
LEMMA PlacesStay ==
    ASSUME GraphInv, GraphInv', DOMAIN scans \subseteq DOMAIN scans',
           \A t \in DOMAIN scans : scans'[t].created = scans[t].created,
           NEW d \in BOOLEAN, NEW s \in DOMAIN scans
    PROVE  Place(d, s) \leq Place(d, s)' /\ Place(d, s) \in Nat /\ Place(d, s)' \in Nat
<1>1. Preceding(d, s) \subseteq Preceding(d, s)'
  BY DEF Preceding, ListedBefore
<1>2. IsFiniteSet(DOMAIN scans)'
  BY ScansAreFinite, PTL
<1>3. Preceding(d, s)' \subseteq DOMAIN scans'
  BY DEF Preceding
<1>4. IsFiniteSet(Preceding(d, s)')
  BY <1>2, <1>3, FS_Subset
<1>5. QED  BY <1>1, <1>4, FS_Subset, FS_CardinalityType DEF Place

LEMMA UnseenStay ==
    ASSUME GraphInv, GraphInv', UnseenAhead, UNCHANGED pager,
           DOMAIN scans \subseteq DOMAIN scans',
           \A t \in DOMAIN scans : scans'[t].created = scans[t].created
    PROVE  UnseenAhead'
<1>1. ASSUME pager.page > 0, NEW s \in pager.unseen
      PROVE  s \in DOMAIN scans' /\ (pager.page - 1) * PageSize \leq Place(pager.descending, s)'
  <2>1. PICK d \in BOOLEAN, offset \in Int : d = pager.descending /\ offset = (pager.page - 1) * PageSize
    BY DashboardsAssumption DEF UnseenAhead
  <2>2. s \in DOMAIN scans /\ s \in DOMAIN scans' /\ offset \leq Place(d, s)
    BY <1>1, <2>1 DEF UnseenAhead
  <2>3. Place(d, s) \leq Place(d, s)' /\ Place(d, s) \in Nat /\ Place(d, s)' \in Nat
    BY <2>2, PlacesStay
  <2>4. offset \leq Place(d, s)'
    BY <2>2, <2>3
  <2>5. Place(pager.descending, s)' = Place(d, s)'
    BY <2>1 DEF Place, Preceding, ListedBefore
  <2>6. QED  BY <2>1, <2>2, <2>4, <2>5
<1>2. QED  BY <1>1 DEF UnseenAhead

\* A page that is read, and what it leaves unseen.
LEMMA PageStep ==
    ASSUME GraphInv, UnseenAhead, ReadPage
    PROVE  UnseenAhead' /\ (pager' = NoList => pager.unseen = {})
<1>0. PICK d \in BOOLEAN, offset \in Int : d = pager.descending /\ offset = (pager.page - 1) * PageSize
  BY DashboardsAssumption DEF UnseenAhead
<1> DEFINE items == ToSet(Page(d, pager.page))
<1>1. /\ pager.page \in Nat /\ pager.page > 0 /\ d \in BOOLEAN
      /\ pager.unseen \subseteq DOMAIN scans /\ \A s \in pager.unseen : offset \leq Place(d, s)
      /\ scans' = scans
  BY <1>0 DEF UnseenAhead, ReadPage, NoList
<1>2. offset \in Nat /\ PageSize \in Nat /\ pager.page * PageSize = offset + PageSize
  <2>1. PageSize \in Nat /\ pager.page - 1 \in Nat
    BY <1>1, DashboardsAssumption
  <2>2. \A x, y \in Nat : x * y \in Nat /\ (x + 1) * y = x * y + y
    OBVIOUS
  <2>3. pager.page = (pager.page - 1) + 1
    BY <1>1
  <2>4. QED  BY <1>0, <2>1, <2>2, <2>3
<1>3. pager' = IF items = {} THEN NoList
               ELSE [pager EXCEPT !.page = @ + 1, !.unseen = @ \ items]
  BY <1>0 DEF ReadPage
<1>4. items = ToSet(Items(d, offset))
  BY <1>0 DEF Page
<1> HIDE DEF items
<1>5. \A s \in pager.unseen : items # {} /\ (Place(d, s) < offset + PageSize => s \in items)
  BY <1>1, <1>2, <1>4, PageHolds
<1>6. CASE items = {}
  <2>1. pager' = NoList /\ pager.unseen = {}
    BY <1>3, <1>5, <1>6
  <2>2. QED  BY <2>1 DEF UnseenAhead, NoList
<1>7. CASE items # {}
  <2>1. /\ pager'.page = pager.page + 1 /\ pager'.descending = d /\ pager'.unseen = pager.unseen \ items
        /\ pager' = [page |-> pager'.page, descending |-> pager'.descending, unseen |-> pager'.unseen]
    BY <1>0, <1>3, <1>7 DEF UnseenAhead
  <2>2. \A s \in pager'.unseen : s \in DOMAIN scans /\ offset + PageSize \leq Place(d, s)
    <3>1. TAKE s \in pager'.unseen
    <3>2. s \in pager.unseen /\ s \notin items /\ s \in DOMAIN scans
      BY <1>1, <2>1
    <3>3. Place(d, s) \in Int /\ ~ Place(d, s) < offset + PageSize
      BY <1>1, <1>5, <3>2, ListHoldsAll
    <3>4. QED  BY <1>2, <3>2, <3>3
  <2>3. (pager'.page - 1) * PageSize = offset + PageSize
    BY <1>1, <1>2, <2>1
  <2>4. \A s \in pager'.unseen : Place(pager.descending, s)' = Place(d, s)
    BY <1>1, <2>1 DEF Place, Preceding, ListedBefore
  <2>5. pager'.page \in Nat /\ pager'.page # 0 /\ pager' # NoList
    BY <1>1, <2>1 DEF NoList
  <2>6. ASSUME NEW s \in pager'.unseen
        PROVE  s \in DOMAIN scans' /\ (pager'.page - 1) * PageSize \leq Place(pager.descending, s)'
    BY <1>1, <2>2, <2>3, <2>4
  <2>7. UnseenAhead'
    BY <2>1, <2>5, <2>6 DEF UnseenAhead
  <2>8. QED  BY <2>5, <2>7
<1>8. QED  BY <1>6, <1>7

\* The steps other than those of the client keep the times of the scans.
LEMMA TimesStay ==
    ASSUME GraphInv,
           \/ Tick \/ ReadGraph \/ CloseGraph \/ UNCHANGED vars
           \/ \E s \in Ids : Request(s)
           \/ \E s \in DOMAIN scans : Start(s) \/ Succeed(s) \/ OpenGraph(s)
           \/ \E s \in DOMAIN scans, status \in {"failed", "cancelled"} : GiveUp(s, status)
    PROVE  /\ UNCHANGED pager /\ DOMAIN scans \subseteq DOMAIN scans'
           /\ \A t \in DOMAIN scans : scans'[t].created = scans[t].created
<1>1. CASE Tick \/ ReadGraph \/ CloseGraph \/ (\E s \in DOMAIN scans : OpenGraph(s)) \/ UNCHANGED vars
  BY <1>1 DEF Tick, ReadGraph, CloseGraph, OpenGraph, vars
<1>2. CASE \E s \in Ids : Request(s)
  BY <1>2 DEF Request, GraphInv, TypeOK
<1>3. CASE \E s \in DOMAIN scans :
             Start(s) \/ Succeed(s) \/ \E status \in {"failed", "cancelled"} : GiveUp(s, status)
  <2>1. PICK s \in DOMAIN scans :
          Start(s) \/ Succeed(s) \/ \E status \in {"failed", "cancelled"} : GiveUp(s, status)
    BY <1>3
  <2>2. UNCHANGED pager
    BY <2>1 DEF Start, Succeed, GiveUp
  <2>3. PICK row : scans' = [scans EXCEPT ![s] = row] /\ row.created = scans[s].created
    <3>1. Row(scans[s])
      BY DEF GraphInv, Rows
    <3>2. CASE Start(s)
      <4> DEFINE new == [scans[s] EXCEPT !.status = "running", !.started = clock]
      <4>1. new.created = scans[s].created /\ scans' = [scans EXCEPT ![s] = new]
        BY <3>1, <3>2 DEF Row, Start
      <4>2. QED  BY <4>1
    <3>3. CASE Succeed(s)
      <4>1. PICK analysis : scans' = [scans EXCEPT ![s].status = "succeeded", ![s].finished = clock,
                                                   ![s].analysis = analysis]
        BY <3>3 DEF Succeed
      <4> DEFINE new == [scans[s] EXCEPT !.status = "succeeded", !.finished = clock, !.analysis = analysis]
      <4>2. new.created = scans[s].created /\ scans' = [scans EXCEPT ![s] = new]
        BY <3>1, <4>1 DEF Row
      <4>3. QED  BY <4>2
    <3>4. CASE \E status \in {"failed", "cancelled"} : GiveUp(s, status)
      <4>0. PICK status \in {"failed", "cancelled"} : GiveUp(s, status)
        BY <3>4
      <4>1. PICK finished : scans' = [scans EXCEPT ![s].status = status, ![s].finished = finished]
        BY <4>0 DEF GiveUp
      <4> DEFINE new == [scans[s] EXCEPT !.status = status, !.finished = finished]
      <4>2. new.created = scans[s].created /\ scans' = [scans EXCEPT ![s] = new]
        BY <3>1, <4>1 DEF Row
      <4>3. QED  BY <4>2
    <3>5. QED  BY <2>1, <3>2, <3>3, <3>4
  <2>4. QED  BY <2>2, <2>3 DEF GraphInv, Rows
<1>4. QED  BY <1>1, <1>2, <1>3

LEMMA UnseenStep ==
    ASSUME GraphInv, GraphInv', UnseenAhead, [Next]_vars
    PROVE  /\ UnseenAhead'
           /\ [pager # NoList /\ pager' = NoList => pager.unseen = {}]_vars
<1>1. CASE \/ Tick \/ ReadGraph \/ CloseGraph \/ UNCHANGED vars
           \/ \E s \in Ids : Request(s)
           \/ \E s \in DOMAIN scans : Start(s) \/ Succeed(s) \/ OpenGraph(s)
           \/ \E s \in DOMAIN scans, status \in {"failed", "cancelled"} : GiveUp(s, status)
  <2>1. /\ UNCHANGED pager /\ DOMAIN scans \subseteq DOMAIN scans'
        /\ \A t \in DOMAIN scans : scans'[t].created = scans[t].created
    BY <1>1, TimesStay
  <2>2. UnseenAhead'
    BY <2>1, UnseenStay
  <2>3. QED  BY <2>1, <2>2
<1>2. CASE \E p \in Projects : DeleteProject(p)
  <2>1. pager' = [pager EXCEPT !.unseen = {}]
    BY <1>2 DEF DeleteProject
  <2>2. /\ pager'.page = pager.page /\ pager'.descending = pager.descending /\ pager'.unseen = {}
        /\ pager' = [page |-> pager'.page, descending |-> pager'.descending, unseen |-> pager'.unseen]
    BY <2>1 DEF UnseenAhead
  <2>3. UnseenAhead'
    BY <2>2 DEF UnseenAhead, NoList
  <2>4. pager # NoList => pager' # NoList
    BY <2>2 DEF UnseenAhead, NoList
  <2>5. QED  BY <2>3, <2>4
<1>3. CASE \E descending \in BOOLEAN : OpenList(descending)
  <2>1. PICK descending \in BOOLEAN :
          pager = NoList /\ pager' = [page |-> 1, descending |-> descending, unseen |-> DOMAIN scans]
          /\ scans' = scans
    BY <1>3 DEF OpenList, MayRead, NoReader
  <2>2. \A s \in DOMAIN scans : (1 - 1) * PageSize \leq Place(descending, s)
    BY ListHoldsAll, DashboardsAssumption
  <2>3. \A s \in DOMAIN scans : Place(pager.descending, s)' = Place(descending, s)
    BY <2>1 DEF Place, Preceding, ListedBefore
  <2>4. UnseenAhead'
    BY <2>1, <2>2, <2>3 DEF UnseenAhead
  <2>5. QED  BY <2>1, <2>4
<1>4. CASE ReadPage
  BY <1>4, PageStep
<1>5. QED  BY <1>1, <1>2, <1>3, <1>4 DEF Next

LEMMA UnseenInit == Init => UnseenAhead
BY DEF Init, UnseenAhead, NoList

\* A client that goes through the list page by page, the newest or the oldest scans
\* first, has seen all that were there when it began, however many scans are
\* requested and settled between two pages, unless a project is deleted
\* (ScansRepository.list_scans).
THEOREM NoScanIsSkipped == Spec => PagesMissNothing
<1>1. GraphInv /\ GraphInv' /\ UnseenAhead /\ [Next]_vars
        => /\ UnseenAhead'
           /\ [pager # NoList /\ pager' = NoList => pager.unseen = {}]_vars
  BY UnseenStep
<1>2. QED  BY <1>1, UnseenInit, GraphInvariant, PTL DEF Spec, PagesMissNothing

-----------------------------------------------------------------------------
(* Every scan is counted once.                                             *)

\* Two periods next to each other.
LEMMA PeriodsAddUp ==
    ASSUME GraphInv, NEW a \in Int, NEW b \in Int, NEW c \in Int, a \leq b, b \leq c
    PROVE  CountScans(b, c) + CountScans(a, b) = CountScans(a, c)
<1> DEFINE In(x, y) == {s \in DOMAIN scans : x \leq scans[s].created /\ scans[s].created < y}
<1>1. In(b, c) \cup In(a, b) = In(a, c) /\ In(b, c) \cap In(a, b) = {}
  BY ScansAreFinite
<1>2. \A x, y \in Int : IsFiniteSet(In(x, y)) /\ CountScans(x, y) = Cardinality(In(x, y))
  BY ScansAreFinite, FS_Subset DEF CountScans
<1> HIDE DEF In
<1>3. Cardinality(In(b, c) \cup In(a, b))
        = Cardinality(In(b, c)) + Cardinality(In(a, b)) - Cardinality(In(b, c) \cap In(a, b))
  BY <1>2, FS_Union
<1>4. Cardinality(In(b, c)) \in Nat /\ Cardinality(In(a, b)) \in Nat
  BY <1>2, FS_CardinalityType
<1>5. CountScans(b, c) = Cardinality(In(b, c)) /\ CountScans(a, b) = Cardinality(In(a, b))
      /\ CountScans(a, c) = Cardinality(In(a, c))
  BY <1>2
<1>6. Cardinality(In(a, c)) = Cardinality(In(b, c)) + Cardinality(In(a, b)) - 0
  BY <1>1, <1>3, FS_EmptySet
<1>7. QED  BY <1>4, <1>5, <1>6

\* The distribution over all projects, and the statuses of one project.
LEMMA ProjectsAddUp ==
    ASSUME GraphInv, NEW status \in Statuses
    PROVE  StatusDistribution[status] = SumFunction([p \in Projects |-> CountByStatus(p, status)])
<1> DEFINE S == {s \in DOMAIN scans : Status(s) = status}
           parts == [p \in Projects |-> {s \in S : ProjectOf[s] = p}]
           counts == [p \in Projects |-> CountByStatus(p, status)]
<1>1. IsFiniteSet(S) /\ IsFiniteSet(Projects)
  <2>1. [s \in Ids |-> ProjectOf[s]] \in Surjection(Ids, Projects)
    BY DEF Projects, Surjection
  <2>2. QED  BY <2>1, ScansAreFinite, DashboardsAssumption, FS_Subset, FS_Surjection
<1>2. \A s \in S : ProjectOf[s] \in Projects
  BY DEF GraphInv, TypeOK, Projects
<1>3. \A p \in Projects : counts[p] = Cardinality(parts[p])
  <2>1. \A p : {s \in DOMAIN scans : ProjectOf[s] = p /\ Status(s) = status} = {s \in S : ProjectOf[s] = p}
    OBVIOUS
  <2>2. QED  BY <2>1 DEF CountByStatus
<1>4. StatusDistribution[status] = Cardinality(S) /\ SumFunction(counts) = SumFunctionOnSet(counts, Projects)
  BY DEF StatusDistribution, Statuses, SumFunction
<1>5. \A p \in Projects : \A s : s \in parts[p] <=> s \in S /\ ProjectOf[s] = p
  OBVIOUS
<1> HIDE DEF S, parts, counts
<1>6. SumFunctionOnSet(counts, Projects) = Cardinality(S)
  BY <1>1, <1>2, <1>3, <1>5, CountByValues
<1>7. QED  BY <1>4, <1>6 DEF counts

\* A moment is of one of some days when it lies between their midnights.
LEMMA Midnights ==
    ASSUME NEW t \in Nat, NEW a \in Int, NEW b \in Int
    PROVE  /\ Day(t) \in Int
           /\ t >= a * DayLength /\ t < (b + 1) * DayLength <=> a \leq Day(t) /\ Day(t) \leq b
<1> DEFINE q == Day(t)
<1>1. DayLength \in Int /\ DayLength > 0 /\ t \in Int
  BY DashboardsAssumption
<1>2. q \in Int /\ DayLength * q \leq t /\ t < DayLength * q + DayLength
  BY <1>1, Quotient DEF Day
<1> HIDE DEF q
<1>3. \A x, y, l \in Int : l > 0 /\ x \leq y => x * l \leq l * y
  OBVIOUS
<1>4. a \leq q => a * DayLength \leq t
  <2>1. ASSUME a \leq q PROVE a * DayLength \leq t
    <3>1. a * DayLength \leq DayLength * q
      BY <1>1, <1>2, <1>3, <2>1
    <3>2. a * DayLength \in Int /\ DayLength * q \in Int
      BY <1>1, <1>2
    <3>3. QED  BY <1>1, <1>2, <3>1, <3>2
  <2>2. QED  BY <2>1
<1>5. a * DayLength \leq t => a \leq q
  BY <1>1, QuotientBetween DEF q, Day
<1>6. t < (b + 1) * DayLength => q \leq b
  <2>1. ASSUME t < (b + 1) * DayLength, b + 1 \leq q PROVE FALSE
    <3>1. (b + 1) * DayLength \leq DayLength * q
      BY <1>1, <1>2, <1>3, <2>1
    <3>2. (b + 1) * DayLength \in Int /\ DayLength * q \in Int
      BY <1>1, <1>2
    <3>3. QED  BY <1>1, <1>2, <2>1, <3>1, <3>2
  <2>2. QED  BY <1>2, <2>1
<1>7. q \leq b => t < (b + 1) * DayLength
  <2>1. ASSUME q \leq b PROVE t < (b + 1) * DayLength
    <3>1. q * DayLength \leq DayLength * b
      BY <1>1, <1>2, <1>3, <2>1
    <3>2. q * DayLength = DayLength * q /\ (b + 1) * DayLength = DayLength * b + DayLength
          /\ DayLength * q \in Int /\ DayLength * b \in Int
      BY <1>1, <1>2
    <3>3. QED  BY <1>1, <1>2, <3>1, <3>2
  <2>2. QED  BY <2>1
<1>8. a * DayLength \in Int /\ (b + 1) * DayLength \in Int
  BY <1>1
<1>9. QED  BY <1>1, <1>2, <1>4, <1>5, <1>6, <1>7, <1>8 DEF q

LEMMA DaysAddUp ==
    ASSUME GraphInv, NEW p
    PROVE  LET days == ScansOverTime(p, clock) IN
           SumFunction(days)
             = Cardinality({s \in DOMAIN scans : ProjectOf[s] = p /\ Day(scans[s].created) \in DOMAIN days})
<1> DEFINE days == ScansOverTime(p, clock)
           start == Day(clock) - (TimelineDays - 1)
           T == start..Day(clock)
           counted == {s \in DOMAIN scans : /\ ProjectOf[s] = p
                                            /\ scans[s].created >= start * DayLength
                                            /\ scans[s].created < (Day(clock) + 1) * DayLength}
           S == {s \in DOMAIN scans : ProjectOf[s] = p /\ Day(scans[s].created) \in T}
           f == [s \in S |-> Day(scans[s].created)]
           parts == [day \in T |-> {s \in S : Day(scans[s].created) = day}]
<1>1. clock \in Nat /\ Day(clock) \in Int /\ start \in Int /\ IsFiniteSet(T)
  <2>1. clock \in Nat /\ TimelineDays \in Int
    BY DashboardsAssumption DEF GraphInv, TypeOK
  <2>2. Day(clock) \in Int
    BY <2>1, Midnights
  <2>3. QED  BY <2>1, <2>2, FS_Interval
<1>2. counted = S
  <2>1. ASSUME NEW s \in DOMAIN scans
        PROVE  /\ scans[s].created >= start * DayLength /\ scans[s].created < (Day(clock) + 1) * DayLength
               <=> Day(scans[s].created) \in T
    <3>1. scans[s].created \in Nat
      BY ScansAreFinite
    <3> HIDE DEF start
    <3>2. Day(scans[s].created) \in Int
          /\ (scans[s].created >= start * DayLength /\ scans[s].created < (Day(clock) + 1) * DayLength
               <=> start \leq Day(scans[s].created) /\ Day(scans[s].created) \leq Day(clock))
      BY <1>1, <3>1, Midnights
    <3>3. QED  BY <1>1, <3>2
  <2> HIDE DEF start, T
  <2>2. QED  BY <2>1
<1>3. days = [day \in T |-> Cardinality({s \in counted : Day(scans[s].created) = day})]
  BY DEF ScansOverTime
<1> HIDE DEF T, counted, days
<1>4. DOMAIN days = T /\ \A day \in T : days[day] = Cardinality(parts[day])
  BY <1>2, <1>3
<1>5. IsFiniteSet(S) /\ \A s \in S : f[s] \in T
  BY ScansAreFinite, FS_Subset
<1>6. \A day \in T : \A s : s \in parts[day] <=> s \in S /\ f[s] = day
  OBVIOUS
<1>7. SumFunctionOnSet(days, T) = Cardinality(S)
  <2> HIDE DEF S, parts, f
  <2>1. QED  BY <1>1, <1>4, <1>5, <1>6, CountByValues
<1>8. SumFunction(days) = Cardinality(S)
  BY <1>4, <1>7 DEF SumFunction
<1>9. QED  BY <1>4, <1>8 DEF days

LEMMA StatusesAddUp ==
    ASSUME GraphInv, NEW p
    PROVE  LET counts == StatusCounts(p) IN
           /\ AdminProject(p).scan_count = counts["total"]
           /\ counts["total"] = SumFunctionOnSet(counts, DOMAIN counts \ {"total"})
                                + CountByStatus(p, "cancelled")
<1> DEFINE counts == StatusCounts(p)
           own == {s \in DOMAIN scans : ProjectOf[s] = p}
           all == [status \in Statuses |-> CountByStatus(p, status)]
           parts == [status \in Statuses |-> {s \in own : Status(s) = status}]
           f == [s \in own |-> Status(s)]
           four == {"succeeded", "pending", "failed", "running"}
<1>1. IsFiniteSet(own) /\ IsFiniteSet(Statuses) /\ \A s \in own : f[s] \in Statuses
  <2>1. IsFiniteSet({"pending"}) /\ IsFiniteSet({"running"}) /\ IsFiniteSet({"succeeded"})
        /\ IsFiniteSet({"failed"}) /\ IsFiniteSet({"cancelled"})
    BY FS_Singleton
  <2>2. Statuses = {"pending"} \cup ({"running"} \cup ({"succeeded"} \cup ({"failed"} \cup {"cancelled"})))
    BY DEF Statuses
  <2>3. IsFiniteSet(Statuses)
    BY <2>1, <2>2, FS_Union
  <2>4. QED  BY <2>3, ScansAreFinite, FS_Subset
<1>2. \A status \in Statuses : all[status] = Cardinality(parts[status]) /\ all[status] \in Nat
  <2>1. \A status : {s \in DOMAIN scans : ProjectOf[s] = p /\ Status(s) = status} = {s \in own : Status(s) = status}
    OBVIOUS
  <2>2. \A status \in Statuses : IsFiniteSet(parts[status])
    BY <1>1, FS_Subset
  <2>3. QED  BY <2>1, <2>2, FS_CardinalityType DEF CountByStatus
<1>3. \A status \in Statuses : \A s : s \in parts[status] <=> s \in own /\ f[s] = status
  OBVIOUS
<1>4. SumFunctionOnSet(all, Statuses) = Cardinality(own)
  <2> HIDE DEF all, own, parts, f
  <2>1. QED  BY <1>1, <1>2, <1>3, CountByValues
<1>5. /\ DOMAIN counts = four \cup {"total"} /\ counts["total"] = Cardinality(own)
      /\ \A status \in four : counts[status] = CountByStatus(p, status)
  BY DEF StatusCounts
<1>6. four \cup {"cancelled"} = Statuses /\ four \cap {"cancelled"} = {} /\ DOMAIN counts \ {"total"} = four
      /\ all["cancelled"] = CountByStatus(p, "cancelled")
      /\ \A status \in four : counts[status] = all[status]
  BY <1>5 DEF Statuses
<1>7. AdminProject(p).scan_count = Cardinality(own)
  BY DEF AdminProject
<1> HIDE DEF counts, all, own, parts, f, four
<1>8. IsFiniteSet(four) /\ IsFiniteSet({"cancelled"}) /\ \A status \in four : all[status] \in Int /\ counts[status] = all[status]
  BY <1>1, <1>2, <1>6, FS_Subset, FS_Singleton
<1>9. SumFunctionOnSet(counts, four) = SumFunctionOnSet(all, four)
  BY <1>8, SumSame
<1>10. SumFunctionOnSet(all, {"cancelled"}) = all["cancelled"]
  <2>1. "cancelled" \in Statuses
    BY <1>6
  <2>2. all["cancelled"] \in Int
    BY <1>2, <2>1
  <2>3. QED  BY <2>2, SumOfOne
<1>11. SumFunctionOnSet(all, Statuses) = SumFunctionOnSet(all, four) + SumFunctionOnSet(all, {"cancelled"})
  <2>1. \A status \in four \cup {"cancelled"} : all[status] \in Int
    BY <1>2, <1>6
  <2>2. SumFunctionOnSet(all, four \cup {"cancelled"})
          = SumFunctionOnSet(all, four) + SumFunctionOnSet(all, {"cancelled"})
    BY <1>6, <1>8, <2>1, SumUnion
  <2>3. QED  BY <1>6, <2>2
<1>12. QED  BY <1>4, <1>5, <1>6, <1>7, <1>9, <1>10, <1>11 DEF counts

\* The status of a project with scans is that of one of them.
LEMMA StatusIsOfAScan ==
    ASSUME GraphInv, NEW p, StatusCounts(p)["total"] > 0
    PROVE  CountByStatus(p, ProjectStatus(p)) > 0
<1> DEFINE own == {s \in DOMAIN scans : ProjectOf[s] = p}
           with(status) == {s \in own : Status(s) = status}
<1>1. IsFiniteSet(own) /\ own # {}
  <2>1. StatusCounts(p)["total"] = Cardinality(own)
    BY DEF StatusCounts
  <2>2. QED  BY <2>1, ScansAreFinite, FS_Subset, FS_EmptySet
<1>2. ASSUME NEW status, NEW s \in own, Status(s) = status PROVE CountByStatus(p, status) > 0
  <2>1. CountByStatus(p, status) = Cardinality(with(status))
    <3>1. {t \in DOMAIN scans : ProjectOf[t] = p /\ Status(t) = status} = with(status)
      OBVIOUS
    <3>2. QED  BY <3>1 DEF CountByStatus
  <2>2. IsFiniteSet(with(status)) /\ with(status) # {}
    BY <1>1, <1>2, FS_Subset
  <2> HIDE DEF with
  <2>3. QED  BY <2>1, <2>2, FS_CardinalityType, FS_EmptySet
<1>3. CASE CountByStatus(p, "running") > 0
  BY <1>3 DEF ProjectStatus
<1>4. CASE ~ CountByStatus(p, "running") > 0
  <2> DEFINE newest == CHOOSE s \in own : \A t \in own \ {s} : ListedBefore(TRUE, s, t)
  <2>1. own \subseteq DOMAIN scans /\ TRUE \in BOOLEAN
    OBVIOUS
  <2>2. \E s \in own : \A t \in own \ {s} : ListedBefore(TRUE, s, t)
    <3> HIDE DEF own
    <3>1. QED  BY <1>1, <2>1, OneIsFirst
  <2>3. newest \in own
    <3> HIDE DEF own
    <3>1. QED  BY <2>2
  <2>4. ProjectStatus(p) = Status(newest)
    BY <1>4 DEF ProjectStatus
  <2> HIDE DEF newest
  <2>5. QED  BY <1>2, <2>3, <2>4
<1>5. QED  BY <1>3, <1>4

LEMMA EachCountedOnce == ASSUME GraphInv PROVE CountedOnce
<1>1. LET kpi == ScanKpi(clock) IN
      kpi.current_period_count + kpi.previous_period_count = CountScans(clock - 2 * KpiPeriod, clock)
  <2> DEFINE K == KpiPeriod
             a == clock - 2 * K
             b == clock - K
  <2>1. K \in Nat /\ clock \in Nat
    BY DashboardsAssumption DEF GraphInv, TypeOK
  <2>2. a \in Int /\ b \in Int /\ clock \in Int /\ a \leq b /\ b \leq clock
    BY <2>1
  <2>3. /\ ScanKpi(clock).current_period_count = CountScans(b, clock)
        /\ ScanKpi(clock).previous_period_count = CountScans(a, b)
    BY DEF ScanKpi, Metric
  <2> HIDE DEF a, b
  <2>4. CountScans(b, clock) + CountScans(a, b) = CountScans(a, clock)
    <3>1. PICK now \in Int : now = clock
      BY <2>2
    <3>2. QED  BY <2>2, <3>1, PeriodsAddUp
  <2>5. QED  BY <2>3, <2>4 DEF a
<1>2. \A status \in DOMAIN StatusDistribution :
        StatusDistribution[status] = SumFunction([p \in Projects |-> CountByStatus(p, status)])
  <2>1. DOMAIN StatusDistribution = Statuses
    BY DEF StatusDistribution, Statuses
  <2>2. QED  BY <2>1, ProjectsAddUp
<1>3. ASSUME NEW p \in Projects
      PROVE  LET counts == StatusCounts(p)
                 days   == ScansOverTime(p, clock) IN
             /\ AdminProject(p).scan_count = counts["total"]
             /\ SumFunction(days)
                  = Cardinality({s \in DOMAIN scans : ProjectOf[s] = p /\ Day(scans[s].created) \in DOMAIN days})
             /\ counts["total"] = SumFunctionOnSet(counts, DOMAIN counts \ {"total"})
                                  + CountByStatus(p, "cancelled")
             /\ counts["total"] > 0 => CountByStatus(p, ProjectStatus(p)) > 0
  BY StatusesAddUp, DaysAddUp, StatusIsOfAScan
<1>4. QED  BY <1>1, <1>2, <1>3 DEF CountedOnce

\* Every scan is counted once, whatever is requested, settled and deleted: by two
\* periods next to each other, by the days shown, by the statuses of its project,
\* and by the projects (AnalyticsService, ScanService, ProjectRepository).
THEOREM ScansCountedOnce == Spec => []CountedOnce
<1>1. GraphInv => CountedOnce
  BY EachCountedOnce
<1>2. QED  BY <1>1, GraphInvariant, PTL
-----------------------------------------------------------------------------
(* Lists in an order.                                                      *)

\* below[x] are those of S that come before x, of any two of S one.
Orders(S, below) ==
    /\ IsFiniteSet(S)
    /\ \A x \in S : below[x] \subseteq S /\ x \notin below[x]
    /\ \A x, y \in S : x # y => x \in below[y] \/ y \in below[x]
    /\ \A x, y \in S : x \in below[y] => below[x] \subseteq below[y]

\* What ORDER BY puts in each place, if there is such an element.
Lists(seq, S, below) ==
    /\ seq = [i \in 1..Cardinality(S) |-> seq[i]]
    /\ \A i \in 1..Cardinality(S) :
          (\E x \in S : Cardinality(below[x]) = i - 1) =>
              seq[i] \in S /\ Cardinality(below[seq[i]]) = i - 1

LEMMA ListInOrder ==
    ASSUME NEW S, NEW below, Orders(S, below), NEW seq, Lists(seq, S, below)
    PROVE  /\ Cardinality(S) \in Nat /\ seq \in Seq(S) /\ Len(seq) = Cardinality(S)
           /\ \A x \in S : Cardinality(below[x]) \in 0..(Cardinality(S) - 1) /\ seq[Cardinality(below[x]) + 1] = x
           /\ \A i \in 1..Len(seq) : seq[i] \in S /\ Cardinality(below[seq[i]]) = i - 1
           /\ \A x, y \in S : y \in below[x] <=> Cardinality(below[y]) < Cardinality(below[x])
<1> DEFINE n == Cardinality(S)
<1>1. /\ n \in Nat
      /\ \A x \in S : IsFiniteSet(below[x]) /\ Cardinality(below[x]) \in 0..(n - 1)
      /\ \A x, y \in S : Cardinality(below[x]) = Cardinality(below[y]) => x = y
      /\ {Cardinality(below[x]) : x \in S} = 0..(n - 1)
  BY RanksNumber DEF Orders
<1>2. ASSUME NEW i \in 1..n PROVE seq[i] \in S /\ Cardinality(below[seq[i]]) = i - 1
  <2>1. i - 1 \in 0..(n - 1)
    BY <1>1
  <2>2. \E x \in S : Cardinality(below[x]) = i - 1
    BY <1>1, <2>1
  <2>3. QED  BY <2>2 DEF Lists
<1>3. ASSUME NEW x \in S PROVE Cardinality(below[x]) \in 0..(n - 1) /\ seq[Cardinality(below[x]) + 1] = x
  <2> DEFINE i == Cardinality(below[x]) + 1
  <2>1. i \in 1..n /\ i - 1 = Cardinality(below[x])
    BY <1>1
  <2>2. seq[i] \in S /\ Cardinality(below[seq[i]]) = Cardinality(below[x])
    BY <1>2, <2>1
  <2>3. QED  BY <1>1, <2>2
<1>4. seq \in Seq(S) /\ Len(seq) = n
  <2>1. seq \in [1..n -> S]
    BY <1>2 DEF Lists
  <2> HIDE DEF n
  <2>2. QED  BY <1>1, <2>1, SeqDef
<1>5. ASSUME NEW x \in S, NEW y \in S
      PROVE  y \in below[x] <=> Cardinality(below[y]) < Cardinality(below[x])
  <2>0. Cardinality(below[x]) \in Nat /\ Cardinality(below[y]) \in Nat
    BY <1>1
  <2>1. \A u, v \in S : u \in below[v] => Cardinality(below[u]) < Cardinality(below[v])
    <3>1. SUFFICES ASSUME NEW u \in S, NEW v \in S, u \in below[v]
                   PROVE  Cardinality(below[u]) < Cardinality(below[v])
      OBVIOUS
    <3>2. below[u] \subseteq below[v] /\ u \notin below[u]
      BY <3>1 DEF Orders
    <3>3. Cardinality(below[u]) \leq Cardinality(below[v]) /\ Cardinality(below[u]) # Cardinality(below[v])
      BY <1>1, <3>1, <3>2, FS_Subset
    <3>4. Cardinality(below[u]) \in Nat /\ Cardinality(below[v]) \in Nat
      BY <1>1
    <3>5. QED  BY <3>3, <3>4
  <2>2. x # y => x \in below[y] \/ y \in below[x]
    BY DEF Orders
  <2>3. QED  BY <2>0, <2>1, <2>2
<1>6. QED  BY <1>1, <1>2, <1>3, <1>4, <1>5

\* The first k of a list are those with fewer than k before them.
LEMMA FirstInOrder ==
    ASSUME NEW S, NEW below, Orders(S, below), NEW seq, Lists(seq, S, below), NEW k \in Nat,
           NEW first, first = FirstOf(seq, k)
    PROVE  /\ first \in Seq(S) /\ DOMAIN first = 1..Len(first)
           /\ Len(first) \in Nat /\ Len(first) = IF k \leq Cardinality(S) THEN k ELSE Cardinality(S)
           /\ \A i \in 1..Len(first) : first[i] \in S /\ Cardinality(below[first[i]]) = i - 1
           /\ \A x \in S : x \in ToSet(first) <=> Cardinality(below[x]) < k
           /\ \A x \in S : Cardinality(below[x]) < k =>
                 Cardinality(below[x]) + 1 \in 1..Len(first) /\ first[Cardinality(below[x]) + 1] = x
           /\ ToSet(first) \subseteq S
<1> DEFINE n == Cardinality(S)
           last == Min({k, Len(seq)})
<1>1. /\ n \in Nat /\ seq \in Seq(S) /\ Len(seq) = n
      /\ \A x \in S : Cardinality(below[x]) \in 0..(n - 1) /\ seq[Cardinality(below[x]) + 1] = x
      /\ \A i \in 1..n : seq[i] \in S /\ Cardinality(below[seq[i]]) = i - 1
  <2>1. n \in Nat /\ seq \in Seq(S) /\ Len(seq) = n
    BY ListInOrder
  <2>2. \A x \in S : Cardinality(below[x]) \in 0..(n - 1) /\ seq[Cardinality(below[x]) + 1] = x
    BY ListInOrder
  <2>3. \A i \in 1..Len(seq) : seq[i] \in S /\ Cardinality(below[seq[i]]) = i - 1
    BY ListInOrder
  <2>4. QED  BY <2>1, <2>2, <2>3
<1>2. last \in Nat /\ last \leq k /\ last \leq n /\ (last = k \/ last = n)
  <2>1. \E x \in {k, n} : \A y \in {k, n} : x \leq y
    BY <1>1
  <2>2. last = Min({k, n})
    BY <1>1
  <2>3. QED  BY <1>1, <2>1, <2>2 DEF Min
<1> HIDE DEF n, last
<1>3. /\ first \in Seq(S) /\ Len(first) = last
      /\ \A i \in 1..last : first[i] = seq[i]
  <2>1. \A i \in 1..last : seq[i] \in S
    BY <1>1, <1>2
  <2>2. 1 \in Int /\ last \in Int /\ first = SubSeq(seq, 1, last)
    BY <1>2 DEF FirstOf, last
  <2>3. /\ SubSeq(seq, 1, last) \in Seq(S)
        /\ Len(SubSeq(seq, 1, last)) = IF 1 \leq last THEN last - 1 + 1 ELSE 0
        /\ \A i \in 1..(last - 1 + 1) : SubSeq(seq, 1, last)[i] = seq[1 + i - 1]
    BY <2>1, <2>2, SubSeqProperties
  <2>4. last - 1 + 1 = last /\ (IF 1 \leq last THEN last - 1 + 1 ELSE 0) = last
        /\ \A i \in 1..last : 1 + i - 1 = i
    BY <1>2
  <2>5. QED  BY <2>2, <2>3, <2>4
<1>4. DOMAIN first = 1..last
  BY <1>3
<1>5. \A i \in 1..last : first[i] \in S /\ Cardinality(below[first[i]]) = i - 1 /\ i - 1 < k
  <2>1. \A i \in 1..last : i \in 1..n /\ i - 1 < k
    BY <1>1, <1>2
  <2>2. QED  BY <1>1, <1>3, <2>1
<1>6. ASSUME NEW x \in S, Cardinality(below[x]) < k
      PROVE  Cardinality(below[x]) + 1 \in 1..last /\ first[Cardinality(below[x]) + 1] = x
  <2>1. Cardinality(below[x]) + 1 \in 1..last
    BY <1>1, <1>2, <1>6
  <2>2. QED  BY <1>1, <1>3, <2>1
<1>7. ToSet(first) \subseteq S /\ \A x \in S : x \in ToSet(first) <=> Cardinality(below[x]) < k
  BY <1>4, <1>5, <1>6 DEF ToSet
<1>8. last = IF k \leq n THEN k ELSE n
  BY <1>1, <1>2
<1>9. QED  BY <1>2, <1>3, <1>4, <1>5, <1>6, <1>7, <1>8 DEF n
LEMMA CountPlaces ==
    ASSUME NEW m \in Nat, NEW seq, DOMAIN seq = 1..m, \A i, j \in 1..m : seq[i] = seq[j] => i = j
    PROVE  IsFiniteSet(ToSet(seq)) /\ Cardinality(ToSet(seq)) = m
<1> DEFINE f == [i \in 1..m |-> seq[i]]
<1>1. f \in Bijection(1..m, ToSet(seq))
  <2>1. f \in [1..m -> ToSet(seq)] /\ IsInjective(f)
    BY DEF ToSet, IsInjective
  <2>2. \A y \in ToSet(seq) : \E i \in 1..m : f[i] = y
    BY DEF ToSet
  <2> HIDE DEF f
  <2>3. QED  BY <2>1, <2>2 DEF Bijection, Injection, Surjection
<1>2. IsFiniteSet(1..m) /\ Cardinality(1..m) = m
  BY FS_Interval
<1> HIDE DEF f
<1>3. ExistsBijection(1..m, ToSet(seq))
  BY <1>1 DEF ExistsBijection
<1>4. QED  BY <1>2, <1>3, FS_Bijection

\* The orders of the queries.
BeforeIn(S, Before(_, _)) == [x \in S |-> {y \in S : Before(y, x)}]

LEMMA FinishOrder ==
    ASSUME GraphInv, NEW S, S \subseteq DOMAIN scans, \A s \in S : scans[s].finished # None
    PROVE  /\ Orders(S, BeforeIn(S, FinishedAfter))
           /\ Lists(InOrder(S, FinishedAfter), S, BeforeIn(S, FinishedAfter))
<1>1. IsFiniteSet(S) /\ \A s \in S : s \in Nat /\ scans[s].finished \in Nat
  BY ScansAreFinite, FS_Subset DEF GraphInv, Rows, Row
<1>2. /\ \A s \in S : ~ FinishedAfter(s, s)
      /\ \A s, t \in S : s # t => FinishedAfter(s, t) \/ FinishedAfter(t, s)
      /\ \A s, t, u \in S : FinishedAfter(s, t) /\ FinishedAfter(t, u) => FinishedAfter(s, u)
  BY <1>1 DEF FinishedAfter
<1>3. Orders(S, BeforeIn(S, FinishedAfter))
  BY <1>1, <1>2 DEF Orders, BeforeIn
<1>4. Lists(InOrder(S, FinishedAfter), S, BeforeIn(S, FinishedAfter))
  <2> DEFINE list == InOrder(S, FinishedAfter)
             below == BeforeIn(S, FinishedAfter)
             P(x, i) == Cardinality({y \in S : FinishedAfter(y, x)}) = i - 1
  <2>1. list = [i \in 1..Cardinality(S) |-> CHOOSE x \in S : P(x, i)]
    BY DEF InOrder
  <2>2. \A x \in S : \A i \in 1..Cardinality(S) : P(x, i) <=> Cardinality(below[x]) = i - 1
    BY DEF BeforeIn
  <2> HIDE DEF list, below, P
  <2>3. QED  BY <2>1, <2>2 DEF Lists, list, below
<1>5. QED  BY <1>3, <1>4

LEMMA FilesAreFinite ==
    ASSUME GraphInv, NEW s \in DOMAIN scans
    PROVE  /\ IsFiniteSet(FilesOf(s)) /\ Cardinality(FilesOf(s)) \in Nat
           /\ \A f \in FilesOf(s) : /\ f.path \in Nat /\ f.directory \in Nat
                                    /\ f.score \in Nat \cup {None} /\ f.band \in Bands \cup {None}
           /\ \A f, g \in FilesOf(s) : f.path = g.path => f = g
<1>1. scans[s].analysis \in Analyses \cup {NoAnalysis}
  BY DEF GraphInv, Rows, Row
<1>2. NoAnalysis.files = {} /\ IsFiniteSet({})
  BY FS_EmptySet DEF NoAnalysis
<1>3. QED  BY <1>1, <1>2, DashboardsAssumption, FS_CardinalityType DEF FilesOf
\* The number of files of a band, over the bands.
LEMMA BandsAddUp ==
    ASSUME GraphInv, NEW s \in DOMAIN scans
    PROVE  /\ ScanSummary(s).total_files = FileCount(s)
           /\ Cardinality({f \in FilesOf(s) : f.band \in RiskyBands})
                = BandCount(s, "critical") + BandCount(s, "high") + BandCount(s, "medium")
           /\ \A band : BandCount(s, band) \in Nat
<1> DEFINE S == FilesOf(s)
           all == Bands \cup {"unknown"}
           of(band) == {f \in S : f.band = band \/ (f.band = None /\ band = "unknown")}
<1>1. IsFiniteSet(S) /\ \A f \in S : f.band \in Bands \cup {None}
  BY FilesAreFinite
<1>2. \A band : IsFiniteSet(of(band)) /\ BandCount(s, band) = Cardinality(of(band)) /\ BandCount(s, band) \in Nat
  BY <1>1, FS_Subset, FS_CardinalityType DEF BandCount
<1>3. IsFiniteSet(RiskyBands) /\ IsFiniteSet(all)
  <2>1. IsFiniteSet({"critical"}) /\ IsFiniteSet({"high"}) /\ IsFiniteSet({"medium"})
        /\ IsFiniteSet({"low"}) /\ IsFiniteSet({"unknown"})
    BY FS_Singleton
  <2>2. IsFiniteSet({"critical"} \cup ({"high"} \cup {"medium"}))
    BY <2>1, FS_Union
  <2>3. IsFiniteSet(({"critical"} \cup ({"high"} \cup {"medium"})) \cup ({"low"} \cup {"unknown"}))
    BY <2>1, <2>2, FS_Union
  <2>4. RiskyBands = {"critical"} \cup ({"high"} \cup {"medium"})
        /\ all = ({"critical"} \cup ({"high"} \cup {"medium"})) \cup ({"low"} \cup {"unknown"})
    BY DEF RiskyBands, Bands
  <2>5. QED  BY <2>2, <2>3, <2>4
<1>4. ScanSummary(s).total_files = FileCount(s)
  <2> DEFINE counts == [band \in all |-> BandCount(s, band)]
             parts == [band \in all |-> of(band)]
             f == [g \in S |-> IF g.band = None THEN "unknown" ELSE g.band]
  <2>1. \A g \in S : f[g] \in all
    BY <1>1
  <2>2. \A band \in all : \A g : g \in parts[band] <=> g \in S /\ f[g] = band
    BY <1>1, DashboardsAssumption DEF Bands
  <2>3. \A band \in all : counts[band] = Cardinality(parts[band])
    BY <1>2
  <2>4. ScanSummary(s).total_files = SumFunctionOnSet(counts, all)
    BY DEF ScanSummary, SumFunction
  <2> HIDE DEF S, all, counts, parts, f, of
  <2>5. SumFunctionOnSet(counts, all) = Cardinality(S)
    <3>1. IsFiniteSet(S) /\ IsFiniteSet(all)
      BY <1>1, <1>3
    <3>2. QED  BY <2>1, <2>2, <2>3, <3>1, CountByValues
  <2>6. QED  BY <2>4, <2>5 DEF FileCount, S
<1>5. Cardinality({f \in S : f.band \in RiskyBands})
        = BandCount(s, "critical") + BandCount(s, "high") + BandCount(s, "medium")
  <2> DEFINE R == {g \in S : g.band \in RiskyBands}
             counts == [band \in RiskyBands |-> BandCount(s, band)]
             parts == [band \in RiskyBands |-> of(band)]
             f == [g \in R |-> g.band]
  <2>1. IsFiniteSet(R) /\ \A g \in R : f[g] \in RiskyBands
    BY <1>1, FS_Subset
  <2>2. \A band \in RiskyBands : \A g : g \in parts[band] <=> g \in R /\ f[g] = band
    BY <1>1, DashboardsAssumption DEF Bands, RiskyBands
  <2>3. \A band \in RiskyBands : counts[band] = Cardinality(parts[band])
    BY <1>2
  <2>4. /\ counts["critical"] = BandCount(s, "critical") /\ counts["high"] = BandCount(s, "high")
        /\ counts["medium"] = BandCount(s, "medium")
    BY DEF RiskyBands
  <2> HIDE DEF S, R, counts, parts, f, of
  <2>5. SumFunctionOnSet(counts, RiskyBands) = Cardinality(R)
    BY <1>3, <2>1, <2>2, <2>3, CountByValues
  <2>6. BandCount(s, "critical") \in Int /\ BandCount(s, "high") \in Int /\ BandCount(s, "medium") \in Int
    BY <1>2
  <2>7. Adds(counts, {"critical"}, BandCount(s, "critical"))
    BY <2>4, <2>6, FirstAdds
  <2>8. Adds(counts, {"critical", "high"}, BandCount(s, "critical") + BandCount(s, "high"))
    <3>1. "high" \notin {"critical"} /\ {"critical", "high"} = {"critical"} \cup {"high"}
      OBVIOUS
    <3>2. QED  BY <2>4, <2>6, <2>7, <3>1, OneMoreAdds
  <2>9. Adds(counts, RiskyBands, (BandCount(s, "critical") + BandCount(s, "high")) + BandCount(s, "medium"))
    <3>1. "medium" \notin {"critical", "high"} /\ RiskyBands = {"critical", "high"} \cup {"medium"}
      BY DEF RiskyBands
    <3>2. QED  BY <2>4, <2>6, <2>8, <3>1, OneMoreAdds
  <2>10. QED  BY <2>5, <2>9 DEF Adds, R
<1>6. QED  BY <1>2, <1>4, <1>5
\* Of the first k there are k, or all.
LEMMA FirstCounted ==
    ASSUME NEW S, NEW below, Orders(S, below), NEW seq, Lists(seq, S, below), NEW k \in Nat,
           NEW first, first = FirstOf(seq, k)
    PROVE  /\ Cardinality(ToSet(first)) = IF k \leq Cardinality(S) THEN k ELSE Cardinality(S)
           /\ Cardinality(ToSet(first)) < k => ToSet(first) = S
<1>1. /\ DOMAIN first = 1..Len(first) /\ Len(first) \in Nat
      /\ Len(first) = IF k \leq Cardinality(S) THEN k ELSE Cardinality(S)
      /\ \A i \in 1..Len(first) : Cardinality(below[first[i]]) = i - 1
      /\ ToSet(first) \subseteq S
  BY FirstInOrder
<1>2. \A i, j \in 1..Len(first) : first[i] = first[j] => i = j
  <2>1. \A i, j \in 1..Len(first) : i - 1 = j - 1 => i = j
    BY <1>1
  <2>2. QED  BY <1>1, <2>1
<1>3. Cardinality(ToSet(first)) = Len(first)
  BY <1>1, <1>2, CountPlaces
<1>4. ASSUME Cardinality(ToSet(first)) < k PROVE ToSet(first) = S
  <2>1. Cardinality(S) \in Nat /\ IsFiniteSet(S)
    BY FS_CardinalityType DEF Orders
  <2>2. Cardinality(ToSet(first)) = Cardinality(S)
    BY <1>1, <1>3, <1>4, <2>1
  <2>3. QED  BY <1>1, <2>1, <2>2, FS_Subset
<1>5. QED  BY <1>1, <1>3, <1>4

WorseFile(f, g) ==
    \/ f.score # None /\ g.score = None
    \/ f.score # None /\ g.score # None /\ f.score > g.score
    \/ f.score = g.score /\ f.path < g.path

LEMMA WorstFilesFirst ==
    ASSUME GraphInv, NEW s \in DOMAIN scans
    PROVE  LET top == ToSet(TopFiles(s)) IN
           /\ Cardinality(top) = Min({TopFileCount, FileCount(s)})
           /\ \A f \in top, g \in FilesOf(s) \ top :
                 g.score # None => f.score # None /\ f.score >= g.score
<1> DEFINE S == FilesOf(s)
           below == BeforeIn(S, WorseFile)
           list == InOrder(S, WorseFile)
           top == ToSet(TopFiles(s))
<1>1. /\ IsFiniteSet(S) /\ Cardinality(S) \in Nat
      /\ \A f \in S : f.path \in Nat /\ (f.score = None \/ f.score \in Nat)
      /\ \A f, g \in S : f.path = g.path => f = g
      /\ None \notin Nat /\ TopFileCount \in Nat
  BY FilesAreFinite, DashboardsAssumption
<1>2. TopFiles(s) = FirstOf(list, TopFileCount)
  BY DEF TopFiles, InOrder, WorseFile
<1>3. \A f \in S : below[f] = {g \in S : WorseFile(g, f)}
  BY DEF BeforeIn
<1>4. Lists(list, S, below)
  <2> DEFINE P(f, i) == Cardinality({g \in S : WorseFile(g, f)}) = i - 1
  <2>1. list = [i \in 1..Cardinality(S) |-> CHOOSE f \in S : P(f, i)]
    BY DEF InOrder
  <2>2. \A f \in S : \A i \in 1..Cardinality(S) : P(f, i) <=> Cardinality(below[f]) = i - 1
    BY <1>3
  <2> HIDE DEF list, below, P, S
  <2>3. QED  BY <2>1, <2>2 DEF Lists
<1> HIDE DEF below, list, S
<1>5. /\ \A f \in S : ~ WorseFile(f, f)
      /\ \A f, g \in S : f # g => WorseFile(f, g) \/ WorseFile(g, f)
      /\ \A f, g, h \in S : WorseFile(f, g) /\ WorseFile(g, h) => WorseFile(f, h)
  BY <1>1 DEF WorseFile
<1>6. Orders(S, below)
  BY <1>1, <1>3, <1>5 DEF Orders
<1>7. /\ Cardinality(top) = IF TopFileCount \leq Cardinality(S) THEN TopFileCount ELSE Cardinality(S)
      /\ \A f \in S : f \in top <=> Cardinality(below[f]) < TopFileCount
      /\ top \subseteq S
  BY <1>1, <1>2, <1>4, <1>6, FirstInOrder, FirstCounted
<1>8. Cardinality(top) = Min({TopFileCount, FileCount(s)})
  <2>1. FileCount(s) = Cardinality(S)
    BY DEF FileCount, S
  <2>2. \A m, n \in Nat : Min({m, n}) = IF m \leq n THEN m ELSE n
    <3>1. TAKE m, n \in Nat
    <3>2. \E x \in {m, n} : \A y \in {m, n} : x \leq y
      OBVIOUS
    <3>3. QED  BY <3>2 DEF Min
  <2>3. QED  BY <1>1, <1>7, <2>1, <2>2
<1>9. ASSUME NEW f \in top, NEW g \in S \ top, g.score # None
      PROVE  f.score # None /\ f.score >= g.score
  <2>1. f \in S /\ ~ Cardinality(below[g]) < TopFileCount /\ Cardinality(below[f]) < TopFileCount
    BY <1>7
  <2>2. Cardinality(below[f]) \in Nat /\ Cardinality(below[g]) \in Nat
    BY <1>4, <1>6, <2>1, ListInOrder
  <2>3. Cardinality(below[f]) < Cardinality(below[g])
    BY <1>1, <2>1, <2>2
  <2>4. WorseFile(f, g)
    BY <1>3, <1>4, <1>6, <2>1, <2>3, ListInOrder
  <2>5. QED  BY <1>1, <1>9, <2>1, <2>4 DEF WorseFile
<1>10. QED  BY <1>8, <1>9 DEF S
Riskier(d, e) ==
    \/ d.risky_file_count > e.risky_file_count
    \/ d.risky_file_count = e.risky_file_count /\ d.directory < e.directory

DirectoryItems(s) == {DirectoryItem(s, f.directory) : f \in FilesOf(s)}

LEMMA DirectoriesAreFinite ==
    ASSUME GraphInv, NEW s \in DOMAIN scans
    PROVE  /\ IsFiniteSet(DirectoryItems(s))
           /\ \A d \in DirectoryItems(s) :
                 /\ d.directory \in Nat /\ d.risky_file_count \in Nat
                 /\ d.file_count = Cardinality({f \in FilesOf(s) : f.directory = d.directory})
                 /\ d.risky_file_count
                      = Cardinality({f \in FilesOf(s) : f.directory = d.directory /\ f.band \in RiskyBands})
           /\ \A d, e \in DirectoryItems(s) : d.directory = e.directory => d = e
<1> DEFINE S == FilesOf(s)
           T == DirectoryItems(s)
           item == [f \in S |-> DirectoryItem(s, f.directory)]
<1>1. IsFiniteSet(S) /\ \A f \in S : f.directory \in Nat
  BY FilesAreFinite
<1>2. IsFiniteSet(T)
  <2>1. item \in Surjection(S, T)
    BY DEF Surjection, DirectoryItems
  <2> HIDE DEF S, T, item
  <2>2. QED  BY <1>1, <2>1, FS_Surjection
<1>3. ASSUME NEW d \in T
      PROVE  /\ d = DirectoryItem(s, d.directory) /\ d.directory \in Nat /\ d.risky_file_count \in Nat
             /\ d.file_count = Cardinality({f \in S : f.directory = d.directory})
             /\ d.risky_file_count = Cardinality({f \in S : f.directory = d.directory /\ f.band \in RiskyBands})
  <2>1. PICK g \in S : d = DirectoryItem(s, g.directory)
    BY DEF DirectoryItems
  <2>2. /\ d.directory = g.directory
        /\ d.file_count = Cardinality({f \in S : f.directory = g.directory})
        /\ d.risky_file_count
             = Cardinality({f \in {h \in S : h.directory = g.directory} : f.band \in RiskyBands})
    BY <2>1 DEF DirectoryItem
  <2>3. {f \in {h \in S : h.directory = g.directory} : f.band \in RiskyBands}
          = {f \in S : f.directory = g.directory /\ f.band \in RiskyBands}
    OBVIOUS
  <2>4. Cardinality({f \in S : f.directory = g.directory /\ f.band \in RiskyBands}) \in Nat
    BY <1>1, FS_Subset, FS_CardinalityType
  <2>5. QED  BY <1>1, <2>1, <2>2, <2>3, <2>4
<1>4. ASSUME NEW d \in T, NEW e \in T, d.directory = e.directory PROVE d = e
  <2>1. d = DirectoryItem(s, d.directory) /\ e = DirectoryItem(s, e.directory)
    BY <1>3
  <2>2. QED  BY <1>4, <2>1
<1>5. QED  BY <1>2, <1>3, <1>4

\* When fewer are shown than may be, all are.
LEMMA AllDirectoriesShown ==
    ASSUME GraphInv, NEW s \in DOMAIN scans,
           Cardinality(ToSet(RiskByDirectory(s))) < TopDirectoryCount
    PROVE  ToSet(RiskByDirectory(s)) = DirectoryItems(s)
<1> DEFINE S == DirectoryItems(s)
           below == BeforeIn(S, Riskier)
           list == InOrder(S, Riskier)
<1>1. /\ IsFiniteSet(S) /\ TopDirectoryCount \in Nat
      /\ \A d \in S : d.directory \in Nat /\ d.risky_file_count \in Nat
      /\ \A d, e \in S : d.directory = e.directory => d = e
  BY DirectoriesAreFinite, DashboardsAssumption
<1>2. RiskByDirectory(s) = FirstOf(list, TopDirectoryCount)
  BY DEF RiskByDirectory, InOrder, Riskier, DirectoryItems
<1>3. \A d \in S : below[d] = {e \in S : Riskier(e, d)}
  BY DEF BeforeIn
<1>4. Lists(list, S, below)
  <2> DEFINE P(d, i) == Cardinality({e \in S : Riskier(e, d)}) = i - 1
  <2>1. list = [i \in 1..Cardinality(S) |-> CHOOSE d \in S : P(d, i)]
    BY DEF InOrder
  <2>2. \A d \in S : \A i \in 1..Cardinality(S) : P(d, i) <=> Cardinality(below[d]) = i - 1
    BY <1>3
  <2> HIDE DEF list, below, P, S
  <2>3. QED  BY <2>1, <2>2 DEF Lists
<1> HIDE DEF below, list, S
<1>5. /\ \A d \in S : ~ Riskier(d, d)
      /\ \A d, e \in S : d # e => Riskier(d, e) \/ Riskier(e, d)
      /\ \A d, e, g \in S : Riskier(d, e) /\ Riskier(e, g) => Riskier(d, g)
  BY <1>1 DEF Riskier
<1>6. Orders(S, below)
  BY <1>1, <1>3, <1>5 DEF Orders
<1>7. ToSet(RiskByDirectory(s)) = S
  BY <1>1, <1>2, <1>4, <1>6, FirstCounted
<1>8. QED  BY <1>7 DEF S

LEMMA DirectoriesAddUp ==
    ASSUME GraphInv, NEW s \in DOMAIN scans
    PROVE  LET all == DirectoryItems(s) IN
           /\ SumFunction([d \in all |-> d.file_count]) = FileCount(s)
           /\ SumFunction([d \in all |-> d.risky_file_count])
                = Cardinality({f \in FilesOf(s) : f.band \in RiskyBands})
<1> DEFINE S == FilesOf(s)
           R == {f \in S : f.band \in RiskyBands}
           T == DirectoryItems(s)
           item == [f \in S |-> DirectoryItem(s, f.directory)]
           of == [d \in T |-> {f \in S : f.directory = d.directory}]
           risky == [d \in T |-> {f \in S : f.directory = d.directory /\ f.band \in RiskyBands}]
           counts == [d \in T |-> d.file_count]
           riskyCounts == [d \in T |-> d.risky_file_count]
<1>1. IsFiniteSet(S) /\ IsFiniteSet(R) /\ IsFiniteSet(T)
  BY FilesAreFinite, DirectoriesAreFinite, FS_Subset
<1>2. /\ \A f \in S : item[f] \in T /\ item[f].directory = f.directory
      /\ \A d, e \in T : d.directory = e.directory => d = e
  <2>1. \A f \in S : item[f] \in T
    BY DEF DirectoryItems
  <2>2. \A f \in S : item[f].directory = f.directory
    BY DEF DirectoryItem
  <2>3. \A d, e \in T : d.directory = e.directory => d = e
    BY DirectoriesAreFinite
  <2>4. QED  BY <2>1, <2>2, <2>3
<1>3. /\ \A d \in T : \A f : f \in of[d] <=> f \in S /\ item[f] = d
      /\ \A d \in T : \A f : f \in risky[d] <=> f \in R /\ item[f] = d
  BY <1>2
<1>4. \A d \in T : counts[d] = Cardinality(of[d]) /\ riskyCounts[d] = Cardinality(risky[d])
  BY DirectoriesAreFinite
<1>5. SumFunction(counts) = SumFunctionOnSet(counts, T) /\ SumFunction(riskyCounts) = SumFunctionOnSet(riskyCounts, T)
  BY DEF SumFunction
<1>6. R \subseteq S /\ FileCount(s) = Cardinality(S)
  BY DEF FileCount
<1> HIDE DEF S, T, item, of, risky, counts, riskyCounts, R
<1>7. SumFunctionOnSet(counts, T) = Cardinality(S)
  BY <1>1, <1>2, <1>3, <1>4, CountByValues
<1>8. SumFunctionOnSet(riskyCounts, T) = Cardinality(R)
  <2>1. \A f \in R : item[f] \in T
    BY <1>2, <1>6
  <2>2. QED  BY <1>1, <1>3, <1>4, <2>1, CountByValues
<1>9. QED  BY <1>5, <1>6, <1>7, <1>8 DEF S, R, T, counts, riskyCounts
\* The summary, the charts, the directories and the files to refactor first are
\* about the same files.
LEMMA SummaryOfOne ==
    ASSUME GraphInv, NEW s \in DOMAIN scans
    PROVE  LET counts  == CountsByBand(s)
               summary == ScanSummary(s)
               top     == ToSet(TopFiles(s))
               shown   == ToSet(RiskByDirectory(s)) IN
           /\ summary.total_files = FileCount(s)
           /\ \A band \in Bands : summary.severity[band] = counts[band]
           /\ Cardinality(shown) < TopDirectoryCount =>
                 /\ SumFunction([d \in shown |-> d.file_count]) = FileCount(s)
                 /\ SumFunction([d \in shown |-> d.risky_file_count])
                       = summary.severity["critical"] + summary.severity["high"] + summary.severity["medium"]
           /\ Cardinality(top) = Min({TopFileCount, FileCount(s)})
           /\ \A f \in top, g \in FilesOf(s) \ top :
                 g.score # None => f.score # None /\ f.score >= g.score
<1> DEFINE shown == ToSet(RiskByDirectory(s))
           severity == ScanSummary(s).severity
<1>1. \A band \in Bands : severity[band] = BandCount(s, band) /\ CountsByBand(s)[band] = BandCount(s, band)
  BY DEF ScanSummary, CountsByBand
<1>2. /\ severity["critical"] = BandCount(s, "critical") /\ severity["high"] = BandCount(s, "high")
      /\ severity["medium"] = BandCount(s, "medium")
  BY <1>1 DEF Bands
<1>3. ScanSummary(s).total_files = FileCount(s)
      /\ Cardinality({f \in FilesOf(s) : f.band \in RiskyBands})
           = severity["critical"] + severity["high"] + severity["medium"]
  BY <1>2, BandsAddUp
<1>4. ASSUME Cardinality(shown) < TopDirectoryCount
      PROVE  /\ SumFunction([d \in shown |-> d.file_count]) = FileCount(s)
             /\ SumFunction([d \in shown |-> d.risky_file_count])
                   = severity["critical"] + severity["high"] + severity["medium"]
  <2>1. shown = DirectoryItems(s)
    BY <1>4, AllDirectoriesShown
  <2>2. /\ SumFunction([d \in DirectoryItems(s) |-> d.file_count]) = FileCount(s)
        /\ SumFunction([d \in DirectoryItems(s) |-> d.risky_file_count])
             = Cardinality({f \in FilesOf(s) : f.band \in RiskyBands})
    BY DirectoriesAddUp
  <2> HIDE DEF shown
  <2>3. QED  BY <1>3, <2>1, <2>2
<1>5. LET top == ToSet(TopFiles(s)) IN
      /\ Cardinality(top) = Min({TopFileCount, FileCount(s)})
      /\ \A f \in top, g \in FilesOf(s) \ top :
            g.score # None => f.score # None /\ f.score >= g.score
  BY WorstFilesFirst
<1>6. QED  BY <1>1, <1>3, <1>4, <1>5

\* How many of some scans finished after one.
FinishPlace(S, s) == Cardinality({t \in S : FinishedAfter(t, s)})

LEMMA FinishPlaces ==
    ASSUME GraphInv, NEW S, S \subseteq DOMAIN scans, \A s \in S : scans[s].finished # None
    PROVE  /\ IsFiniteSet(S) /\ Cardinality(S) \in Nat
           /\ \A s \in S : scans[s].finished \in Nat /\ FinishPlace(S, s) \in 0..(Cardinality(S) - 1)
           /\ \A s, t \in S : FinishPlace(S, s) = FinishPlace(S, t) => s = t
           /\ \A s, t \in S : FinishedAfter(s, t) <=> FinishPlace(S, s) < FinishPlace(S, t)
           /\ \A s, t \in S : s # t => FinishedAfter(s, t) \/ FinishedAfter(t, s)
           /\ \A s \in S : ~ FinishedAfter(s, s)
<1> DEFINE below == BeforeIn(S, FinishedAfter)
           list == InOrder(S, FinishedAfter)
<1>1. Orders(S, below) /\ Lists(list, S, below)
  BY FinishOrder
<1>2. \A s \in S : below[s] = {t \in S : FinishedAfter(t, s)} /\ Cardinality(below[s]) = FinishPlace(S, s)
  BY DEF BeforeIn, FinishPlace
<1>3. \A s \in S : scans[s].finished \in Nat
  BY DEF GraphInv, Rows, Row
<1> HIDE DEF below, list
<1>4. /\ Cardinality(S) \in Nat
      /\ \A s \in S : Cardinality(below[s]) \in 0..(Cardinality(S) - 1) /\ list[Cardinality(below[s]) + 1] = s
      /\ \A s, t \in S : t \in below[s] <=> Cardinality(below[t]) < Cardinality(below[s])
  BY <1>1, ListInOrder
<1>5. \A s, t \in S : FinishedAfter(s, t) <=> FinishPlace(S, s) < FinishPlace(S, t)
  BY <1>2, <1>4
<1>6. \A s, t \in S : FinishPlace(S, s) = FinishPlace(S, t) => s = t
  BY <1>2, <1>4
<1>7. \A s, t \in S : s # t => FinishedAfter(s, t) \/ FinishedAfter(t, s)
  BY <1>1, <1>2 DEF Orders
<1>8. \A s \in S : ~ FinishedAfter(s, s)
  BY <1>1, <1>2 DEF Orders
<1>9. IsFiniteSet(S)
  BY <1>1 DEF Orders
<1>10. QED  BY <1>2, <1>3, <1>4, <1>5, <1>6, <1>7, <1>8, <1>9

\* The latest k of some scans.
LEMMA LatestOfSome ==
    ASSUME GraphInv, NEW S, S \subseteq DOMAIN scans, \A s \in S : scans[s].finished # None,
           NEW k \in Nat
    PROVE  LET latest == Latest(S, k) IN
           /\ latest \in Seq(S) /\ DOMAIN latest = 1..Len(latest) /\ Len(latest) \in Nat
           /\ Len(latest) = IF k \leq Cardinality(S) THEN k ELSE Cardinality(S)
           /\ \A i \in 1..Len(latest) : latest[i] \in S /\ FinishPlace(S, latest[i]) = i - 1
           /\ \A s : s \in ToSet(latest) <=> s \in S /\ FinishPlace(S, s) < k
<1> DEFINE below == BeforeIn(S, FinishedAfter)
           list == InOrder(S, FinishedAfter)
           latest == Latest(S, k)
<1>1. Orders(S, below) /\ Lists(list, S, below)
  BY FinishOrder
<1>2. \A s \in S : Cardinality(below[s]) = FinishPlace(S, s)
  BY DEF BeforeIn, FinishPlace
<1>3. latest = FirstOf(list, k)
  BY DEF Latest
<1> HIDE DEF below, list, latest
<1>4. /\ latest \in Seq(S) /\ DOMAIN latest = 1..Len(latest) /\ Len(latest) \in Nat
      /\ Len(latest) = IF k \leq Cardinality(S) THEN k ELSE Cardinality(S)
      /\ \A i \in 1..Len(latest) : latest[i] \in S /\ Cardinality(below[latest[i]]) = i - 1
      /\ \A s \in S : s \in ToSet(latest) <=> Cardinality(below[s]) < k
      /\ ToSet(latest) \subseteq S
  BY <1>1, <1>3, FirstInOrder
<1>5. \A s : s \in ToSet(latest) <=> s \in S /\ FinishPlace(S, s) < k
  BY <1>2, <1>4
<1>6. QED  BY <1>2, <1>4, <1>5 DEF latest

\* The same, turned round for a chart.
LEMMA ChartOfSome ==
    ASSUME GraphInv, NEW S, S \subseteq DOMAIN scans, \A s \in S : scans[s].finished # None,
           NEW k \in Nat, NEW chart, chart = Reverse(Latest(S, k))
    PROVE  /\ Len(chart) = IF k \leq Cardinality(S) THEN k ELSE Cardinality(S)
           /\ DOMAIN chart = 1..Len(chart) /\ Len(chart) \in Nat
           /\ \A i \in 1..Len(chart) : chart[i] \in S /\ FinishPlace(S, chart[i]) = Len(chart) - i
           /\ \A i, j \in 1..Len(chart) : chart[i] = chart[j] => i = j
           /\ \A s : s \in ToSet(chart) <=> s \in S /\ FinishPlace(S, s) < k
<1> DEFINE latest == Latest(S, k)
           n == Len(latest)
<1>1. /\ DOMAIN latest = 1..n /\ n \in Nat
      /\ n = IF k \leq Cardinality(S) THEN k ELSE Cardinality(S)
      /\ \A i \in 1..n : latest[i] \in S /\ FinishPlace(S, latest[i]) = i - 1
      /\ \A s : s \in ToSet(latest) <=> s \in S /\ FinishPlace(S, s) < k
  BY LatestOfSome
<1>2. chart = [i \in 1..n |-> latest[n - i + 1]]
  BY DEF Reverse
<1> HIDE DEF latest, n
<1>3. Len(chart) = n /\ DOMAIN chart = 1..n
  BY <1>1, <1>2
<1>4. \A i \in 1..n : n - i + 1 \in 1..n /\ (n - i + 1) - 1 = n - i /\ n - (n - i + 1) + 1 = i
  BY <1>1
<1>5. \A i \in 1..n : chart[i] \in S /\ FinishPlace(S, chart[i]) = n - i
  BY <1>1, <1>2, <1>4
<1>6. \A i, j \in 1..n : n - i = n - j => i = j
  BY <1>1
<1>7. \A i, j \in 1..n : chart[i] = chart[j] => i = j
  BY <1>5, <1>6
<1>8. \A s : s \in ToSet(chart) <=> s \in ToSet(latest)
  <2>1. \A i \in 1..n : chart[i] = latest[n - i + 1] /\ latest[i] = chart[n - i + 1]
    BY <1>2, <1>4
  <2>2. \A s : s \in ToSet(chart) <=> \E i \in 1..n : chart[i] = s
    BY <1>3 DEF ToSet
  <2>3. \A s : s \in ToSet(latest) <=> \E i \in 1..n : latest[i] = s
    BY <1>1 DEF ToSet
  <2>4. QED  BY <1>4, <2>1, <2>2, <2>3
<1>9. QED  BY <1>1, <1>3, <1>5, <1>7, <1>8

\* The scans of the charts are the latest of the project that succeeded, and those
\* of the chart of durations the latest that are settled: they succeeded, or not.
LEMMA ScansOfCharts ==
    ASSUME GraphInv, NEW p
    PROVE  /\ SucceededOf(p) \subseteq SettledOf(p) /\ SettledOf(p) \subseteq DOMAIN scans
           /\ \A s \in SettledOf(p) : /\ ProjectOf[s] = p /\ scans[s].finished # None
                                      /\ scans[s].started \in Nat /\ scans[s].finished \in Nat
           /\ LatestSucceeded(p) = Reverse(Latest(SucceededOf(p), HistoryLimit))
           /\ LatestSettled(p) = Reverse(Latest(SettledOf(p), HistoryLimit))
<1>1. \A s \in DOMAIN scans : Row(scans[s])
  BY DEF GraphInv, Rows
<1>2. SucceededOf(p) \subseteq SettledOf(p)
  BY <1>1, DashboardsAssumption DEF SucceededOf, SettledOf, Row, Status
<1>3. \A s \in SettledOf(p) : /\ ProjectOf[s] = p /\ scans[s].finished # None
                              /\ scans[s].started \in Nat /\ scans[s].finished \in Nat
  BY <1>1 DEF SettledOf, Row
<1>4. SettledOf(p) \subseteq DOMAIN scans
  BY DEF SettledOf
<1>5. /\ LatestSucceeded(p) = Reverse(Latest(SucceededOf(p), HistoryLimit))
      /\ LatestSettled(p) = Reverse(Latest(SettledOf(p), HistoryLimit))
  BY DEF LatestSucceeded, LatestSettled, SettledOf
<1>6. QED  BY <1>2, <1>3, <1>4, <1>5

LEMMA SummariesOfCharts == ASSUME GraphInv PROVE SummariesAgree
<1> SUFFICES ASSUME NEW p \in Projects, NEW i \in DOMAIN FilesAnalyzed(p)
             PROVE  LET point   == FilesAnalyzed(p)[i]
                        s       == point.scan
                        counts  == PriorityDistribution(p)[i].counts
                        summary == ScanSummary(s)
                        top     == ToSet(TopFiles(s))
                        shown   == ToSet(RiskByDirectory(s)) IN
                    /\ summary.total_files = point.files
                    /\ \A band \in Bands : summary.severity[band] = counts[band]
                    /\ Cardinality(shown) < TopDirectoryCount =>
                          /\ SumFunction([d \in shown |-> d.file_count]) = point.files
                          /\ SumFunction([d \in shown |-> d.risky_file_count])
                                = summary.severity["critical"] + summary.severity["high"]
                                  + summary.severity["medium"]
                    /\ Cardinality(top) = Min({TopFileCount, point.files})
                    /\ \A f \in top, g \in FilesOf(s) \ top :
                          g.score # None => f.score # None /\ f.score >= g.score
  BY DEF SummariesAgree
<1> DEFINE s == LatestSucceeded(p)[i]
<1>1. i \in DOMAIN LatestSucceeded(p)
  BY DEF FilesAnalyzed
<1>2. s \in DOMAIN scans
  <2>1. HistoryLimit \in Nat /\ SucceededOf(p) \subseteq DOMAIN scans
        /\ \A t \in SucceededOf(p) : scans[t].finished # None
    BY DashboardsAssumption DEF SucceededOf
  <2>2. LatestSucceeded(p) = Reverse(Latest(SucceededOf(p), HistoryLimit))
    BY DEF LatestSucceeded
  <2>3. s \in SucceededOf(p)
    BY <1>1, <2>1, <2>2, ChartOfSome
  <2>4. QED  BY <2>1, <2>3
<1>3. /\ FilesAnalyzed(p)[i].scan = s /\ FilesAnalyzed(p)[i].files = FileCount(s)
      /\ PriorityDistribution(p)[i].counts = CountsByBand(s)
  BY <1>1 DEF FilesAnalyzed, PriorityDistribution
<1> HIDE DEF s
<1>4. QED  BY <1>2, <1>3, SummaryOfOne

\* The summaries of a scan agree on its files, for any number of files and
\* directories and any limits of what is shown.  (overview_service.py,
\* files_repository.py, scans_repository.py)
THEOREM SummariesAlwaysAgree == Spec => []SummariesAgree
<1>1. GraphInv => SummariesAgree
  BY SummariesOfCharts
<1>2. QED  BY <1>1, GraphInvariant, PTL

-----------------------------------------------------------------------------
(* The trends.                                                             *)

\* Of the rows of the overview, by number.
RowBefore(rows, i, j) ==
    \/ scans[rows[i]].finished < scans[rows[j]].finished
    \/ scans[rows[i]].finished = scans[rows[j]].finished /\ i < j

RowOrder(rows) ==
    [i \in 1..Cardinality(DOMAIN rows) |->
        CHOOSE k \in DOMAIN rows : Cardinality({j \in DOMAIN rows : RowBefore(rows, j, k)}) = i - 1]

\* Sorting rows by their finish times keeps them all.
LEMMA RowsSorted ==
    ASSUME NEW m \in Nat, NEW rows, DOMAIN rows = 1..m,
           \A i \in 1..m : scans[rows[i]].finished \in Nat,
           NEW order, order = RowOrder(rows)
    PROVE  /\ DOMAIN order = 1..m /\ \A i \in 1..m : order[i] \in 1..m
           /\ \A i, j \in 1..m : i < j => scans[rows[order[i]]].finished \leq scans[rows[order[j]]].finished
           /\ ToSet(order) = 1..m
<1> DEFINE S == DOMAIN rows
           B(i, j) == RowBefore(rows, i, j)
           below == [j \in S |-> {i \in S : B(i, j)}]
<1>0. S = 1..m
  OBVIOUS
<1>1. IsFiniteSet(S) /\ Cardinality(S) = m
  BY FS_Interval
<1>2. \A i \in S : i \in Nat /\ scans[rows[i]].finished \in Nat
  OBVIOUS
<1>3. \A i, j \in S : i \in below[j] <=> B(i, j)
  OBVIOUS
<1>4. Orders(S, below)
  <2>1. /\ \A i \in S : ~ B(i, i)
        /\ \A i, j \in S : i # j => B(i, j) \/ B(j, i)
        /\ \A i, j, k \in S : B(i, j) /\ B(j, k) => B(i, k)
    <3> HIDE DEF S
    <3>1. QED  BY <1>2 DEF RowBefore
  <2> HIDE DEF B
  <2>2. QED  BY <1>1, <2>1 DEF Orders
<1>5. Lists(order, S, below)
  <2> DEFINE P(k, i) == Cardinality({j \in S : B(j, k)}) = i - 1
  <2>1. order = [i \in 1..Cardinality(S) |-> CHOOSE k \in S : P(k, i)]
    BY DEF RowOrder
  <2>2. \A k \in S : \A i \in 1..Cardinality(S) : P(k, i) <=> Cardinality(below[k]) = i - 1
    OBVIOUS
  <2> HIDE DEF below, P, S
  <2>3. QED  BY <2>1, <2>2 DEF Lists
<1> HIDE DEF S, below, B
<1>6. /\ order \in Seq(S) /\ Len(order) = m
      /\ \A k \in S : Cardinality(below[k]) \in 0..(m - 1) /\ order[Cardinality(below[k]) + 1] = k
      /\ \A i \in 1..m : order[i] \in S /\ Cardinality(below[order[i]]) = i - 1
      /\ \A j, k \in S : k \in below[j] <=> Cardinality(below[k]) < Cardinality(below[j])
  <2>1. /\ order \in Seq(S) /\ Len(order) = Cardinality(S)
        /\ \A k \in S : Cardinality(below[k]) \in 0..(Cardinality(S) - 1) /\ order[Cardinality(below[k]) + 1] = k
        /\ \A i \in 1..Len(order) : order[i] \in S /\ Cardinality(below[order[i]]) = i - 1
        /\ \A j, k \in S : k \in below[j] <=> Cardinality(below[k]) < Cardinality(below[j])
    BY <1>4, <1>5, ListInOrder
  <2>2. QED  BY <1>1, <2>1
<1>7. DOMAIN order = 1..m
  BY <1>6
<1>8. ASSUME NEW i \in 1..m, NEW j \in 1..m, i < j
      PROVE  scans[rows[order[i]]].finished \leq scans[rows[order[j]]].finished
  <2>1. i - 1 < j - 1
    BY <1>8
  <2>2. order[i] \in S /\ order[j] \in S /\ order[i] \in below[order[j]]
    BY <1>6, <2>1
  <2>3. B(order[i], order[j])
    BY <1>3, <2>2
  <2>4. QED  BY <1>2, <2>2, <2>3 DEF B, RowBefore
<1>9. ASSUME NEW k \in 1..m PROVE \E i \in 1..m : order[i] = k
  <2>1. k \in S
    BY <1>0
  <2>2. Cardinality(below[k]) \in 0..(m - 1) /\ order[Cardinality(below[k]) + 1] = k
    BY <1>6, <2>1
  <2>3. Cardinality(below[k]) + 1 \in 1..m
    BY <2>2
  <2>4. QED  BY <2>2, <2>3
<1>10. ToSet(order) = 1..m
  BY <1>0, <1>6, <1>7, <1>9 DEF ToSet
<1>11. QED  BY <1>0, <1>6, <1>7, <1>8, <1>10

PriorTo(p, s) == {t \in SucceededOf(p) : FinishedAfter(s, t)}

\* The trend shown with a scan: the scan and the latest of those before it.
LEMMA OverviewShown ==
    ASSUME GraphInv, NEW p, NEW s \in SucceededOf(p),
           NEW prior, prior = PriorTo(p, s),
           NEW shown, shown = OverviewTrend(s)
    PROVE  /\ \A i, j \in DOMAIN shown : i < j => shown[i].finished <= shown[j].finished
           /\ \A x : x \in ToSet(shown)
                 <=> \/ x = Point(s)
                     \/ \E t \in prior : FinishPlace(prior, t) < PreviousCount /\ x = Point(t)
<1> DEFINE latest == Latest({t \in SucceededOf(ProjectOf[s]) : FinishedAfter(s, t)}, PreviousCount)
           rows == <<s>> \o latest
           m == Len(latest) + 1
           order == RowOrder(rows)
<1>1. /\ prior \subseteq DOMAIN scans /\ s \in DOMAIN scans /\ ProjectOf[s] = p
      /\ \A t \in prior \cup {s} : scans[t].finished # None
  BY DEF SucceededOf, PriorTo
<1>2. \A t \in prior \cup {s} : scans[t].finished \in Nat
  BY <1>1 DEF GraphInv, Rows, Row
<1>3. PreviousCount \in Nat
  BY DashboardsAssumption
<1>4. /\ \A t : t \in ToSet(latest) <=> t \in prior /\ FinishPlace(prior, t) < PreviousCount
      /\ latest \in Seq(prior) /\ Len(latest) \in Nat
  <2>1. latest = Latest(prior, PreviousCount)
    BY <1>1 DEF PriorTo
  <2>2. \A t \in prior : scans[t].finished # None
    BY <1>1
  <2> HIDE DEF latest
  <2>3. QED  BY <1>1, <1>3, <2>1, <2>2, LatestOfSome
<1> HIDE DEF latest
<1>5. /\ DOMAIN rows = 1..m /\ m \in Nat /\ rows[1] = s
      /\ \A i \in 1..Len(latest) : rows[i + 1] = latest[i]
      /\ \A i \in 1..m : i = 1 \/ (i - 1 \in 1..Len(latest) /\ rows[i] = latest[i - 1])
  BY <1>4
<1>6. ToSet(latest) = {latest[i] : i \in 1..Len(latest)}
  BY <1>4 DEF ToSet
<1>7. ToSet(rows) = {rows[i] : i \in 1..m}
  BY <1>5 DEF ToSet
<1>8. \A i \in 1..m : scans[rows[i]].finished \in Nat
  <2>1. \A i \in 1..Len(latest) : latest[i] \in prior
    BY <1>4
  <2>2. QED  BY <1>2, <1>5, <2>1
<1>9. \A t : t \in ToSet(rows) <=> t = s \/ t \in ToSet(latest)
  <2>1. \A i \in 1..Len(latest) : i + 1 \in 1..m
    BY <1>4
  <2>2. 1 \in 1..m
    BY <1>4
  <2> HIDE DEF rows, m
  <2>3. ASSUME NEW i \in 1..m PROVE rows[i] = s \/ rows[i] \in ToSet(latest)
    <3>1. i = 1 \/ (i - 1 \in 1..Len(latest) /\ rows[i] = latest[i - 1])
      BY <1>5
    <3>2. QED  BY <1>5, <1>6, <3>1
  <2>4. s \in ToSet(rows)
    BY <1>5, <1>7, <2>2
  <2>5. ASSUME NEW i \in 1..Len(latest) PROVE latest[i] \in ToSet(rows)
    BY <1>5, <1>7, <2>1
  <2>6. QED  BY <1>6, <1>7, <2>3, <2>4, <2>5
<1>10. OverviewTrend(s) = [i \in 1..m |-> Point(rows[order[i]])]
  <2>1. OverviewTrend(s) = [i \in DOMAIN rows |-> Point(rows[order[i]])]
    BY DEF OverviewTrend, InOrder, RowOrder, RowBefore, latest
  <2> HIDE DEF rows, m, order
  <2>2. QED  BY <1>5, <2>1
<1> HIDE DEF rows, m, order
<1>11. /\ DOMAIN order = 1..m /\ \A i \in 1..m : order[i] \in 1..m
       /\ \A i, j \in 1..m : i < j => scans[rows[order[i]]].finished \leq scans[rows[order[j]]].finished
       /\ ToSet(order) = 1..m
  <2>1. order = RowOrder(rows)
    BY DEF order
  <2>2. m \in Nat /\ DOMAIN rows = 1..m /\ \A i \in 1..m : scans[rows[i]].finished \in Nat
    BY <1>5, <1>8
  <2>3. PICK n \in Nat : n = m
    BY <2>2
  <2>4. PICK list : list = order
    OBVIOUS
  <2>5. list = RowOrder(rows) /\ DOMAIN rows = 1..n /\ \A i \in 1..n : scans[rows[i]].finished \in Nat
    BY <2>1, <2>2, <2>3, <2>4
  <2>6. /\ DOMAIN list = 1..n /\ \A i \in 1..n : list[i] \in 1..n
        /\ \A i, j \in 1..n : i < j => scans[rows[list[i]]].finished \leq scans[rows[list[j]]].finished
        /\ ToSet(list) = 1..n
    BY <2>5, RowsSorted
  <2>7. QED  BY <2>3, <2>4, <2>6
<1>12. \A i \in 1..m : shown[i] = Point(rows[order[i]]) /\ shown[i].finished = scans[rows[order[i]]].finished
  BY <1>10 DEF Point
<1>13. DOMAIN shown = 1..m
  BY <1>10
<1>14. \A x : x \in ToSet(shown) <=> \E t \in ToSet(rows) : x = Point(t)
  <2>1. \A x : x \in ToSet(shown) <=> \E i \in 1..m : x = Point(rows[order[i]])
    BY <1>12, <1>13 DEF ToSet
  <2>2. \A t : t \in ToSet(rows) <=> \E i \in 1..m : t = rows[order[i]]
    <3>1. ASSUME NEW k \in 1..m PROVE \E i \in 1..m : rows[k] = rows[order[i]]
      BY <1>11 DEF ToSet
    <3>2. ASSUME NEW i \in 1..m PROVE rows[order[i]] \in ToSet(rows)
      BY <1>7, <1>11
    <3>3. QED  BY <1>7, <3>1, <3>2
  <2>3. QED  BY <2>1, <2>2
<1>15. \A t : t \in ToSet(rows) <=> t = s \/ (t \in prior /\ FinishPlace(prior, t) < PreviousCount)
  BY <1>4, <1>9
<1>16. \A i, j \in DOMAIN shown : i < j => shown[i].finished <= shown[j].finished
  <2>1. SUFFICES ASSUME NEW i \in 1..m, NEW j \in 1..m, i < j
                 PROVE  shown[i].finished <= shown[j].finished
    BY <1>13
  <2>2. scans[rows[order[i]]].finished \leq scans[rows[order[j]]].finished
    BY <1>11, <2>1
  <2>3. QED  BY <1>12, <2>2
<1>17. QED  BY <1>14, <1>15, <1>16
\* The points of the project's trend, the latest scan last.
LEMMA RiskShown ==
    ASSUME GraphInv, NEW p, NEW risk, risk = ProjectRiskTrend(p)
    PROVE  LET S == SucceededOf(p) IN
           /\ DOMAIN risk = 1..Len(risk) /\ Len(risk) \in Nat
           /\ Len(risk) = IF HistoryLimit \leq Cardinality(S) THEN HistoryLimit ELSE Cardinality(S)
           /\ risk = [i \in 1..Len(risk) |-> Point(LatestSucceeded(p)[i])]
           /\ \A i \in 1..Len(risk) :
                 /\ risk[i] = Point(risk[i].scan)
                 /\ risk[i].scan \in S /\ FinishPlace(S, risk[i].scan) = Len(risk) - i
           /\ \A s \in S : FinishPlace(S, s) < HistoryLimit =>
                 \E i \in 1..Len(risk) : risk[i].scan = s
<1> DEFINE S == SucceededOf(p)
           latest == LatestSucceeded(p)
<1>1. /\ S \subseteq DOMAIN scans /\ HistoryLimit \in Nat
      /\ \A s \in S : scans[s].finished # None
      /\ latest = Reverse(Latest(S, HistoryLimit))
  BY DashboardsAssumption DEF SucceededOf, LatestSucceeded
<1>2. risk = [i \in DOMAIN latest |-> Point(latest[i])]
  BY DEF ProjectRiskTrend
<1> HIDE DEF S, latest
<1>3. /\ Len(latest) = IF HistoryLimit \leq Cardinality(S) THEN HistoryLimit ELSE Cardinality(S)
      /\ DOMAIN latest = 1..Len(latest) /\ Len(latest) \in Nat
      /\ \A i \in 1..Len(latest) : latest[i] \in S /\ FinishPlace(S, latest[i]) = Len(latest) - i
      /\ \A s : s \in ToSet(latest) <=> s \in S /\ FinishPlace(S, s) < HistoryLimit
  <2>1. /\ Len(latest) = IF HistoryLimit \leq Cardinality(S) THEN HistoryLimit ELSE Cardinality(S)
        /\ DOMAIN latest = 1..Len(latest) /\ Len(latest) \in Nat
    BY <1>1, ChartOfSome
  <2>2. \A i \in 1..Len(latest) : latest[i] \in S /\ FinishPlace(S, latest[i]) = Len(latest) - i
    BY <1>1, ChartOfSome
  <2>3. \A s : s \in ToSet(latest) <=> s \in S /\ FinishPlace(S, s) < HistoryLimit
    BY <1>1, ChartOfSome
  <2>4. QED  BY <2>1, <2>2, <2>3
<1>4. DOMAIN risk = 1..Len(latest) /\ Len(risk) = Len(latest)
  BY <1>2, <1>3
<1>5. \A i \in 1..Len(latest) : risk[i] = Point(latest[i]) /\ risk[i].scan = latest[i]
  BY <1>2, <1>3 DEF Point
<1>6. ASSUME NEW s \in S, FinishPlace(S, s) < HistoryLimit
      PROVE  \E i \in 1..Len(latest) : risk[i].scan = s
  <2>1. s \in ToSet(latest)
    BY <1>3, <1>6
  <2>2. PICK i \in 1..Len(latest) : latest[i] = s
    BY <1>3, <2>1 DEF ToSet
  <2>3. QED  BY <1>5, <2>2
<1>7. QED  BY <1>2, <1>3, <1>4, <1>5, <1>6 DEF S, latest

\* When the scan is the latest of its project, those before it are all the others:
\* each is one place further from the top among them than in the project's trend.
LEMMA PlacesOfPrior ==
    ASSUME GraphInv, NEW p, NEW s \in SucceededOf(p), FinishPlace(SucceededOf(p), s) = 0,
           NEW prior, prior = PriorTo(p, s)
    PROVE  /\ prior = SucceededOf(p) \ {s}
           /\ \A t \in prior : /\ FinishPlace(SucceededOf(p), t) \in Nat
                               /\ FinishPlace(prior, t) = FinishPlace(SucceededOf(p), t) - 1
<1> DEFINE S == SucceededOf(p)
<1>1. S \subseteq DOMAIN scans /\ \A t \in S : scans[t].finished # None
  BY DEF SucceededOf
<1> HIDE DEF S
<1>2. /\ IsFiniteSet(S)
      /\ \A t \in S : FinishPlace(S, t) \in Nat
      /\ \A t, u \in S : FinishPlace(S, t) = FinishPlace(S, u) => t = u
      /\ \A t, u \in S : FinishedAfter(t, u) <=> FinishPlace(S, t) < FinishPlace(S, u)
  <2>1. /\ IsFiniteSet(S) /\ Cardinality(S) \in Nat
        /\ \A t \in S : FinishPlace(S, t) \in 0..(Cardinality(S) - 1)
        /\ \A t, u \in S : FinishPlace(S, t) = FinishPlace(S, u) => t = u
        /\ \A t, u \in S : FinishedAfter(t, u) <=> FinishPlace(S, t) < FinishPlace(S, u)
    BY <1>1, FinishPlaces
  <2>2. QED  BY <2>1
<1>3. s \in S /\ FinishPlace(S, s) = 0 /\ prior = {t \in S : FinishedAfter(s, t)}
  BY DEF S, PriorTo
<1>4. prior = S \ {s}
  <2>1. \A t \in S : FinishedAfter(s, t) <=> t # s
    BY <1>2, <1>3
  <2>2. QED  BY <1>3, <2>1
<1>5. ASSUME NEW t \in prior PROVE FinishPlace(prior, t) = FinishPlace(S, t) - 1
  <2> DEFINE after == {u \in S : FinishedAfter(u, t)}
             afterOfPrior == {u \in prior : FinishedAfter(u, t)}
  <2>1. t \in S /\ FinishedAfter(s, t)
    BY <1>3
  <2>2. s \in after /\ afterOfPrior = after \ {s}
    BY <1>3, <1>4, <2>1
  <2>3. IsFiniteSet(after)
    BY <1>2, FS_Subset
  <2>4. FinishPlace(S, t) = Cardinality(after) /\ FinishPlace(prior, t) = Cardinality(afterOfPrior)
    BY DEF FinishPlace
  <2> HIDE DEF after, afterOfPrior
  <2>5. Cardinality(after \ {s}) = Cardinality(after) - 1
    BY <2>2, <2>3, FS_RemoveElement
  <2>6. QED  BY <2>2, <2>4, <2>5
<1>6. QED  BY <1>2, <1>4, <1>5 DEF S

\* The trend shown with the latest scan is the newest part of the project's trend.
LEMMA NewestShown ==
    ASSUME GraphInv, NEW p, NEW s \in SucceededOf(p), HistoryLimit > PreviousCount,
           NEW risk, risk = ProjectRiskTrend(p), s = risk[Len(risk)].scan
    PROVE  ToSet(OverviewTrend(s)) = ToSet(Newest(risk, PreviousCount + 1))
<1> DEFINE S == SucceededOf(p)
           n == Len(risk)
           k == PreviousCount
           prior == PriorTo(p, s)
           shown == OverviewTrend(s)
           first == Max({1, n - (k + 1) + 1})
           newest == Newest(risk, k + 1)
<1>1. k \in Nat /\ HistoryLimit \in Nat \ {0}
  BY DashboardsAssumption
<1>2. /\ DOMAIN risk = 1..n /\ n \in Nat
      /\ n = IF HistoryLimit \leq Cardinality(S) THEN HistoryLimit ELSE Cardinality(S)
      /\ \A i \in 1..n : risk[i] = Point(risk[i].scan) /\ risk[i].scan \in S
                         /\ FinishPlace(S, risk[i].scan) = n - i
      /\ \A t \in S : FinishPlace(S, t) < HistoryLimit => \E i \in 1..n : risk[i].scan = t
  BY RiskShown
<1>3. S \subseteq DOMAIN scans /\ \A t \in S : scans[t].finished # None
  BY DEF SucceededOf
<1>4. /\ IsFiniteSet(S) /\ Cardinality(S) \in Nat
      /\ \A t \in S : FinishPlace(S, t) \in 0..(Cardinality(S) - 1)
      /\ \A t, u \in S : FinishPlace(S, t) = FinishPlace(S, u) => t = u
  <2> HIDE DEF S
  <2>1. QED  BY <1>3, FinishPlaces
<1>5. n >= 1 /\ FinishPlace(S, s) = 0
  <2>1. Cardinality(S) >= 1
    BY <1>4
  <2>2. n >= 1
    BY <1>1, <1>2, <2>1
  <2>3. n \in 1..n
    BY <1>2, <2>2
  <2>4. FinishPlace(S, s) = n - n
    BY <1>2, <2>3
  <2>5. QED  BY <1>2, <2>2, <2>4
<1>6. /\ prior = S \ {s}
      /\ \A t \in prior : FinishPlace(S, t) \in Nat /\ FinishPlace(prior, t) = FinishPlace(S, t) - 1
  <2>1. FinishPlace(SucceededOf(p), s) = 0
    BY <1>5
  <2> HIDE DEF prior
  <2>2. prior = PriorTo(p, s)
    BY DEF prior
  <2>3. /\ prior = SucceededOf(p) \ {s}
        /\ \A t \in prior : /\ FinishPlace(SucceededOf(p), t) \in Nat
                            /\ FinishPlace(prior, t) = FinishPlace(SucceededOf(p), t) - 1
    BY <2>1, <2>2, PlacesOfPrior
  <2>4. QED  BY <2>3
<1>7. \A x : x \in ToSet(shown)
         <=> \/ x = Point(s)
             \/ \E t \in prior : FinishPlace(prior, t) < k /\ x = Point(t)
  <2>1. prior = PriorTo(p, s) /\ shown = OverviewTrend(s)
    OBVIOUS
  <2> HIDE DEF prior, shown
  <2>2. QED  BY <2>1, OverviewShown
<1> HIDE DEF S, prior, shown
<1>8. \A t : t = s \/ (t \in prior /\ FinishPlace(prior, t) < k) <=> t \in S /\ FinishPlace(S, t) \leq k
  <2>1. s \in S
    BY DEF S
  <2>2. \A t \in prior : FinishPlace(prior, t) < k <=> FinishPlace(S, t) \leq k
    <3>1. \A i \in Nat : i - 1 < k <=> i \leq k
      BY <1>1
    <3>2. QED  BY <1>6, <3>1
  <2>3. \A t \in S : t = s \/ t \in prior
    BY <1>6
  <2>4. FinishPlace(S, s) \leq k
    BY <1>1, <1>5
  <2>5. \A t \in prior : t \in S
    BY <1>6
  <2>6. QED  BY <2>1, <2>2, <2>3, <2>4, <2>5
<1>9. first \in 1..n /\ (first = 1 \/ first = n - k) /\ first >= n - k
  <2> DEFINE m == n - k
  <2>1. m \in Int /\ first = Max({1, m}) /\ m \leq n
    <3>1. n - (k + 1) + 1 = m /\ m \in Int /\ m \leq n
      <4> HIDE DEF n, k
      <4>1. QED  BY <1>1, <1>2
    <3>2. QED  BY <3>1
  <2> HIDE DEF m
  <2>2. \E x \in {1, m} : \A y \in {1, m} : x >= y
    BY <2>1
  <2>3. first \in {1, m} /\ first >= 1 /\ first >= m
    BY <2>1, <2>2 DEF Max
  <2>4. QED  BY <1>2, <1>5, <2>1, <2>3 DEF m
<1> HIDE DEF first, n
<1>10. /\ DOMAIN newest = 1..(n - first + 1)
       /\ \A i \in 1..(n - first + 1) : newest[i] = risk[first + i - 1]
  <2>1. newest = SubSeq(risk, first, n)
    BY DEF Newest, first, n
  <2> HIDE DEF newest
  <2>2. QED  BY <1>2, <1>9, <2>1
<1>11. \A x : x \in ToSet(newest) <=> \E i \in first..n : x = risk[i]
  <2>1. \A i \in 1..(n - first + 1) : first + i - 1 \in first..n
    BY <1>2, <1>9
  <2>2. \A i \in first..n : i - first + 1 \in 1..(n - first + 1) /\ first + (i - first + 1) - 1 = i
    BY <1>2, <1>9
  <2>3. \A x : x \in ToSet(newest) <=> \E i \in 1..(n - first + 1) : x = newest[i]
    BY <1>10 DEF ToSet
  <2> HIDE DEF newest
  <2>4. QED  BY <1>10, <2>1, <2>2, <2>3
<1>12. ASSUME NEW i \in first..n
       PROVE  risk[i] = Point(risk[i].scan) /\ risk[i].scan \in S /\ FinishPlace(S, risk[i].scan) \leq k
  <2>1. i \in 1..n /\ n - i \leq k
    BY <1>1, <1>2, <1>9
  <2>2. QED  BY <1>2, <2>1
<1>13. ASSUME NEW t \in S, FinishPlace(S, t) \leq k
       PROVE  \E i \in first..n : risk[i] = Point(t)
  <2>1. FinishPlace(S, t) < HistoryLimit
    BY <1>1, <1>4, <1>13
  <2>2. PICK i \in 1..n : risk[i].scan = t
    BY <1>2, <2>1
  <2>3. risk[i] = Point(t) /\ FinishPlace(S, t) = n - i
    BY <1>2, <2>2
  <2>4. i \in first..n
    BY <1>1, <1>2, <1>9, <1>13, <2>3
  <2>5. QED  BY <2>3, <2>4
<1>14. \A x : x \in ToSet(newest) <=> x \in ToSet(shown)
  <2> HIDE DEF newest
  <2>1. QED  BY <1>7, <1>8, <1>11, <1>12, <1>13
<1>15. QED  BY <1>14 DEF shown
\* What a settled scan adds to the chart of durations.
DurationOf(s) == Max({0, scans[s].finished - scans[s].started})

LEMMA DurationsShown ==
    ASSUME GraphInv, NEW p, NEW chart, chart = DurationTrend(p)
    PROVE  LET S == SettledOf(p) IN
           /\ DOMAIN chart = 1..Len(chart) /\ Len(chart) \in Nat
           /\ Len(chart) = IF HistoryLimit \leq Cardinality(S) THEN HistoryLimit ELSE Cardinality(S)
           /\ \A i \in 1..Len(chart) : /\ chart[i].scan \in S /\ FinishPlace(S, chart[i].scan) < HistoryLimit
                                       /\ chart[i].duration = DurationOf(chart[i].scan)
           /\ \A i, j \in 1..Len(chart) : chart[i].scan = chart[j].scan => i = j
           /\ \A s \in S : FinishPlace(S, s) < HistoryLimit =>
                 \E i \in 1..Len(chart) : chart[i].scan = s
<1> DEFINE S == SettledOf(p)
           latest == LatestSettled(p)
           n == Len(latest)
<1>1. /\ S \subseteq DOMAIN scans /\ HistoryLimit \in Nat
      /\ \A s \in S : scans[s].finished # None
      /\ latest = Reverse(Latest(S, HistoryLimit))
  BY ScansOfCharts, DashboardsAssumption
<1>2. chart = [i \in DOMAIN latest |-> [scan |-> latest[i], duration |-> DurationOf(latest[i])]]
  BY DEF DurationTrend, DurationOf
<1> HIDE DEF S, latest
<1>3. /\ n = IF HistoryLimit \leq Cardinality(S) THEN HistoryLimit ELSE Cardinality(S)
      /\ DOMAIN latest = 1..n /\ n \in Nat
      /\ \A s : s \in ToSet(latest) <=> s \in S /\ FinishPlace(S, s) < HistoryLimit
  <2>1. /\ n = IF HistoryLimit \leq Cardinality(S) THEN HistoryLimit ELSE Cardinality(S)
        /\ DOMAIN latest = 1..n /\ n \in Nat
    BY <1>1, ChartOfSome
  <2>2. \A s : s \in ToSet(latest) <=> s \in S /\ FinishPlace(S, s) < HistoryLimit
    BY <1>1, ChartOfSome
  <2>3. QED  BY <2>1, <2>2
<1>4. \A i, j \in 1..n : latest[i] = latest[j] => i = j
  <2>1. \A i \in 1..Len(latest) : latest[i] \in S /\ FinishPlace(S, latest[i]) = Len(latest) - i
    BY <1>1, ChartOfSome
  <2>2. \A i \in 1..n : FinishPlace(S, latest[i]) = n - i
    BY <2>1
  <2>3. \A i, j \in 1..n : n - i = n - j => i = j
    BY <1>3
  <2> HIDE DEF n
  <2>4. QED  BY <2>2, <2>3
<1> HIDE DEF n
<1>5. DOMAIN chart = 1..n /\ Len(chart) = n
  BY <1>2, <1>3
<1>6. \A i \in 1..n : chart[i].scan = latest[i] /\ chart[i].duration = DurationOf(latest[i])
  BY <1>2, <1>3
<1>7. \A i \in 1..n : latest[i] \in S /\ FinishPlace(S, latest[i]) < HistoryLimit
  BY <1>3 DEF ToSet
<1>8. ASSUME NEW s \in S, FinishPlace(S, s) < HistoryLimit
      PROVE  \E i \in 1..n : chart[i].scan = s
  <2>1. s \in ToSet(latest)
    BY <1>3, <1>8
  <2>2. PICK i \in 1..n : latest[i] = s
    BY <1>3, <2>1 DEF ToSet
  <2>3. QED  BY <1>6, <2>2
<1>9. QED  BY <1>3, <1>4, <1>5, <1>6, <1>7, <1>8 DEF S

\* A scan of the trend the chart of durations leaves out is older than all it shows.
LEMMA NoneLeftOut ==
    ASSUME GraphInv, NEW p, NEW s \in SucceededOf(p),
           NEW duration, duration = DurationTrend(p)
    PROVE  \/ s \in ToSet(Scanned(duration))
           \/ \A point \in ToSet(duration) : FinishedAfter(point.scan, s)
<1> DEFINE S == SettledOf(p)
<1>1. s \in S /\ S \subseteq DOMAIN scans /\ \A t \in S : scans[t].finished # None
  BY ScansOfCharts
<1>2. /\ DOMAIN duration = 1..Len(duration)
      /\ \A i \in 1..Len(duration) : duration[i].scan \in S /\ FinishPlace(S, duration[i].scan) < HistoryLimit
      /\ \A t \in S : FinishPlace(S, t) < HistoryLimit => \E i \in 1..Len(duration) : duration[i].scan = t
  BY DurationsShown
<1> HIDE DEF S
<1>3. /\ \A t \in S : FinishPlace(S, t) \in Nat
      /\ \A t, u \in S : FinishedAfter(t, u) <=> FinishPlace(S, t) < FinishPlace(S, u)
  <2>1. /\ Cardinality(S) \in Nat
        /\ \A t \in S : FinishPlace(S, t) \in 0..(Cardinality(S) - 1)
        /\ \A t, u \in S : FinishedAfter(t, u) <=> FinishPlace(S, t) < FinishPlace(S, u)
    BY <1>1, FinishPlaces
  <2>2. QED  BY <2>1
<1>4. CASE FinishPlace(S, s) < HistoryLimit
  <2>1. PICK i \in 1..Len(duration) : duration[i].scan = s
    BY <1>1, <1>2, <1>4
  <2>2. QED  BY <1>2, <2>1 DEF Scanned, ToSet
<1>5. CASE ~ FinishPlace(S, s) < HistoryLimit
  <2>1. ASSUME NEW i \in 1..Len(duration) PROVE FinishedAfter(duration[i].scan, s)
    <3>1. FinishPlace(S, duration[i].scan) < FinishPlace(S, s)
      BY <1>1, <1>2, <1>3, <1>5, DashboardsAssumption
    <3>2. QED  BY <1>1, <1>2, <1>3, <3>1
  <2>2. QED  BY <1>2, <2>1 DEF ToSet
<1>6. QED  BY <1>4, <1>5

\* Those the administrator's average is taken of.
ValidOf(p) ==
    {s \in DOMAIN scans : /\ ProjectOf[s] = p /\ scans[s].started # None /\ scans[s].finished # None
                          /\ scans[s].finished >= scans[s].started}

LEMMA DurationsAddUp ==
    ASSUME GraphInv, NEW p
    PROVE  LET T == SumFunctionOnSet([s \in SettledOf(p) |-> DurationOf(s)], SettledOf(p)) IN
           /\ ValidOf(p) \subseteq SettledOf(p) /\ IsFiniteSet(SettledOf(p))
           /\ T \in Nat
           /\ T = SumFunction([s \in ValidOf(p) |-> scans[s].finished - scans[s].started])
<1> DEFINE S == SettledOf(p)
           V == ValidOf(p)
           R == S \ V
           f == [s \in S |-> DurationOf(s)]
           g == [s \in V |-> scans[s].finished - scans[s].started]
           zero == [s \in S |-> 0]
<1>1. /\ S \subseteq DOMAIN scans
      /\ \A s \in S : ProjectOf[s] = p /\ scans[s].started \in Nat /\ scans[s].finished \in Nat
  BY ScansOfCharts
<1>2. V \subseteq S
  <2>1. \A s \in DOMAIN scans : Row(scans[s])
    BY DEF GraphInv, Rows
  <2>2. ASSUME NEW s \in V PROVE s \in S
    BY <2>1 DEF ValidOf, SettledOf, Row, Settled, Status
  <2>3. QED  BY <2>2
<1>3. IsFiniteSet(S) /\ IsFiniteSet(V) /\ IsFiniteSet(R) /\ V \cap R = {} /\ S = V \cup R
  BY <1>1, <1>2, ScansAreFinite, FS_Subset
<1>4. \A s \in V : scans[s].finished >= scans[s].started
  BY DEF ValidOf
<1>5. \A s \in R : ~ scans[s].finished >= scans[s].started
  BY <1>1, DashboardsAssumption DEF ValidOf
<1> HIDE DEF S, V
<1>6. \A m \in Int : Max({0, m}) = IF m >= 0 THEN m ELSE 0
  <2>1. TAKE m \in Int
  <2>2. \E x \in {0, m} : \A y \in {0, m} : x >= y
    OBVIOUS
  <2>3. QED  BY <2>2 DEF Max
<1>7. ASSUME NEW s \in S
      PROVE  /\ f[s] \in Nat /\ zero[s] = 0
             /\ s \in V => f[s] = g[s] /\ g[s] \in Int
             /\ s \in R => f[s] = 0
  <2> DEFINE m == scans[s].finished - scans[s].started
  <2>1. m \in Int /\ f[s] = Max({0, m}) /\ (s \in V => g[s] = m)
    BY <1>1 DEF DurationOf
  <2>2. s \in V => m >= 0
    BY <1>1, <1>4
  <2>3. s \in R => ~ m >= 0
    BY <1>1, <1>5
  <2> HIDE DEF m, f, g
  <2>4. QED  BY <1>6, <2>1, <2>2, <2>3
<1>8. SumFunction(g) = SumFunctionOnSet(g, V)
  BY DEF SumFunction
<1> HIDE DEF f, g, zero, R
<1>9. SumFunctionOnSet(f, V) = SumFunctionOnSet(g, V)
  <2>1. \A s \in V : g[s] \in Int /\ f[s] = g[s]
    BY <1>2, <1>7
  <2>2. QED  BY <1>3, <2>1, SumSame
<1>10. SumFunctionOnSet(f, R) = 0
  <2>1. \A s \in R : f[s] = 0
    BY <1>3, <1>7
  <2>2. QED  BY <1>3, <2>1, SumOfZeros
<1>11. SumFunctionOnSet(f, S) = SumFunctionOnSet(f, V) + SumFunctionOnSet(f, R)
  <2>1. \A s \in V \cup R : f[s] \in Int
    BY <1>3, <1>7
  <2>2. QED  BY <1>3, <2>1, SumUnion
<1>12. SumFunctionOnSet(f, S) \in Int /\ SumFunctionOnSet(f, V) \in Int
  BY <1>2, <1>3, <1>7, SumType
<1>13. 0 \leq SumFunctionOnSet(f, S)
  <2>1. SumFunctionOnSet(zero, S) = 0
    BY <1>3, <1>7, SumOfZeros
  <2>2. SumFunctionOnSet(zero, S) \leq SumFunctionOnSet(f, S)
    BY <1>3, <1>7, SumAtMost
  <2>3. QED  BY <2>1, <2>2
<1>14. SumFunctionOnSet(f, S) = SumFunction(g)
  BY <1>8, <1>9, <1>10, <1>11, <1>12
<1>15. QED  BY <1>2, <1>3, <1>12, <1>13, <1>14 DEF S, V, f, g
\* When the chart of durations leaves out no scan, the administrator's average is
\* not below that of the chart.
LEMMA AveragesAgree ==
    ASSUME GraphInv, NEW p, NEW duration, duration = DurationTrend(p), Cardinality(SettledOf(p)) <= HistoryLimit
    PROVE  LET average == AdminProject(p).average_scan_duration
               total   == SumFunction([i \in DOMAIN duration |-> duration[i].duration]) IN
           /\ average = None => total = 0
           /\ average # None => average >= total \div Len(duration)
<1> DEFINE S == SettledOf(p)
           V == ValidOf(p)
           n == Len(duration)
           f == [s \in S |-> DurationOf(s)]
           g == [s \in V |-> scans[s].finished - scans[s].started]
           shown == [i \in DOMAIN duration |-> duration[i].duration]
           names == [i \in 1..n |-> duration[i].scan]
           average == AdminProject(p).average_scan_duration
           total == SumFunction(shown)
<1>1. /\ DOMAIN duration = 1..n /\ n \in Nat
      /\ n = IF HistoryLimit \leq Cardinality(S) THEN HistoryLimit ELSE Cardinality(S)
      /\ \A i \in 1..n : /\ duration[i].scan \in S
                         /\ duration[i].duration = DurationOf(duration[i].scan)
      /\ \A i, j \in 1..n : duration[i].scan = duration[j].scan => i = j
      /\ \A s \in S : FinishPlace(S, s) < HistoryLimit => \E i \in 1..n : duration[i].scan = s
  BY DurationsShown
<1>2. S \subseteq DOMAIN scans /\ \A s \in S : scans[s].finished # None
  BY ScansOfCharts
<1>3. V \subseteq S /\ IsFiniteSet(S) /\ IsFiniteSet(V)
      /\ SumFunctionOnSet(f, S) \in Nat /\ SumFunctionOnSet(f, S) = SumFunction(g)
  BY DurationsAddUp, FS_Subset
<1>4. \A s \in S : f[s] \in Int /\ f[s] = DurationOf(s)
  <2>1. \A s \in S : scans[s].started \in Nat /\ scans[s].finished \in Nat
    BY ScansOfCharts
  <2>2. \A m \in Int : Max({0, m}) \in Int
    <3>1. TAKE m \in Int
    <3>2. \E x \in {0, m} : \A y \in {0, m} : x >= y
      OBVIOUS
    <3>3. QED  BY <3>2 DEF Max
  <2>3. QED  BY <2>1, <2>2 DEF DurationOf
<1>5. average = IF V = {} THEN None ELSE SumFunction(g) \div Cardinality(V)
  BY DEF AdminProject, ValidOf
<1>6. total = SumFunctionOnSet(shown, 1..n)
  BY <1>1 DEF SumFunction
<1>7. \A i \in 1..n : names[i] = duration[i].scan /\ shown[i] = duration[i].duration
  BY <1>1
<1> HIDE DEF S, V, f, g, shown, names, average, total, n
<1>8. Cardinality(S) \in Nat /\ HistoryLimit \in Nat
      /\ \A s \in S : FinishPlace(S, s) \in 0..(Cardinality(S) - 1)
  BY <1>2, FinishPlaces, DashboardsAssumption
<1>9. n = Cardinality(S) /\ \A s \in S : FinishPlace(S, s) < HistoryLimit
  <2>1. Cardinality(S) <= HistoryLimit
    BY DEF S
  <2>2. QED  BY <1>1, <1>8, <2>1
<1>10. \A s : s \in S <=> \E i \in 1..n : s = names[i]
  <2>1. \A i \in 1..n : names[i] \in S
    BY <1>1, <1>7
  <2>2. \A s \in S : \E i \in 1..n : names[i] = s
    BY <1>1, <1>7, <1>9
  <2>3. QED  BY <2>1, <2>2
<1>11. SumFunctionOnSet(f, S) = SumFunctionOnSet(shown, 1..n)
  <2>1. \A i \in 1..n : shown[i] \in Int /\ f[names[i]] = shown[i]
    BY <1>1, <1>4, <1>7
  <2>2. \A i, j \in 1..n : names[i] = names[j] => i = j
    BY <1>1, <1>7
  <2>3. IsFiniteSet(1..n)
    <3>1. n \in Int /\ 1 \in Int
      BY <1>1
    <3>2. QED  BY <3>1, FS_Interval
  <2>4. PICK places : places = 1..n
    OBVIOUS
  <2>5. /\ IsFiniteSet(places) /\ \A i, j \in places : names[i] = names[j] => i = j
        /\ \A i \in places : shown[i] \in Int /\ f[names[i]] = shown[i]
        /\ \A s : s \in S <=> \E i \in places : s = names[i]
    BY <1>10, <2>1, <2>2, <2>3, <2>4
  <2>6. SumFunctionOnSet(f, S) = SumFunctionOnSet(shown, places)
    BY <2>5, SumRenamed
  <2>7. QED  BY <2>4, <2>6
<1>12. total = SumFunction(g) /\ total \in Nat
  BY <1>3, <1>6, <1>11
<1>13. ASSUME V = {} PROVE average = None /\ total = 0
  <2>1. SumFunction(g) = SumFunctionOnSet(g, {})
    <3>1. DOMAIN g = {}
      BY <1>13 DEF g
    <3>2. QED  BY <3>1 DEF SumFunction
  <2>2. QED  BY <1>5, <1>12, <1>13, <2>1, SumOfNone
<1>14. ASSUME V # {} PROVE average # None /\ average >= total \div n
  <2>1. Cardinality(V) \in Nat /\ Cardinality(V) > 0 /\ Cardinality(V) \leq n
    <3>1. Cardinality(V) \in Nat /\ Cardinality(V) \leq Cardinality(S)
      BY <1>3, FS_Subset, FS_CardinalityType
    <3>2. Cardinality(V) # 0
      BY <1>3, <1>14, FS_EmptySet
    <3>3. QED  BY <1>9, <3>1, <3>2
  <2>2. average = total \div Cardinality(V)
    BY <1>5, <1>12, <1>14
  <2>3. total \div n \leq total \div Cardinality(V)
    BY <1>1, <1>12, <2>1, QuotientShared
  <2>4. total \div Cardinality(V) \in Int /\ total \div n \in Int
    BY <1>1, <1>12, <2>1, Quotient
  <2>5. QED  BY <2>2, <2>3, <2>4, DashboardsAssumption
<1>15. QED  BY <1>13, <1>14 DEF average, total, shown, n

LEMMA TrendsOfCharts == ASSUME GraphInv PROVE TrendsAgree
<1> SUFFICES ASSUME NEW p \in Projects
    PROVE LET risk     == ProjectRiskTrend(p)
              duration == DurationTrend(p) IN
        /\ Scanned(PriorityDistribution(p)) = Scanned(risk)
        /\ Scanned(FilesAnalyzed(p)) = Scanned(risk)
        /\ \A s \in SucceededOf(p) :
              LET shown == OverviewTrend(s) IN
              /\ \A i, j \in DOMAIN shown : i < j => shown[i].finished <= shown[j].finished
              /\ \A point \in ToSet(shown), other \in ToSet(risk) :
                    point.scan = other.scan => point = other
              /\ s = risk[Len(risk)].scan /\ HistoryLimit > PreviousCount =>
                    ToSet(shown) = ToSet(Newest(risk, PreviousCount + 1))
        /\ \A i \in DOMAIN risk :
              \/ risk[i].scan \in ToSet(Scanned(duration))
              \/ \A point \in ToSet(duration) : FinishedAfter(point.scan, risk[i].scan)
        /\ Cardinality(SettledOf(p)) <= HistoryLimit =>
              LET average == AdminProject(p).average_scan_duration
                  total   == SumFunction([i \in DOMAIN duration |-> duration[i].duration]) IN
              /\ average = None => total = 0
              /\ average # None => average >= total \div Len(duration)
  BY DEF TrendsAgree
<1> DEFINE risk     == ProjectRiskTrend(p)
           duration == DurationTrend(p)
<1>1. Scanned(PriorityDistribution(p)) = Scanned(risk) /\ Scanned(FilesAnalyzed(p)) = Scanned(risk)
  <2> DEFINE latest == LatestSucceeded(p)
             scansOf == [i \in DOMAIN latest |-> latest[i]]
  <2>1. Scanned(risk) = scansOf
    BY DEF ProjectRiskTrend, Point, Scanned
  <2>2. Scanned(PriorityDistribution(p)) = scansOf
    BY DEF PriorityDistribution, Scanned
  <2>3. Scanned(FilesAnalyzed(p)) = scansOf
    BY DEF FilesAnalyzed, Scanned
  <2>4. QED  BY <2>1, <2>2, <2>3
<1>2. /\ DOMAIN risk = 1..Len(risk)
      /\ \A i \in 1..Len(risk) : risk[i] = Point(risk[i].scan) /\ risk[i].scan \in SucceededOf(p)
  BY RiskShown
<1> HIDE DEF risk, duration
<1>3. ASSUME NEW s \in SucceededOf(p), NEW shown, shown = OverviewTrend(s)
      PROVE  /\ \A i, j \in DOMAIN shown : i < j => shown[i].finished <= shown[j].finished
             /\ \A point \in ToSet(shown), other \in ToSet(risk) :
                   point.scan = other.scan => point = other
             /\ s = risk[Len(risk)].scan /\ HistoryLimit > PreviousCount =>
                   ToSet(shown) = ToSet(Newest(risk, PreviousCount + 1))
  <2>1. PICK prior : prior = PriorTo(p, s)
    OBVIOUS
  <2>2. \A i, j \in DOMAIN shown : i < j => shown[i].finished <= shown[j].finished
    BY <1>3, <2>1, OverviewShown
  <2>3. \A x : x \in ToSet(shown)
           <=> \/ x = Point(s)
               \/ \E t \in prior : FinishPlace(prior, t) < PreviousCount /\ x = Point(t)
    BY <1>3, <2>1, OverviewShown
  <2>4. ASSUME NEW point \in ToSet(shown), NEW other \in ToSet(risk), point.scan = other.scan
        PROVE  point = other
    <3>1. PICK t : point = Point(t)
      BY <2>3
    <3>2. PICK i \in 1..Len(risk) : other = risk[i]
      BY <1>2 DEF ToSet
    <3>3. other = Point(other.scan)
      BY <1>2, <3>2
    <3>4. point = Point(point.scan)
      BY <3>1 DEF Point
    <3>5. QED  BY <2>4, <3>3, <3>4
  <2>5. ASSUME s = risk[Len(risk)].scan, HistoryLimit > PreviousCount
        PROVE  ToSet(shown) = ToSet(Newest(risk, PreviousCount + 1))
    <3>1. PICK trend : trend = ProjectRiskTrend(p)
      OBVIOUS
    <3>2. risk = trend
      BY <3>1 DEF risk
    <3>3. QED  BY <1>3, <2>5, <3>1, <3>2, NewestShown
  <2>6. QED  BY <2>2, <2>4, <2>5
<1>4. ASSUME NEW i \in DOMAIN risk
      PROVE  \/ risk[i].scan \in ToSet(Scanned(duration))
             \/ \A point \in ToSet(duration) : FinishedAfter(point.scan, risk[i].scan)
  <2>1. PICK chart : chart = DurationTrend(p)
    OBVIOUS
  <2>2. PICK s \in SucceededOf(p) : s = risk[i].scan
    BY <1>2
  <2>3. s \in ToSet(Scanned(chart)) \/ \A point \in ToSet(chart) : FinishedAfter(point.scan, s)
    BY <2>1, NoneLeftOut
  <2>4. QED  BY <2>1, <2>2, <2>3 DEF duration
<1>5. ASSUME Cardinality(SettledOf(p)) <= HistoryLimit
      PROVE  LET average == AdminProject(p).average_scan_duration
                 total   == SumFunction([i \in DOMAIN duration |-> duration[i].duration]) IN
             /\ average = None => total = 0
             /\ average # None => average >= total \div Len(duration)
  <2>1. PICK chart : chart = DurationTrend(p) /\ chart = duration
    BY DEF duration
  <2>2. QED  BY <1>5, <2>1, AveragesAgree
<1>6. QED  BY <1>1, <1>3, <1>4, <1>5 DEF risk, duration

\* The charts of a project agree, for any number of scans and any limits.
\* (scans_repository.py, files_repository.py, overview_repository.py,
\* projects_repository.py)
THEOREM TrendsAlwaysAgree == Spec => []TrendsAgree
<1>1. GraphInv => TrendsAgree
  BY TrendsOfCharts
<1>2. QED  BY <1>1, GraphInvariant, PTL
=============================================================================
