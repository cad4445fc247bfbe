------------------------- MODULE ScanLifecycleProofs -------------------------
(* What holds of ScanLifecycle for any projects, scans, workers, deletion  *)
(* handlers and faults.                                                    *)
EXTENDS ScanLifecycle, TLAPS

\* The case analysis every step lemma goes through.
LEMMA NextCases ==
    ASSUME Next
    PROVE  \/ \E s \in Scans : CheckProject(s) \/ CreateScan(s) \/ EnqueueScan(s)
                                 \/ EnqueueFails(s) \/ Redeliver(s)
           \/ \E w \in Workers, s \in Scans :
                  Receive(w, s) \/ DeliverRevoke(w, s) \/ LoseRevoke(w, s)
           \/ \E w \in Workers : Discard(w) \/ Accept(w) \/ TaskLost(w) \/ WorkerRestart(w)
           \/ \E w \in Workers : OnScanStarted(w) \/ LoadScan(w) \/ PrepareWorkspace(w)
                                   \/ RunScan(w) \/ CleanUp(w)
           \/ \E w \in Workers : OnScanSucceeded(w) \/ OnScanFailed(w)
           \/ \E d \in Deleters, s \in Scans :
                  RequestCancellation(d, s) \/ DeleteWorkspace(d, s) \/ Compensate(d, s)
           \/ \E d \in Deleters : DeletePreparedProject(d) \/ DeletionCrash(d)
           \/ \E d \in Deleters, p \in Projects : PrepareOwnedDeletion(d, p)
           \/ \E u \in Users : DeleteUser(u)
  BY DEF Next, RequestStep, Delivery, TaskStep, DeletionStep

\* Every status the code writes yields a row of the right type.
LEMMA MovedRow ==
    ASSUME NEW row \in Row, NEW to \in Statuses
    PROVE  /\ Moved(row, to) \in Row
           /\ Moved(row, to).status = to
<1>1. /\ (row.started_at \/ to = "running") \in BOOLEAN
      /\ (to \in Terminal) \in BOOLEAN
      /\ (to = "failed") \in BOOLEAN
  OBVIOUS
<1>2. QED
  BY <1>1, Zenon DEF Moved, Row


-----------------------------------------------------------------------------
(* Types.                                                                  *)

WorkerRecord == [at : WorkerStates, scan : Scans \cup {NoScan}]
DeletionRecord == [at : DeletionStates, project : Projects \cup {NoProject},
                   scans : SUBSET Scans, active : SUBSET Scans, todo : SUBSET Scans]

\* A worker that is not idle has a task.
Busy == \A w \in Workers : worker[w].at # "idle" => worker[w].scan \in Scans

TypeInv == TypeOK /\ Busy

LEMMA MoveType ==
    ASSUME TypeOK, NEW s \in Scans, NEW to \in Statuses, Move(s, to)
    PROVE  scan' \in [Scans -> Row]
  BY MovedRow DEF TypeOK, Move

LEMMA MoveOrNotType ==
    ASSUME TypeOK, NEW s \in Scans, NEW to \in Statuses, NEW expected,
           MoveOrNot(s, to, expected)
    PROVE  scan' \in [Scans -> Row]
  BY MoveType DEF TypeOK, MoveOrNot

LEMMA GoType ==
    ASSUME TypeInv, NEW w \in Workers, NEW place \in WorkerStates,
           worker[w].at # "idle", Go(w, place)
    PROVE  worker' \in [Workers -> WorkerRecord] /\ Busy'
  BY DEF TypeInv, TypeOK, Busy, Go, WorkerRecord

LEMMA FinishType ==
    ASSUME TypeInv, NEW w \in Workers, Finish(w)
    PROVE  worker' \in [Workers -> WorkerRecord] /\ Busy'
<1>1. IdleWorker \in WorkerRecord /\ IdleWorker.at = "idle"
  BY DEF IdleWorker, WorkerRecord, WorkerStates
<1>2. QED
  BY <1>1 DEF TypeInv, TypeOK, Busy, Finish, WorkerRecord

LEMMA OnwardsType ==
    ASSUME TypeOK, NEW d \in Deleters, NEW phase \in {"revoking", "cleaning"},
           NEW left \in SUBSET Scans, Onwards(d, phase, left)
    PROVE  deletion' \in [Deleters -> DeletionRecord]
<1> DEFINE plan == deletion[d]
           next == IF left # {} THEN [plan EXCEPT !.at = phase, !.todo = left]
                   ELSE IF phase = "revoking" /\ plan.scans # {}
                        THEN [plan EXCEPT !.at = "cleaning", !.todo = plan.scans]
                        ELSE [plan EXCEPT !.at = "committing", !.todo = {}]
<1>1. plan \in DeletionRecord
  BY DEF TypeOK, DeletionRecord
<1>2. {"revoking", "cleaning", "committing"} \subseteq DeletionStates
  BY DEF DeletionStates, HoldingLocks
<1>3. next \in DeletionRecord
  BY <1>1, <1>2 DEF DeletionRecord
<1>4. deletion' = [deletion EXCEPT ![d] = next]
  BY DEF Onwards
<1>5. QED
  BY <1>3, <1>4 DEF TypeOK, DeletionRecord

LEMMA IdleDeletionType == IdleDeletion \in DeletionRecord
  BY DEF IdleDeletion, DeletionRecord, DeletionStates

LEMMA AbortType ==
    ASSUME TypeOK, NEW d \in Deleters, Abort(d)
    PROVE  deletion' \in [Deleters -> DeletionRecord]
  BY IdleDeletionType DEF TypeOK, Abort, DeletionRecord, DeletionStates

LEMMA CascadeType ==
    ASSUME TypeOK, NEW gone, Cascade(gone)
    PROVE  /\ projects' \subseteq Projects
           /\ scan' \in [Scans -> Row]
           /\ results' \subseteq Scans
  BY DEF TypeOK, Cascade, NoRow, Row

LEMMA TypeInit == Init => TypeInv
  BY DEF Init, TypeInv, TypeOK, Busy, NoRow, Row, IdleWorker, IdleDeletion,
         WorkerStates, DeletionStates, RequestStates

LEMMA TypeRequest ==
    ASSUME TypeInv, NEW s \in Scans,
           CheckProject(s) \/ CreateScan(s) \/ EnqueueScan(s) \/ EnqueueFails(s) \/ Redeliver(s)
    PROVE  TypeInv'
<1> USE DEF rowVars, brokerVars, historyVars
<1>1. NewRow \in Row
  BY DEF NewRow, NoRow, Row, Statuses, Active
<1>2. CASE CheckProject(s)
  BY <1>2 DEF TypeInv, TypeOK, Busy, CheckProject, RequestStates
<1>3. CASE CreateScan(s)
  BY <1>1, <1>3 DEF TypeInv, TypeOK, Busy, CreateScan, RequestStates
<1>4. CASE EnqueueScan(s)
  BY <1>4 DEF TypeInv, TypeOK, Busy, EnqueueScan, RequestStates
<1>5. CASE EnqueueFails(s)
  BY <1>5 DEF TypeInv, TypeOK, Busy, EnqueueFails, RequestStates
<1>6. CASE Redeliver(s)
  BY <1>6 DEF TypeInv, TypeOK, Busy, Redeliver
<1>7. QED BY <1>2, <1>3, <1>4, <1>5, <1>6

LEMMA TypeBroker ==
    ASSUME TypeInv, NEW w \in Workers, NEW s \in Scans,
           Receive(w, s) \/ DeliverRevoke(w, s) \/ LoseRevoke(w, s)
    PROVE  TypeInv'
<1> USE DEF rowVars, brokerVars, historyVars
<1>1. CASE Receive(w, s)
  BY <1>1 DEF TypeInv, TypeOK, Busy, Receive, WorkerStates
<1>2. CASE DeliverRevoke(w, s)
  <2>1. worker' \in [Workers -> WorkerRecord] /\ Busy'
    BY <1>2, FinishType DEF DeliverRevoke, TypeInv, TypeOK, Busy, WorkerRecord
  <2>2. QED
    BY <1>2, <2>1 DEF TypeInv, TypeOK, DeliverRevoke, WorkerRecord
<1>3. CASE LoseRevoke(w, s)
  BY <1>3 DEF TypeInv, TypeOK, Busy, LoseRevoke
<1>4. QED BY <1>1, <1>2, <1>3

LEMMA TypeProcess ==
    ASSUME TypeInv, NEW w \in Workers,
           Discard(w) \/ Accept(w) \/ TaskLost(w) \/ WorkerRestart(w)
    PROVE  TypeInv'
<1> USE DEF rowVars, brokerVars, historyVars
<1>4. CASE Discard(w)
  BY <1>4, FinishType DEF TypeInv, TypeOK, Discard, WorkerRecord
<1>5. CASE Accept(w)
  <2>1. worker' \in [Workers -> WorkerRecord] /\ Busy'
    BY <1>5, GoType DEF Accept, At, WorkerStates
  <2>2. QED
    BY <1>5, <2>1 DEF TypeInv, TypeOK, Accept, WorkerRecord
<1>6. CASE TaskLost(w)
  BY <1>6, FinishType DEF TypeInv, TypeOK, TaskLost, WorkerRecord
<1>7. CASE WorkerRestart(w)
  BY <1>7, FinishType DEF TypeInv, TypeOK, WorkerRestart, WorkerRecord
<1>8. QED BY <1>4, <1>5, <1>6, <1>7

LEMMA TypeTask ==
    ASSUME TypeInv, NEW w \in Workers,
           \/ OnScanStarted(w) \/ LoadScan(w) \/ PrepareWorkspace(w) \/ RunScan(w)
           \/ CleanUp(w) \/ OnScanSucceeded(w) \/ OnScanFailed(w)
    PROVE  TypeInv'
<1> USE DEF rowVars, brokerVars, historyVars
<1>0. worker[w].at # "idle" /\ worker[w].scan \in Scans
  BY DEF OnScanStarted, LoadScan, PrepareWorkspace, RunScan, CleanUp, OnScanSucceeded,
         OnScanFailed, At, TypeInv, Busy
<1>1. {"loading", "preparing", "scanning", "cleaning", "succeeding", "abandoning", "failing"}
         \subseteq WorkerStates
  BY DEF WorkerStates, InPipeline
<1>2. {"running", "succeeded", "failed"} \subseteq Statuses
  BY DEF Statuses, Active, Terminal
<1>3. worker' \in [Workers -> WorkerRecord] /\ Busy'
  BY <1>0, <1>1, GoType, FinishType
     DEF OnScanStarted, LoadScan, PrepareWorkspace, RunScan, CleanUp, OnScanSucceeded,
         OnScanFailed, Settle
<1>4. CASE OnScanStarted(w)
  <2>1. scan' \in [Scans -> Row]
    BY <1>0, <1>2, <1>4, MoveType, MoveOrNotType DEF OnScanStarted, TypeInv, TypeOK
  <2>2. runs' \in [Scans -> Nat]
    BY <1>0, <1>4 DEF OnScanStarted, TypeInv, TypeOK
  <2>3. QED
    BY <1>3, <1>4, <2>1, <2>2 DEF OnScanStarted, TypeInv, TypeOK, WorkerRecord
<1>5. CASE LoadScan(w)
  BY <1>3, <1>5 DEF LoadScan, TypeInv, TypeOK, WorkerRecord
<1>6. CASE PrepareWorkspace(w)
  BY <1>0, <1>3, <1>6 DEF PrepareWorkspace, TypeInv, TypeOK, WorkerRecord
<1>7. CASE RunScan(w)
  BY <1>0, <1>3, <1>7 DEF RunScan, TypeInv, TypeOK, WorkerRecord
<1>8. CASE CleanUp(w)
  BY <1>0, <1>3, <1>8 DEF CleanUp, TypeInv, TypeOK, WorkerRecord
<1>9. CASE OnScanSucceeded(w) \/ OnScanFailed(w)
  <2>1. scan' \in [Scans -> Row]
    BY <1>0, <1>2, <1>9, MoveType, MoveOrNotType
       DEF OnScanSucceeded, OnScanFailed, Settle, TypeInv, TypeOK
  <2>2. QED
    BY <1>3, <1>9, <2>1
       DEF OnScanSucceeded, OnScanFailed, Settle, TypeInv, TypeOK, WorkerRecord
<1>10. QED BY <1>4, <1>5, <1>6, <1>7, <1>8, <1>9

LEMMA TypeDeletion ==
    ASSUME TypeInv, NEW d \in Deleters, NEW s \in Scans,
           \/ RequestCancellation(d, s) \/ DeleteWorkspace(d, s) \/ Compensate(d, s)
    PROVE  TypeInv'
<1> USE DEF rowVars, brokerVars, historyVars
<1>0. deletion[d].todo \ {s} \in SUBSET Scans
  BY DEF TypeInv, TypeOK
<1>1. CASE RequestCancellation(d, s)
  <2>1. deletion' \in [Deleters -> DeletionRecord]
    BY <1>0, <1>1, OnwardsType DEF RequestCancellation, TypeInv
  <2>2. QED
    BY <1>1, <2>1 DEF RequestCancellation, TypeInv, TypeOK, Busy, DeletionRecord
<1>2. CASE DeleteWorkspace(d, s)
  <2>1. deletion' \in [Deleters -> DeletionRecord]
    BY <1>0, <1>2, OnwardsType, AbortType DEF DeleteWorkspace, TypeInv
  <2>2. QED
    BY <1>2, <2>1 DEF DeleteWorkspace, TypeInv, TypeOK, Busy, DeletionRecord
<1>3. CASE Compensate(d, s)
  <2>1. deletion' \in [Deleters -> DeletionRecord]
    <3>1. Compensated(deletion[d], s) \in DeletionRecord
      BY IdleDeletionType DEF Compensated, TypeInv, TypeOK, DeletionRecord
    <3>2. QED
      BY <1>3, <3>1, IdleDeletionType DEF Compensate, TypeInv, TypeOK, DeletionRecord
  <2>2. scan' \in [Scans -> Row]
    BY <1>3, MoveType, MoveOrNotType DEF Compensate, TypeInv, TypeOK, Statuses, Terminal
  <2>3. QED
    BY <1>3, <2>1, <2>2 DEF Compensate, TypeInv, TypeOK, Busy, DeletionRecord
<1>4. QED BY <1>1, <1>2, <1>3

LEMMA TypeRemoval ==
    ASSUME TypeInv, NEW d \in Deleters,
           \/ DeletePreparedProject(d) \/ DeletionCrash(d)
           \/ \E p \in Projects : PrepareOwnedDeletion(d, p)
    PROVE  TypeInv'
<1> USE DEF rowVars, brokerVars, historyVars
<1>1. CASE DeletePreparedProject(d)
  <2>1. deletion' \in [Deleters -> DeletionRecord]
    BY <1>1, IdleDeletionType, AbortType DEF DeletePreparedProject, TypeInv, TypeOK, DeletionRecord
  <2>2. /\ projects' \subseteq Projects
        /\ scan' \in [Scans -> Row]
        /\ results' \subseteq Scans
    BY <1>1, CascadeType DEF DeletePreparedProject, TypeInv, TypeOK
  <2>3. QED
    BY <1>1, <2>1, <2>2 DEF DeletePreparedProject, TypeInv, TypeOK, Busy, DeletionRecord
<1>2. CASE DeletionCrash(d)
  BY <1>2, IdleDeletionType DEF DeletionCrash, TypeInv, TypeOK, Busy, DeletionRecord
<1>3. CASE \E p \in Projects : PrepareOwnedDeletion(d, p)
  BY <1>3 DEF PrepareOwnedDeletion, TypeInv, TypeOK, Busy, LiveScansOf, ScansOf,
              DeletionStates, HoldingLocks
<1>4. QED BY <1>1, <1>2, <1>3

LEMMA TypeStep == TypeInv /\ [Next]_vars => TypeInv'
<1> SUFFICES ASSUME TypeInv, [Next]_vars
             PROVE  TypeInv'
  OBVIOUS
<1>1. CASE Next
  <2>1. ASSUME NEW u \in Users, DeleteUser(u)
        PROVE  TypeInv'
    BY <2>1, CascadeType DEF DeleteUser, TypeInv, TypeOK, Busy, brokerVars, historyVars
  <2>2. CASE \E d \in Deleters, p \in Projects : PrepareOwnedDeletion(d, p)
    BY <2>2, TypeRemoval
  <2>3. CASE \E d \in Deleters : DeletePreparedProject(d) \/ DeletionCrash(d)
    BY <2>3, TypeRemoval
  <2>4. QED
    BY <1>1, <2>1, <2>2, <2>3, NextCases, TypeRequest, TypeBroker, TypeProcess, TypeTask,
       TypeDeletion
<1>2. CASE UNCHANGED vars
  BY <1>2 DEF vars, TypeInv, TypeOK, Busy
<1>3. QED BY <1>1, <1>2

\* Every variable keeps its type, and a worker that is not idle has a task.
THEOREM TypeCorrect == Spec => []TypeOK
<1>1. Spec => []TypeInv
  BY TypeInit, TypeStep, PTL DEF Spec
<1>2. TypeInv => TypeOK
  BY DEF TypeInv
<1>3. QED BY <1>1, <1>2, PTL

-----------------------------------------------------------------------------
(* One execution per scan.                                                 *)

\* What makes AtMostOnce, OneWriter and SucceededRanToEnd inductive: a scan
\* whose row is not there yet, or is pending, has not run; a delivery that is
\* in the pipeline has been counted; and it reaches its success hook only
\* through the end of the pipeline.
RunInv ==
    /\ \A s \in Scans : request[s] \in {"idle", "checked"} => scan[s].status = "absent" /\ runs[s] = 0
    /\ \A s \in Scans : scan[s].status = "pending" => runs[s] = 0
    /\ \A w \in Workers : worker[w].at \in InPipeline => runs[worker[w].scan] = 1
    /\ \A w \in Workers : worker[w].at \in {"cleaning", "succeeding"} => worker[w].scan \in completed
    /\ AtMostOnce
    /\ OneWriter
    /\ SucceededRanToEnd

LEMMA MoveStatus ==
    ASSUME TypeOK, NEW s \in Scans, NEW to \in Statuses, Move(s, to)
    PROVE  \A t \in Scans : scan'[t].status = IF t = s THEN to ELSE scan[t].status
  BY MovedRow DEF TypeOK, Move

\* Writing "failed" or "cancelled" over a row that is there, or removing rows,
\* makes no scan pending or succeeded.
StatusesOnlyLeave(to) ==
    \A t \in Scans : \/ scan'[t].status = scan[t].status
                     \/ scan'[t].status = "absent"
                     \/ scan'[t].status \in to /\ scan[t].status # "absent"

LEMMA RunInvRows ==
    ASSUME TypeInv, RunInv, StatusesOnlyLeave({"failed", "cancelled"}),
           UNCHANGED <<request, runs, completed>>,
           \/ UNCHANGED worker
           \/ \E w \in Workers : Finish(w)
    PROVE  RunInv'
<1>1. \A w \in Workers : worker'[w] = worker[w] \/ worker'[w].at = "idle"
  BY DEF Finish, IdleWorker, TypeInv, TypeOK
<1>2. "idle" \notin InPipeline \cup {"cleaning", "succeeding"}
  BY DEF InPipeline
<1>3. QED
  BY <1>1, <1>2 DEF RunInv, AtMostOnce, OneWriter, SucceededRanToEnd, StatusesOnlyLeave

LEMMA RunInvRequest ==
    ASSUME TypeInv, RunInv, NEW s \in Scans,
           CheckProject(s) \/ CreateScan(s) \/ EnqueueScan(s) \/ EnqueueFails(s) \/ Redeliver(s)
    PROVE  RunInv'
<1> USE DEF rowVars, brokerVars, historyVars
<1>1. UNCHANGED <<worker, runs, completed>>
  BY DEF CheckProject, CreateScan, EnqueueScan, EnqueueFails, Redeliver
<1>2. \A t \in Scans : t # s => scan'[t] = scan[t] /\ request'[t] = request[t]
  BY DEF CheckProject, CreateScan, EnqueueScan, EnqueueFails, Redeliver, TypeInv, TypeOK
<1>3. \/ scan'[s] = scan[s] /\ (request'[s] \in {"idle", "checked"} => request[s] \in {"idle", "checked"})
      \/ scan'[s] = NewRow /\ request[s] = "checked" /\ request'[s] \notin {"idle", "checked"}
  BY DEF CheckProject, CreateScan, EnqueueScan, EnqueueFails, Redeliver, TypeInv, TypeOK
<1>4. NewRow.status = "pending"
  BY DEF NewRow, NoRow
<1>5. QED
  BY <1>1, <1>2, <1>3, <1>4 DEF RunInv, AtMostOnce, OneWriter, SucceededRanToEnd

\* A worker that takes a message, or is about to run it, has not entered the
\* pipeline yet.
LEMMA RunInvDelivery ==
    ASSUME TypeInv, RunInv, NEW w \in Workers,
           \/ \E s \in Scans : Receive(w, s) \/ DeliverRevoke(w, s) \/ LoseRevoke(w, s)
           \/ Discard(w) \/ Accept(w) \/ TaskLost(w) \/ WorkerRestart(w)
    PROVE  RunInv'
<1> USE DEF rowVars, brokerVars, historyVars
<1>1. UNCHANGED <<scan, request, runs, completed>>
  BY DEF Receive, DeliverRevoke, LoseRevoke, Discard, Accept, TaskLost, WorkerRestart
<1>2. \A v \in Workers : worker'[v] = worker[v] \/ worker'[v].at \in {"idle", "received", "starting"}
  <2>1. \/ UNCHANGED worker
        \/ Finish(w)
        \/ Go(w, "starting")
        \/ \E s \in Scans : worker' = [worker EXCEPT ![w] = [at |-> "received", scan |-> s]]
    BY DEF Receive, DeliverRevoke, LoseRevoke, Discard, Accept, TaskLost, WorkerRestart
  <2>2. QED
    BY <2>1 DEF Finish, Go, IdleWorker, TypeInv, TypeOK
<1>3. {"idle", "received", "starting"} \cap (InPipeline \cup {"cleaning", "succeeding"}) = {}
  BY DEF InPipeline
<1>4. QED
  BY <1>1, <1>2, <1>3 DEF RunInv, AtMostOnce, OneWriter, SucceededRanToEnd

LEMMA RunInvStarted ==
    ASSUME TypeInv, RunInv, NEW w \in Workers, OnScanStarted(w)
    PROVE  RunInv'
<1> DEFINE s == worker[w].scan
<1>0. s \in Scans /\ worker[w].at = "starting"
  BY DEF OnScanStarted, At, TypeInv, Busy
<1>1. CASE /\ MayMove(s, {"pending"}) /\ Move(s, "running") /\ Go(w, "loading")
           /\ runs' = [runs EXCEPT ![s] = @ + 1]
  <2>1. \A t \in Scans : scan'[t].status = IF t = s THEN "running" ELSE scan[t].status
    BY <1>0, <1>1, MoveStatus DEF TypeInv, Statuses, Active
  <2>2. runs[s] = 0 /\ runs'[s] = 1 /\ \A t \in Scans : t # s => runs'[t] = runs[t]
    BY <1>0, <1>1 DEF RunInv, MayMove, TypeInv, TypeOK
  <2>3. /\ worker'[w].at = "loading" /\ worker'[w].scan = s
        /\ \A v \in Workers : v # w => worker'[v] = worker[v]
    BY <1>1 DEF Go, TypeInv, TypeOK
  <2>4. \A v \in Workers : worker[v].at \in InPipeline => worker[v].scan # s /\ worker[v].scan \in Scans
    BY <2>2, <1>0 DEF RunInv, TypeInv, Busy, InPipeline
  <2>5. UNCHANGED <<request, completed>>
    BY DEF OnScanStarted
  <2>6. scan[s].status = "pending" /\ request[s] \notin {"idle", "checked"}
    BY <1>0, <1>1 DEF MayMove, RunInv
  <2>7. worker[w].at \notin InPipeline /\ "loading" \notin {"cleaning", "succeeding"}
    BY <1>0 DEF InPipeline
  <2>8. /\ \A t \in Scans : request'[t] \in {"idle", "checked"} => scan'[t].status = "absent" /\ runs'[t] = 0
        /\ \A t \in Scans : scan'[t].status = "pending" => runs'[t] = 0
        /\ AtMostOnce' /\ SucceededRanToEnd'
    BY <2>1, <2>2, <2>5, <2>6, <1>0 DEF RunInv, AtMostOnce, SucceededRanToEnd
  <2>9. /\ \A v \in Workers : worker'[v].at \in InPipeline => runs'[worker'[v].scan] = 1
        /\ \A v \in Workers : worker'[v].at \in {"cleaning", "succeeding"} => worker'[v].scan \in completed'
    BY <2>2, <2>3, <2>4, <2>5, <2>7 DEF RunInv
  <2>10. OneWriter'
    BY <2>3, <2>4 DEF RunInv, OneWriter
  <2>11. QED
    BY <2>8, <2>9, <2>10 DEF RunInv
<1>2. CASE ~MayMove(s, {"pending"}) /\ Finish(w) /\ UNCHANGED <<scan, runs>>
  BY <1>2, RunInvRows DEF OnScanStarted, StatusesOnlyLeave
<1>3. CASE MoveOrNot(s, "running", {"pending"}) /\ Go(w, "failing") /\ UNCHANGED runs
  <2>1. \A t \in Scans : \/ scan'[t].status = scan[t].status
                         \/ scan'[t].status = "running" /\ scan[t].status = "pending"
    BY <1>0, <1>3, MoveStatus DEF MoveOrNot, MayMove, TypeInv, Statuses, Active
  <2>2. \A v \in Workers : worker'[v] = worker[v] \/ worker'[v].at = "failing"
    BY <1>3 DEF Go, TypeInv, TypeOK
  <2>3. "failing" \notin InPipeline \cup {"cleaning", "succeeding"}
    BY DEF InPipeline
  <2>4. UNCHANGED <<request, completed>>
    BY DEF OnScanStarted
  <2>5. QED
    BY <1>3, <2>1, <2>2, <2>3, <2>4 DEF RunInv, AtMostOnce, OneWriter, SucceededRanToEnd
<1>4. QED
  BY <1>1, <1>2, <1>3 DEF OnScanStarted

\* Inside the pipeline a worker goes forward, or gives up.
LEMMA RunInvPipeline ==
    ASSUME TypeInv, RunInv, NEW w \in Workers,
           LoadScan(w) \/ PrepareWorkspace(w) \/ RunScan(w) \/ CleanUp(w)
    PROVE  RunInv'
<1> USE DEF rowVars, brokerVars, historyVars
<1>1. UNCHANGED <<scan, request, runs>> /\ completed \subseteq completed'
  BY DEF LoadScan, PrepareWorkspace, RunScan, CleanUp
<1>2. /\ worker'[w].scan = worker[w].scan
      /\ \A v \in Workers : v # w => worker'[v] = worker[v]
  BY DEF LoadScan, PrepareWorkspace, RunScan, CleanUp, Go, TypeInv, TypeOK
<1>3. worker'[w].at \in InPipeline => worker[w].at \in InPipeline
  BY DEF LoadScan, PrepareWorkspace, RunScan, CleanUp, Go, At, InPipeline, TypeInv, TypeOK
<1>4. worker'[w].at \in {"cleaning", "succeeding"} => worker[w].scan \in completed'
  BY DEF LoadScan, PrepareWorkspace, RunScan, CleanUp, Go, At, TypeInv, TypeOK, RunInv
<1>5. QED
  BY <1>1, <1>2, <1>3, <1>4 DEF RunInv, AtMostOnce, OneWriter, SucceededRanToEnd

LEMMA RunInvSettled ==
    ASSUME TypeInv, RunInv, NEW w \in Workers, OnScanSucceeded(w) \/ OnScanFailed(w)
    PROVE  RunInv'
<1> USE DEF rowVars, brokerVars, historyVars
<1> DEFINE s == worker[w].scan
<1>0. s \in Scans
  BY DEF OnScanSucceeded, OnScanFailed, At, TypeInv, Busy
<1>1. CASE OnScanSucceeded(w)
  <2>1. \A t \in Scans : \/ scan'[t].status = scan[t].status
                         \/ t = s /\ scan'[t].status = "succeeded" /\ scan[t].status = "running"
    BY <1>0, <1>1, MoveStatus
       DEF OnScanSucceeded, Settle, MoveOrNot, MayMove, TypeInv, Statuses, Terminal
  <2>2. s \in completed
    BY <1>1 DEF OnScanSucceeded, At, RunInv
  <2>3. \A v \in Workers : worker'[v] = worker[v] \/ worker'[v].at = "idle"
    BY <1>1 DEF OnScanSucceeded, Settle, Finish, IdleWorker, TypeInv, TypeOK
  <2>4. "idle" \notin InPipeline \cup {"cleaning", "succeeding"}
    BY DEF InPipeline
  <2>5. UNCHANGED <<request, runs, completed>>
    BY <1>1 DEF OnScanSucceeded, Settle
  <2>6. QED
    BY <2>1, <2>2, <2>3, <2>4, <2>5 DEF RunInv, AtMostOnce, OneWriter, SucceededRanToEnd
<1>2. CASE OnScanFailed(w)
  <2>1. StatusesOnlyLeave({"failed", "cancelled"})
    BY <1>0, <1>2, MoveStatus
       DEF OnScanFailed, Settle, MoveOrNot, MayMove, TypeInv, Statuses, Terminal, StatusesOnlyLeave
  <2>2. QED
    BY <1>2, <2>1, RunInvRows DEF OnScanFailed, Settle
<1>3. QED BY <1>1, <1>2

LEMMA CascadeStatus ==
    ASSUME NEW gone, Cascade(gone)
    PROVE  \A t \in Scans : scan'[t] = IF ProjectOf[t] \in gone THEN NoRow ELSE scan[t]
  BY DEF Cascade

LEMMA RunInvDeletion ==
    ASSUME TypeInv, RunInv,
           \/ \E d \in Deleters, s \in Scans :
                  RequestCancellation(d, s) \/ DeleteWorkspace(d, s) \/ Compensate(d, s)
           \/ \E d \in Deleters : DeletePreparedProject(d) \/ DeletionCrash(d)
           \/ \E d \in Deleters, p \in Projects : PrepareOwnedDeletion(d, p)
           \/ \E u \in Users : DeleteUser(u)
    PROVE  RunInv'
<1> USE DEF rowVars, brokerVars, historyVars
<1>1. UNCHANGED <<request, worker, runs, completed>>
  BY DEF RequestCancellation, DeleteWorkspace, Compensate, DeletePreparedProject, DeletionCrash,
         PrepareOwnedDeletion, DeleteUser
<1>2. NoRow.status = "absent"
  BY DEF NoRow
<1>3. ASSUME NEW d \in Deleters, NEW s \in Scans, Compensate(d, s)
      PROVE  StatusesOnlyLeave({"failed", "cancelled"})
  BY <1>3, MoveStatus DEF Compensate, MoveOrNot, MayMove, TypeInv, Statuses, Terminal, Active,
                          StatusesOnlyLeave
<1>4. ASSUME NEW d \in Deleters, DeletePreparedProject(d)
      PROVE  StatusesOnlyLeave({"failed", "cancelled"})
  BY <1>2, <1>4, CascadeStatus DEF DeletePreparedProject, StatusesOnlyLeave
<1>5. ASSUME NEW u \in Users, DeleteUser(u)
      PROVE  StatusesOnlyLeave({"failed", "cancelled"})
  BY <1>2, <1>5, CascadeStatus DEF DeleteUser, StatusesOnlyLeave
<1>6. StatusesOnlyLeave({"failed", "cancelled"})
  BY <1>3, <1>4, <1>5 DEF RequestCancellation, DeleteWorkspace, DeletionCrash,
                          PrepareOwnedDeletion, StatusesOnlyLeave
<1>7. QED BY <1>1, <1>6, RunInvRows

LEMMA RunInvInit == Init => RunInv
  BY DEF Init, RunInv, AtMostOnce, OneWriter, SucceededRanToEnd, NoRow, IdleWorker, InPipeline

LEMMA RunInvStep == TypeInv /\ RunInv /\ [Next]_vars => RunInv'
<1> SUFFICES ASSUME TypeInv, RunInv, [Next]_vars
             PROVE  RunInv'
  OBVIOUS
<1>1. CASE Next
  BY <1>1, NextCases, RunInvRequest, RunInvDelivery, RunInvStarted, RunInvPipeline,
     RunInvSettled, RunInvDeletion
<1>2. CASE UNCHANGED vars
  BY <1>2 DEF vars, RunInv, AtMostOnce, OneWriter, SucceededRanToEnd
<1>3. QED BY <1>1, <1>2

LEMMA RunInvariant == Spec => []RunInv
<1>1. Spec => [](TypeInv /\ RunInv)
  BY TypeInit, TypeStep, RunInvInit, RunInvStep, PTL DEF Spec
<1>2. QED BY <1>1, PTL

\* Scan tasks are at-most-once: whatever the broker delivers and whoever
\* dies, the pipeline of a scan is entered once.
THEOREM ScanRunsAtMostOnce == Spec => []AtMostOnce
<1>1. RunInv => AtMostOnce
  BY DEF RunInv
<1>2. QED BY <1>1, RunInvariant, PTL

\* Two workers are never in the pipeline of the same scan.
THEOREM OneWriterPerScan == Spec => []OneWriter
<1>1. RunInv => OneWriter
  BY DEF RunInv
<1>2. QED BY <1>1, RunInvariant, PTL

\* A scan reported as succeeded ran its pipeline to the end.
THEOREM SuccessIsEarned == Spec => []SucceededRanToEnd
<1>1. RunInv => SucceededRanToEnd
  BY DEF RunInv
<1>2. QED BY <1>1, RunInvariant, PTL

-----------------------------------------------------------------------------
(* The locks of a deletion.                                                *)

Holds(d) == deletion[d].at \in HoldingLocks

\* Two deletions never hold the same project.
LockExclusive ==
    \A d, e \in Deleters : Holds(d) /\ Holds(e) /\ deletion[d].project = deletion[e].project => d = e

LockInv == DeletionPlanIsExact /\ LockExclusive

\* The project row and the scan rows of p stay as they are.
RowsKept(p) ==
    /\ p \in projects => p \in projects'
    /\ \A s \in ScansOf(p) : scan'[s] = scan[s]

\* The plan of d stays, or d lets go of its locks.
PlanKept(d) ==
    \/ deletion'[d].at \notin HoldingLocks
    \/ /\ Holds(d)
       /\ deletion'[d].project = deletion[d].project
       /\ deletion'[d].scans = deletion[d].scans
       /\ deletion'[d].active = deletion[d].active

\* A step that keeps the plans and the rows of those who hold locks, keeps
\* LockInv: the shape of every step but PrepareOwnedDeletion.
LEMMA LockInvKept ==
    ASSUME TypeInv, LockInv,
           \A d \in Deleters : PlanKept(d),
           \A d \in Deleters : Holds(d) /\ deletion'[d].at \in HoldingLocks => RowsKept(deletion[d].project)
    PROVE  LockInv'
<1>1. ASSUME NEW d \in Deleters, deletion'[d].at \in HoldingLocks
      PROVE  Exact(deletion[d])'
  <2>1. /\ Holds(d) /\ Exact(deletion[d]) /\ RowsKept(deletion[d].project)
        /\ deletion'[d].project = deletion[d].project
        /\ deletion'[d].scans = deletion[d].scans
        /\ deletion'[d].active = deletion[d].active
    BY <1>1 DEF PlanKept, LockInv, DeletionPlanIsExact, Holds
  <2>2. \A s \in ScansOf(deletion[d].project) : scan'[s] = scan[s]
    BY <2>1 DEF RowsKept
  <2>3. deletion'[d].scans \subseteq ScansOf(deletion[d].project)
    BY <2>1 DEF Exact, LiveScansOf
  <2>4. deletion'[d].scans = {s \in ScansOf(deletion[d].project) : scan'[s].status # "absent"}
    BY <2>1, <2>2 DEF Exact, LiveScansOf, Present
  <2>5. deletion'[d].active = {s \in deletion'[d].scans : scan'[s].status \in Active}
    BY <2>1, <2>2, <2>3 DEF Exact
  <2>6. QED
    BY <2>1, <2>4, <2>5 DEF Exact, LiveScansOf, Present, RowsKept, ScansOf
<1>2. LockExclusive'
  BY DEF LockInv, LockExclusive, PlanKept, Holds
<1>3. QED BY <1>1, <1>2 DEF LockInv, DeletionPlanIsExact

\* A status that moves, without a lock in the way and out of a status a row
\* that is there can have, is not one of those a deletion holds.
LEMMA UnlockedMove ==
    ASSUME TypeInv, LockInv, NEW s \in Scans, ~Locked(s), UNCHANGED projects,
           \/ UNCHANGED scan
           \/ Present(s) /\ \E to \in Statuses : Move(s, to),
           NEW d \in Deleters, Holds(d)
    PROVE  RowsKept(deletion[d].project)
<1>1. \A t \in Scans : t # s => scan'[t] = scan[t]
  BY DEF Move, TypeInv, TypeOK
<1>2. CASE UNCHANGED scan
  BY <1>2 DEF RowsKept
<1>3. CASE Present(s)
  <2>1. s \notin deletion[d].scans
    BY DEF Locked, Holds
  <2>2. s \notin ScansOf(deletion[d].project)
    BY <1>3, <2>1 DEF LockInv, DeletionPlanIsExact, Holds, Exact, LiveScansOf
  <2>3. QED
    BY <1>1, <2>2 DEF RowsKept, ScansOf
<1>4. QED BY <1>2, <1>3

LEMMA LockInvRequest ==
    ASSUME TypeInv, LockInv, NEW s \in Scans,
           CheckProject(s) \/ CreateScan(s) \/ EnqueueScan(s) \/ EnqueueFails(s) \/ Redeliver(s)
    PROVE  LockInv'
<1> USE DEF rowVars, brokerVars, historyVars
<1>1. UNCHANGED <<projects, deletion>>
  BY DEF CheckProject, CreateScan, EnqueueScan, EnqueueFails, Redeliver
<1>2. \A d \in Deleters : PlanKept(d)
  BY <1>1 DEF PlanKept, Holds
<1>3. \/ UNCHANGED scan
      \/ scan' = [scan EXCEPT ![s] = NewRow] /\ ~ProjectLocked(ProjectOf[s])
  BY DEF CheckProject, CreateScan, EnqueueScan, EnqueueFails, Redeliver
<1>4. ASSUME NEW d \in Deleters, Holds(d)
      PROVE  RowsKept(deletion[d].project)
  <2>1. ProjectLocked(ProjectOf[s]) \/ s \notin ScansOf(deletion[d].project)
    BY <1>4 DEF ProjectLocked, Holds, ScansOf
  <2>2. QED
    BY <1>1, <1>3, <2>1 DEF RowsKept, ScansOf, TypeInv, TypeOK
<1>5. QED BY <1>2, <1>4, LockInvKept

LEMMA LockInvWorker ==
    ASSUME TypeInv, LockInv, NEW w \in Workers,
           \/ \E s \in Scans : Receive(w, s) \/ DeliverRevoke(w, s) \/ LoseRevoke(w, s)
           \/ Discard(w) \/ Accept(w) \/ TaskLost(w) \/ WorkerRestart(w)
           \/ OnScanStarted(w) \/ LoadScan(w) \/ PrepareWorkspace(w) \/ RunScan(w) \/ CleanUp(w)
           \/ OnScanSucceeded(w) \/ OnScanFailed(w)
    PROVE  LockInv'
<1> USE DEF rowVars, brokerVars, historyVars
<1> DEFINE s == worker[w].scan
           statusStep == OnScanStarted(w) \/ OnScanSucceeded(w) \/ OnScanFailed(w)
<1>1. UNCHANGED <<projects, deletion>>
  BY DEF Receive, DeliverRevoke, LoseRevoke, Discard, Accept, TaskLost, WorkerRestart,
         OnScanStarted, LoadScan, PrepareWorkspace, RunScan, CleanUp, OnScanSucceeded,
         OnScanFailed, Settle
<1>2. \A d \in Deleters : PlanKept(d)
  BY <1>1 DEF PlanKept, Holds
<1>3. ~statusStep => UNCHANGED scan
  BY DEF Receive, DeliverRevoke, LoseRevoke, Discard, Accept, TaskLost, WorkerRestart,
         LoadScan, PrepareWorkspace, RunScan, CleanUp
<1>4. ASSUME statusStep
      PROVE  /\ s \in Scans /\ ~Locked(s)
             /\ \/ UNCHANGED scan
                \/ Present(s) /\ \E to \in Statuses : Move(s, to)
  <2>1. s \in Scans
    BY <1>4 DEF OnScanStarted, OnScanSucceeded, OnScanFailed, At, TypeInv, Busy
  <2>2. QED
    BY <1>4, <2>1 DEF OnScanStarted, OnScanSucceeded, OnScanFailed, Settle, MoveOrNot, MayMove,
                      Present, Statuses, Active, Terminal
<1>5. ASSUME NEW d \in Deleters, Holds(d)
      PROVE  RowsKept(deletion[d].project)
  BY <1>1, <1>3, <1>4, <1>5, UnlockedMove DEF RowsKept
<1>6. QED BY <1>2, <1>5, LockInvKept

LEMMA LockInvLoops ==
    ASSUME TypeInv, LockInv, NEW d \in Deleters, NEW s \in Scans,
           RequestCancellation(d, s) \/ DeleteWorkspace(d, s) \/ Compensate(d, s)
    PROVE  LockInv'
<1> USE DEF rowVars, brokerVars, historyVars
<1>0. UNCHANGED projects /\ \A e \in Deleters : e # d => deletion'[e] = deletion[e]
  BY DEF RequestCancellation, DeleteWorkspace, Compensate, Onwards, Abort, TypeInv, TypeOK
<1>1. ASSUME NEW phase, NEW left, Onwards(d, phase, left), Holds(d)
      PROVE  PlanKept(d)
  BY <1>1 DEF Onwards, PlanKept, TypeInv, TypeOK
<1>2. ASSUME Abort(d)
      PROVE  PlanKept(d)
  BY <1>2 DEF Abort, PlanKept, IdleDeletion, HoldingLocks, TypeInv, TypeOK
<1>3. CASE RequestCancellation(d, s) \/ DeleteWorkspace(d, s)
  <2>1. Holds(d) /\ UNCHANGED <<projects, scan>>
    BY <1>3 DEF RequestCancellation, DeleteWorkspace, Holds, HoldingLocks
  <2>2. PlanKept(d)
    BY <1>1, <1>2, <1>3, <2>1 DEF RequestCancellation, DeleteWorkspace
  <2>3. QED
    BY <1>0, <2>1, <2>2, LockInvKept DEF RowsKept, PlanKept, Holds
<1>4. CASE Compensate(d, s)
  <2>1. ~Holds(d) /\ deletion'[d].at \notin HoldingLocks
    BY <1>4 DEF Compensate, Compensated, Holds, HoldingLocks, IdleDeletion, TypeInv, TypeOK
  <2>2. /\ ~Locked(s)
        /\ \/ UNCHANGED scan
           \/ Present(s) /\ \E to \in Statuses : Move(s, to)
    BY <1>4 DEF Compensate, MoveOrNot, MayMove, Present, Statuses, Active, Terminal
  <2>3. QED
    BY <1>0, <2>1, <2>2, UnlockedMove, LockInvKept DEF PlanKept, Holds
<1>5. QED BY <1>3, <1>4

\* The cascade of a deletion touches no project another one holds.
LEMMA CascadeKeeps ==
    ASSUME NEW gone, Cascade(gone), NEW p, p \notin gone
    PROVE  RowsKept(p)
  BY DEF Cascade, RowsKept, ScansOf

LEMMA LockInvRemoval ==
    ASSUME TypeInv, LockInv,
           \/ \E d \in Deleters : DeletePreparedProject(d) \/ DeletionCrash(d)
           \/ \E d \in Deleters, p \in Projects : PrepareOwnedDeletion(d, p)
           \/ \E u \in Users : DeleteUser(u)
    PROVE  LockInv'
<1> USE DEF rowVars, brokerVars, historyVars
<1>1. ASSUME NEW d \in Deleters, DeletePreparedProject(d)
      PROVE  LockInv'
  <2>1. /\ Holds(d) /\ deletion'[d].at \notin HoldingLocks
        /\ \A e \in Deleters : e # d => deletion'[e] = deletion[e]
    <3>1. ASSUME Abort(d)
          PROVE  deletion'[d].at \notin HoldingLocks
      <4> DEFINE plan == deletion[d]
                 next == IF plan.active = {} THEN IdleDeletion
                         ELSE [plan EXCEPT !.at = "compensating", !.todo = plan.active]
      <4>1. deletion' = [deletion EXCEPT ![d] = next]
        BY <3>1 DEF Abort
      <4>2. plan \in DeletionRecord
        BY DEF TypeInv, TypeOK, DeletionRecord
      <4>3. next.at \in {"idle", "compensating"}
        BY <4>2 DEF IdleDeletion, DeletionRecord
      <4>4. QED
        BY <4>1, <4>3 DEF HoldingLocks, TypeInv, TypeOK
    <3>2. ASSUME deletion' = [deletion EXCEPT ![d] = IdleDeletion]
          PROVE  deletion'[d].at \notin HoldingLocks
      BY <3>2 DEF HoldingLocks, IdleDeletion, TypeInv, TypeOK
    <3>3. Holds(d)
      BY <1>1 DEF DeletePreparedProject, Holds, HoldingLocks
    <3>4. \A e \in Deleters : e # d => deletion'[e] = deletion[e]
      BY <1>1 DEF DeletePreparedProject, Abort, TypeInv, TypeOK
    <3>5. Abort(d) \/ deletion' = [deletion EXCEPT ![d] = IdleDeletion]
      BY <1>1 DEF DeletePreparedProject
    <3>6. QED BY <3>1, <3>2, <3>3, <3>4, <3>5
  <2>2. \A e \in Deleters : e # d /\ Holds(e) => deletion[e].project \notin {deletion[d].project}
    BY <2>1 DEF LockInv, LockExclusive
  <2>3. UNCHANGED rowVars \/ Cascade({deletion[d].project})
    BY <1>1 DEF DeletePreparedProject
  <2>4. \A e \in Deleters : e # d /\ Holds(e) => RowsKept(deletion[e].project)
    BY <2>2, <2>3, CascadeKeeps DEF RowsKept
  <2>5. QED
    BY <2>1, <2>4, LockInvKept DEF PlanKept, Holds
<1>2. ASSUME NEW d \in Deleters, DeletionCrash(d)
      PROVE  LockInv'
  <2>1. /\ deletion'[d].at \notin HoldingLocks /\ UNCHANGED <<projects, scan>>
        /\ \A e \in Deleters : e # d => deletion'[e] = deletion[e]
    BY <1>2 DEF DeletionCrash, HoldingLocks, IdleDeletion, TypeInv, TypeOK
  <2>2. QED
    BY <2>1, LockInvKept DEF PlanKept, Holds, RowsKept
<1>3. ASSUME NEW u \in Users, DeleteUser(u)
      PROVE  LockInv'
  <2>1. \A d \in Deleters : Holds(d) => deletion[d].project \notin {p \in projects : OwnerOf[p] = u}
    BY <1>3 DEF DeleteUser, ProjectLocked, Holds
  <2>2. \A d \in Deleters : Holds(d) => RowsKept(deletion[d].project)
    BY <1>3, <2>1, CascadeKeeps DEF DeleteUser
  <2>3. QED
    BY <1>3, <2>2, LockInvKept DEF DeleteUser, PlanKept, Holds
<1>4. ASSUME NEW d \in Deleters, NEW p \in Projects, PrepareOwnedDeletion(d, p)
      PROVE  LockInv'
  <2>1. UNCHANGED <<projects, scan>> /\ \A e \in Deleters : e # d => deletion'[e] = deletion[e]
    BY <1>4 DEF PrepareOwnedDeletion, TypeInv, TypeOK
  <2>2. /\ deletion'[d].project = p /\ p \in projects
        /\ deletion'[d].scans = LiveScansOf(p)
        /\ deletion'[d].active = {s \in LiveScansOf(p) : scan[s].status \in Active}
    BY <1>4 DEF PrepareOwnedDeletion, TypeInv, TypeOK
  <2>3. Exact(deletion[d])'
    BY <2>1, <2>2 DEF Exact, LiveScansOf, ScansOf, Present
  <2>4. \A e \in Deleters : e # d /\ deletion'[e].at \in HoldingLocks => Exact(deletion[e])'
    BY <2>1 DEF LockInv, DeletionPlanIsExact, Exact, LiveScansOf, ScansOf, Present
  <2>5. \A e \in Deleters : Holds(e) => deletion[e].project # p
    BY <1>4 DEF PrepareOwnedDeletion, ProjectLocked, Holds
  <2>6. LockExclusive'
    BY <2>1, <2>2, <2>5 DEF LockInv, LockExclusive, Holds
  <2>7. QED BY <2>3, <2>4, <2>6 DEF LockInv, DeletionPlanIsExact
<1>5. QED BY <1>1, <1>2, <1>3, <1>4

LEMMA LockInvInit == Init => LockInv
  BY DEF Init, LockInv, DeletionPlanIsExact, LockExclusive, Holds, HoldingLocks, IdleDeletion

LEMMA LockInvStep == TypeInv /\ LockInv /\ [Next]_vars => LockInv'
<1> SUFFICES ASSUME TypeInv, LockInv, [Next]_vars
             PROVE  LockInv'
  OBVIOUS
<1>1. CASE Next
  BY <1>1, NextCases, LockInvRequest, LockInvWorker, LockInvLoops, LockInvRemoval
<1>2. CASE UNCHANGED vars
  BY <1>2 DEF vars, LockInv, DeletionPlanIsExact, LockExclusive, Holds, Exact, LiveScansOf,
              ScansOf, Present
<1>3. QED BY <1>1, <1>2

\* While a deletion holds its locks, its plan lists exactly the scans of the
\* project and exactly the active ones.
THEOREM DeletionSeesEverything == Spec => []DeletionPlanIsExact
<1>1. Spec => [](TypeInv /\ LockInv)
  BY TypeInit, TypeStep, LockInvInit, LockInvStep, PTL DEF Spec
<1>2. LockInv => DeletionPlanIsExact
  BY DEF LockInv
<1>3. QED BY <1>1, <1>2, PTL

-----------------------------------------------------------------------------
(* What every step does to the rows of the database, and what follows from *)
(* it: the timeline of a scan, and the refinement of the abstract ledger.  *)


\* The changes of the rows, with the guards that matter to the ledger.
Recorded(s) ==
    /\ ProjectOf[s] \in projects /\ scan[s].status = "absent"
    /\ scan' = [scan EXCEPT ![s] = NewRow]

MovedFrom(s, from, to) == MayMove(s, from) /\ Move(s, to)

Moves(s) ==
    \/ MovedFrom(s, {"pending"}, "running")
    \/ MovedFrom(s, {"running"}, "succeeded")
    \/ MovedFrom(s, Active, "failed")
    \/ MovedFrom(s, Active, "cancelled")

RowChange ==
    \/ UNCHANGED <<projects, scan>>
    \/ UNCHANGED projects /\ \E s \in Scans : Recorded(s) \/ Moves(s)
    \/ \E gone \in SUBSET projects : Cascade(gone)

LEMMA RowChangeRequest ==
    ASSUME TypeInv, RunInv, NEW s \in Scans,
           CheckProject(s) \/ CreateScan(s) \/ EnqueueScan(s) \/ EnqueueFails(s) \/ Redeliver(s)
    PROVE  RowChange
<1> USE DEF rowVars, brokerVars, historyVars
<1>1. CASE CreateScan(s)
  <2>1. scan[s].status = "absent"
    BY <1>1 DEF CreateScan, RunInv
  <2>2. QED
    BY <1>1, <2>1 DEF CreateScan, RowChange, Recorded
<1>2. CASE ~CreateScan(s)
  BY <1>2 DEF CheckProject, EnqueueScan, EnqueueFails, Redeliver, RowChange
<1>3. QED BY <1>1, <1>2

LEMMA RowChangeWorker ==
    ASSUME TypeInv, NEW w \in Workers,
           \/ \E s \in Scans : Receive(w, s) \/ DeliverRevoke(w, s) \/ LoseRevoke(w, s)
           \/ Discard(w) \/ Accept(w) \/ TaskLost(w) \/ WorkerRestart(w)
           \/ OnScanStarted(w) \/ LoadScan(w) \/ PrepareWorkspace(w) \/ RunScan(w) \/ CleanUp(w)
           \/ OnScanSucceeded(w) \/ OnScanFailed(w)
    PROVE  RowChange
<1> USE DEF rowVars, brokerVars, historyVars
<1> DEFINE s == worker[w].scan
<1>1. CASE OnScanStarted(w) \/ OnScanSucceeded(w) \/ OnScanFailed(w)
  <2>1. s \in Scans
    BY <1>1 DEF OnScanStarted, OnScanSucceeded, OnScanFailed, At, TypeInv, Busy
  <2>2. UNCHANGED projects
    BY <1>1 DEF OnScanStarted, OnScanSucceeded, OnScanFailed, Settle
  <2>3. UNCHANGED scan \/ Moves(s)
    BY <1>1 DEF OnScanStarted, OnScanSucceeded, OnScanFailed, Settle, MoveOrNot, Moves,
                MovedFrom, MayMove, Active
  <2>4. QED BY <2>1, <2>2, <2>3 DEF RowChange
<1>2. CASE ~(OnScanStarted(w) \/ OnScanSucceeded(w) \/ OnScanFailed(w))
  BY <1>2 DEF RowChange, Receive, DeliverRevoke, LoseRevoke, Discard, Accept, TaskLost,
              WorkerRestart, LoadScan, PrepareWorkspace, RunScan, CleanUp
<1>3. QED BY <1>1, <1>2

LEMMA RowChangeDeletion ==
    ASSUME TypeInv, LockInv,
           \/ \E d \in Deleters, s \in Scans :
                  RequestCancellation(d, s) \/ DeleteWorkspace(d, s) \/ Compensate(d, s)
           \/ \E d \in Deleters : DeletePreparedProject(d) \/ DeletionCrash(d)
           \/ \E d \in Deleters, p \in Projects : PrepareOwnedDeletion(d, p)
           \/ \E u \in Users : DeleteUser(u)
    PROVE  RowChange
<1> USE DEF rowVars, brokerVars, historyVars
<1>1. ASSUME NEW d \in Deleters, NEW s \in Scans, Compensate(d, s)
      PROVE  RowChange
  BY <1>1 DEF Compensate, MoveOrNot, Moves, MovedFrom, RowChange
<1>2. ASSUME NEW d \in Deleters, DeletePreparedProject(d)
      PROVE  RowChange
  <2>1. deletion[d].project \in projects
    BY <1>2 DEF DeletePreparedProject, LockInv, DeletionPlanIsExact, HoldingLocks, Exact
  <2>2. UNCHANGED <<projects, scan>> \/ Cascade({deletion[d].project})
    BY <1>2 DEF DeletePreparedProject
  <2>3. QED BY <2>1, <2>2 DEF RowChange
<1>3. ASSUME NEW u \in Users, DeleteUser(u)
      PROVE  RowChange
  <2>1. Cascade({p \in projects : OwnerOf[p] = u})
    BY <1>3 DEF DeleteUser
  <2>2. {p \in projects : OwnerOf[p] = u} \in SUBSET projects
    OBVIOUS
  <2>3. QED BY <2>1, <2>2 DEF RowChange
<1>4. QED
  BY <1>1, <1>2, <1>3 DEF RowChange, RequestCancellation, DeleteWorkspace, DeletionCrash,
                          PrepareOwnedDeletion

LifecycleInv == TypeInv /\ RunInv /\ LockInv

LEMMA RowChangeStep == LifecycleInv /\ [Next]_vars => RowChange
<1> SUFFICES ASSUME LifecycleInv, [Next]_vars
             PROVE  RowChange
  OBVIOUS
<1>1. CASE Next
  BY <1>1, NextCases, RowChangeRequest, RowChangeWorker, RowChangeDeletion DEF LifecycleInv
<1>2. CASE UNCHANGED vars
  BY <1>2 DEF vars, RowChange
<1>3. QED BY <1>1, <1>2

LEMMA LifecycleInvariant == Spec => []LifecycleInv
<1>1. Init => LifecycleInv
  BY TypeInit, RunInvInit, LockInvInit DEF LifecycleInv
<1>2. LifecycleInv /\ [Next]_vars => LifecycleInv'
  BY TypeStep, RunInvStep, LockInvStep DEF LifecycleInv
<1>3. QED BY <1>1, <1>2, PTL DEF Spec

-----------------------------------------------------------------------------
(* The timeline of a scan.                                                 *)

\* A status written over a row whose timeline is right leaves it right,
\* provided that only a running scan succeeds.
LEMMA MovedTimeline ==
    ASSUME NEW row \in Row, Timeline(row),
           NEW to \in {"running"} \cup Terminal, to = "succeeded" => row.status = "running"
    PROVE  Timeline(Moved(row, to))
<1>1. /\ Moved(row, to).status = to
      /\ Moved(row, to).started_at = (row.started_at \/ to = "running")
      /\ Moved(row, to).finished_at = (to \in Terminal)
      /\ Moved(row, to).error_message = (to = "failed")
  BY Zenon DEF Moved
<1>2. row.started_at \in BOOLEAN
  BY DEF Row
<1>3. QED
  BY <1>1, <1>2 DEF Timeline, Terminal

LEMMA TimelineStep == LifecycleInv /\ TimelineFollowsStatus /\ [Next]_vars => TimelineFollowsStatus'
<1> SUFFICES ASSUME LifecycleInv, TimelineFollowsStatus, RowChange
             PROVE  TimelineFollowsStatus'
  BY RowChangeStep
<1>1. Timeline(NoRow) /\ Timeline(NewRow)
  BY DEF Timeline, NoRow, NewRow, Terminal
<1>2. scan \in [Scans -> Row]
  BY DEF LifecycleInv, TypeInv, TypeOK
<1>3. ASSUME NEW s \in Scans, Recorded(s) \/ Moves(s)
      PROVE  TimelineFollowsStatus'
  <2>1. CASE Recorded(s)
    BY <1>1, <1>2, <2>1 DEF Recorded, TimelineFollowsStatus
  <2>2. CASE Moves(s)
    <3>1. PICK to \in {"running"} \cup Terminal :
              scan' = [scan EXCEPT ![s] = Moved(@, to)] /\ (to = "succeeded" => scan[s].status = "running")
      BY <2>2 DEF Moves, MovedFrom, Move, MayMove, Terminal
    <3>2. Timeline(Moved(scan[s], to))
      BY <1>2, <3>1, MovedTimeline DEF TimelineFollowsStatus
    <3>3. QED
      BY <1>2, <3>1, <3>2 DEF TimelineFollowsStatus
  <2>3. QED BY <1>3, <2>1, <2>2
<1>4. ASSUME NEW gone, Cascade(gone)
      PROVE  TimelineFollowsStatus'
  BY <1>1, <1>4 DEF Cascade, TimelineFollowsStatus
<1>5. CASE UNCHANGED scan
  BY <1>5 DEF TimelineFollowsStatus
<1>6. QED BY <1>3, <1>4, <1>5 DEF RowChange

\* The timestamps and the error message of a scan always agree with its
\* status.
THEOREM TimelineIsCoherent == Spec => []TimelineFollowsStatus
<1>1. Init => TimelineFollowsStatus
  BY DEF Init, TimelineFollowsStatus, Timeline, NoRow, Terminal
<1>2. QED
  BY <1>1, TimelineStep, LifecycleInvariant, PTL DEF Spec

-----------------------------------------------------------------------------
(* The refinement.                                                         *)

LEMMA LedgerStep == LifecycleInv /\ [Next]_vars => [Ledger!LedgerNext]_(Ledger!ledgerVars)
<1> SUFFICES ASSUME LifecycleInv, RowChange
             PROVE  Ledger!LedgerNext \/ UNCHANGED Ledger!ledgerVars
  BY RowChangeStep
<1> DEFINE status == [s \in Scans |-> scan[s].status]
<1>1. CASE UNCHANGED <<projects, scan>>
  BY <1>1 DEF Ledger!ledgerVars
<1>2. ASSUME NEW s \in Scans, UNCHANGED projects, Recorded(s)
      PROVE  Ledger!LedgerNext
  <2>1. status' = [status EXCEPT ![s] = "pending"]
    BY <1>2 DEF Recorded, NewRow, NoRow, LifecycleInv, TypeInv, TypeOK
  <2>2. Ledger!Record(s)
    BY <1>2, <2>1 DEF Ledger!Record, Recorded
  <2>3. QED BY <2>2 DEF Ledger!LedgerNext
<1>3. ASSUME NEW s \in Scans, UNCHANGED projects, Moves(s)
      PROVE  Ledger!LedgerNext
  <2>1. ASSUME NEW to \in Statuses, Move(s, to)
        PROVE  status' = [status EXCEPT ![s] = to]
    BY <2>1, MoveStatus DEF LifecycleInv, TypeInv
  <2>2. {"running", "succeeded", "failed", "cancelled"} \subseteq Statuses
    BY DEF Statuses, Active, Terminal
  <2>3. Ledger!Start(s) \/ Ledger!Succeed(s) \/ Ledger!Fail(s) \/ Ledger!Cancel(s)
    BY <1>3, <2>1, <2>2 DEF Moves, MovedFrom, MayMove, Ledger!Start, Ledger!Succeed,
                            Ledger!Fail, Ledger!Cancel, Ledger!Active, Active
  <2>4. QED BY <2>3 DEF Ledger!LedgerNext
<1>4. ASSUME NEW gone \in SUBSET projects, Cascade(gone)
      PROVE  Ledger!LedgerNext
  <2>1. status' = [s \in Scans |-> IF ProjectOf[s] \in gone THEN "absent" ELSE status[s]]
    BY <1>4 DEF Cascade, NoRow
  <2>2. Ledger!Remove(gone)
    BY <1>4, <2>1 DEF Cascade, Ledger!Remove
  <2>3. QED BY <2>2 DEF Ledger!LedgerNext
<1>5. QED BY <1>1, <1>2, <1>3, <1>4 DEF RowChange

\* The workers, the broker and the handlers together do to the rows what the
\* ledger says, and nothing else.
THEOREM LifecycleImplementsLedger == Spec => ImplementsLedger
<1>1. Init => Ledger!LedgerInit
  BY DEF Init, Ledger!LedgerInit, NoRow
<1>2. QED
  BY <1>1, LedgerStep, LifecycleInvariant, PTL DEF Spec, ImplementsLedger, Ledger!LedgerSpec

\* No hook, compensation or late delivery overwrites the outcome of a scan.
THEOREM ScanOutcomeIsFinal == Spec => OutcomeIsFinal
<1>1. LifecycleInv /\ [Next]_vars => [Ledger!KeepsOutcomes]_(Ledger!ledgerVars)
  <2> SUFFICES ASSUME LifecycleInv, RowChange
               PROVE  Ledger!KeepsOutcomes
    BY RowChangeStep
  <2>1. CASE UNCHANGED <<projects, scan>>
    BY <2>1 DEF Ledger!KeepsOutcomes
  <2>2. ASSUME NEW s \in Scans, Recorded(s) \/ Moves(s)
        PROVE  \A t \in Scans : scan[t].status \in Terminal => scan'[t] = scan[t]
    BY <2>2 DEF Recorded, Moves, MovedFrom, MayMove, Move, Active, Terminal, LifecycleInv, TypeInv, TypeOK
  <2>3. ASSUME NEW gone, Cascade(gone)
        PROVE  \A t \in Scans : scan'[t] = scan[t] \/ scan'[t].status = "absent"
    BY <2>3 DEF Cascade, NoRow
  <2>4. \A s \in Scans : scan[s].status \in Terminal => scan'[s].status \in {scan[s].status, "absent"}
    BY <2>1, <2>2, <2>3 DEF RowChange
  <2>5. QED BY <2>4 DEF Ledger!KeepsOutcomes, Ledger!Terminal, Terminal
<1>2. QED
  BY <1>1, LifecycleInvariant, PTL DEF Spec, OutcomeIsFinal, Ledger!OutcomeIsFinal
=============================================================================
