---------------------------- MODULE ScanLifecycle ----------------------------
(***************************************************************************)
(* The life of a scan, from the POST request that records it to the worker *)
(* hook that settles it or the deletion that removes it.  The actors are   *)
(* the request handlers of the API (one per scan requested, one per        *)
(* project deletion), the Celery workers and the Redis broker; they share  *)
(* the Postgres rows, the queue and the workspace directory.               *)
(*                                                                         *)
(* A step is one transaction, one broker command or one file system call,  *)
(* which is where the actors can interleave.  A transaction that takes its *)
(* row lock and commits without waiting for anything else is one step; the *)
(* locks a project deletion holds across its broker and file system calls  *)
(* are explicit (Locked, ProjectLocked).                                   *)
(***************************************************************************)
EXTENDS Naturals, ScanStatus

CONSTANTS Projects,     \* ids of the projects that may exist
          Users,        \* accounts that own projects
          OwnerOf,      \* the owner of each project
          Scans,        \* ids of the scans that may be requested
          ProjectOf,    \* the project each scan is requested for
          Workers,      \* Celery worker processes, one task at a time
          Deleters,     \* request handlers that delete a project
          NoScan,       \* a worker without a task
          NoProject,    \* a deletion handler without a project
          Faults        \* the failures this instance lets happen

AllFaults == {"api_crash", "broker", "database", "filesystem",
              "redelivery", "worker_crash"}

ASSUME LifecycleAssumption ==
    /\ ProjectOf \in [Scans -> Projects]
    /\ OwnerOf \in [Projects -> Users]
    /\ NoScan \notin Scans
    /\ NoProject \notin Projects
    /\ Faults \subseteq AllFaults

VARIABLES projects,     \* the project rows
          scan,         \* the scan rows
          results,      \* scans whose analysis rows are stored
          request,      \* progress of the POST request that asks for a scan
          queue,        \* task messages waiting in the broker
          unacked,      \* task messages delivered and not yet acknowledged
          revokes,      \* revoke broadcasts on their way, <<worker, scan>>
          revoked,      \* the task ids each worker process knows to be revoked
          worker,       \* what each worker is doing
          deletion,     \* what each deletion handler is doing
          workspaces,   \* the clone directories on disk
          runs,         \* history: how many times the pipeline was entered
          completed     \* history: scans whose pipeline ran to its end

rowVars      == <<projects, scan, results>>
brokerVars   == <<queue, unacked, revokes, revoked>>
historyVars  == <<runs, completed>>
vars == <<projects, scan, results, request, queue, unacked, revokes, revoked,
          worker, deletion, workspaces, runs, completed>>

\* The columns a status change writes; the timestamps and the error message
\* are kept as "set or NULL".
Row == [status : Statuses \cup {"absent"},
        started_at : BOOLEAN, finished_at : BOOLEAN, error_message : BOOLEAN]

NoRow  == [status |-> "absent", started_at |-> FALSE,
           finished_at |-> FALSE, error_message |-> FALSE]
\* Variant: the column default is not a member of the status enum.
UnknownStatusRow == [NoRow EXCEPT !.status = "queued"]

NewRow == [NoRow EXCEPT !.status = "pending"]

RequestStates == {"idle", "checked", "created", "answered"}
\* the pipeline of the scan has been entered by this delivery
InPipeline    == {"loading", "preparing", "scanning", "cleaning", "succeeding"}
WorkerStates  == {"idle", "received", "starting", "abandoning", "failing"} \cup InPipeline
HoldingLocks  == {"revoking", "cleaning", "committing"}
DeletionStates == {"idle", "compensating"} \cup HoldingLocks

IdleWorker   == [at |-> "idle", scan |-> NoScan]
IdleDeletion == [at |-> "idle", project |-> NoProject,
                 scans |-> {}, active |-> {}, todo |-> {}]

TypeOK ==
    /\ projects \subseteq Projects
    /\ scan \in [Scans -> Row]
    /\ results \subseteq Scans
    /\ request \in [Scans -> RequestStates]
    /\ queue \subseteq Scans
    /\ unacked \subseteq Scans
    /\ revokes \subseteq Workers \X Scans
    /\ revoked \in [Workers -> SUBSET Scans]
    /\ worker \in [Workers -> [at : WorkerStates, scan : Scans \cup {NoScan}]]
    /\ deletion \in [Deleters -> [at : DeletionStates, project : Projects \cup {NoProject},
                                  scans : SUBSET Scans, active : SUBSET Scans,
                                  todo : SUBSET Scans]]
    /\ workspaces \subseteq Scans
    /\ runs \in [Scans -> Nat]
    /\ completed \subseteq Scans

Init ==
    /\ projects = Projects
    /\ scan = [s \in Scans |-> NoRow]
    /\ results = {}
    /\ request = [s \in Scans |-> "idle"]
    /\ queue = {}
    /\ unacked = {}
    /\ revokes = {}
    /\ revoked = [w \in Workers |-> {}]
    /\ worker = [w \in Workers |-> IdleWorker]
    /\ deletion = [d \in Deleters |-> IdleDeletion]
    /\ workspaces = {}
    /\ runs = [s \in Scans |-> 0]
    /\ completed = {}

-----------------------------------------------------------------------------
(* Row locks, and the one statement that changes a status.                 *)

ScansOf(p)  == {s \in Scans : ProjectOf[s] = p}
Present(s)  == scan[s].status # "absent"
LiveScansOf(p) == {s \in ScansOf(p) : Present(s)}

\* Variant: the scans are read without FOR UPDATE.
ScansReadUnlocked(s) == FALSE

\* SELECT ... FOR UPDATE of a deletion in progress, on its project and scans.
ProjectLocked(p) == \E d \in Deleters : deletion[d].at \in HoldingLocks /\ deletion[d].project = p
Locked(s) == \E d \in Deleters : deletion[d].at \in HoldingLocks /\ s \in deletion[d].scans

\* Variant: a cancelled scan gets no finish time.
MovedUnfinished(row, to) ==
    [status        |-> to,
     started_at    |-> row.started_at \/ to = "running",
     finished_at   |-> to \in {"succeeded", "failed"},
     error_message |-> to = "failed"]

\* The row after transition_scan_status wrote the status "to".
Moved(row, to) ==
    [status        |-> to,
     started_at    |-> row.started_at \/ to = "running",
     finished_at   |-> to \in Terminal,
     error_message |-> to = "failed"]

\* Variant: the expected statuses are not looked at.
MayAlwaysMove(s, expected) == Present(s)

\* transition_scan_status moves the row only out of an expected status.
MayMove(s, expected) == scan[s].status \in expected
Move(s, to) == scan' = [scan EXCEPT ![s] = Moved(@, to)]

\* A failing statement or commit leaves the row as it was, unless only the
\* answer of the commit, or the refresh that follows it, failed.
MoveOrNot(s, to, expected) ==
    \/ UNCHANGED scan
    \/ MayMove(s, expected) /\ Move(s, to)

At(w, place)  == worker[w].at = place
Go(w, place)  == worker' = [worker EXCEPT ![w].at = place]
Finish(w)     == worker' = [worker EXCEPT ![w] = IdleWorker]

-----------------------------------------------------------------------------
(* POST /projects/{project_id}/scans                                       *)

\* The ownership check is a read of its own: the project may be gone or
\* locked by the time the scan is inserted.
CheckProject(s) ==
    /\ request[s] = "idle"
    /\ ProjectOf[s] \in projects
    /\ request' = [request EXCEPT ![s] = "checked"]
    /\ UNCHANGED <<rowVars, brokerVars, worker, deletion, workspaces, historyVars>>

\* The INSERT takes a key-share lock on the project row, so it waits for a
\* deletion in progress and violates the foreign key after it.
CreateScan(s) ==
    /\ request[s] = "checked"
    /\ ~ProjectLocked(ProjectOf[s])
    /\ \/ /\ ProjectOf[s] \in projects
          /\ scan' = [scan EXCEPT ![s] = NewRow]
          /\ request' = [request EXCEPT ![s] = "created"]
       \/ /\ ProjectOf[s] \notin projects
          /\ request' = [request EXCEPT ![s] = "answered"]
          /\ UNCHANGED scan
       \/ /\ "database" \in Faults
          /\ request' = [request EXCEPT ![s] = "answered"]
          /\ \/ UNCHANGED scan
             \/ ProjectOf[s] \in projects /\ scan' = [scan EXCEPT ![s] = NewRow]
    /\ UNCHANGED <<projects, results, brokerVars, worker, deletion, workspaces, historyVars>>

EnqueueScan(s) ==
    /\ request[s] = "created"
    /\ queue' = queue \cup {s}
    /\ request' = [request EXCEPT ![s] = "answered"]
    /\ UNCHANGED <<rowVars, unacked, revokes, revoked, worker, deletion, workspaces, historyVars>>

\* The QueueError is not handled: the committed row stays pending, with no
\* task.  The handler's process may also stop here.
EnqueueFails(s) ==
    /\ Faults \cap {"broker", "api_crash"} # {}
    /\ request[s] = "created"
    /\ request' = [request EXCEPT ![s] = "answered"]
    /\ UNCHANGED <<rowVars, brokerVars, worker, deletion, workspaces, historyVars>>

-----------------------------------------------------------------------------
(* Broker and worker process (Celery, Redis): acks_late = False.           *)

Receive(w, s) ==
    /\ At(w, "idle")
    /\ s \in queue
    /\ queue' = queue \ {s}
    /\ unacked' = unacked \cup {s}
    /\ worker' = [worker EXCEPT ![w] = [at |-> "received", scan |-> s]]
    /\ UNCHANGED <<rowVars, request, revokes, revoked, deletion, workspaces, historyVars>>

\* A task the worker knows to be revoked is acknowledged and dropped.
Discard(w) ==
    /\ At(w, "received")
    /\ worker[w].scan \in revoked[w]
    /\ unacked' = unacked \ {worker[w].scan}
    /\ Finish(w)
    /\ UNCHANGED <<rowVars, request, queue, revokes, revoked, deletion, workspaces, historyVars>>

\* The message is acknowledged when the task starts; a lost acknowledgement
\* leaves it to be delivered again.
Accept(w) ==
    /\ At(w, "received")
    /\ worker[w].scan \notin revoked[w]
    /\ \/ unacked' = unacked \ {worker[w].scan}
       \/ "redelivery" \in Faults /\ UNCHANGED unacked
    /\ Go(w, "starting")
    /\ UNCHANGED <<rowVars, request, queue, revokes, revoked, deletion, workspaces, historyVars>>

Redeliver(s) ==
    /\ "redelivery" \in Faults
    /\ s \in unacked
    /\ unacked' = unacked \ {s}
    /\ queue' = queue \cup {s}
    /\ UNCHANGED <<rowVars, request, revokes, revoked, worker, deletion, workspaces, historyVars>>

\* A revoke broadcast reaches a worker: SIGTERM ends the task it names, and
\* with it the task's finally blocks and hooks.
DeliverRevoke(w, s) ==
    /\ <<w, s>> \in revokes
    /\ revokes' = revokes \ {<<w, s>>}
    /\ revoked' = [revoked EXCEPT ![w] = @ \cup {s}]
    /\ IF worker[w].scan = s /\ ~At(w, "received") THEN Finish(w) ELSE UNCHANGED worker
    /\ UNCHANGED <<rowVars, request, queue, unacked, deletion, workspaces, historyVars>>

LoseRevoke(w, s) ==
    /\ "broker" \in Faults
    /\ <<w, s>> \in revokes
    /\ revokes' = revokes \ {<<w, s>>}
    /\ UNCHANGED <<rowVars, request, queue, unacked, revoked, worker, deletion, workspaces, historyVars>>

\* The pool process dies: no hook runs, nothing is redelivered.
TaskLost(w) ==
    /\ "worker_crash" \in Faults
    /\ worker[w].at \notin {"idle", "received"}
    /\ Finish(w)
    /\ UNCHANGED <<rowVars, request, brokerVars, deletion, workspaces, historyVars>>

\* The whole worker restarts, and forgets what was revoked.
WorkerRestart(w) ==
    /\ "worker_crash" \in Faults
    /\ Finish(w)
    /\ revokes' = {r \in revokes : r[1] # w}
    /\ revoked' = [revoked EXCEPT ![w] = {}]
    /\ UNCHANGED <<rowVars, request, queue, unacked, deletion, workspaces, historyVars>>

-----------------------------------------------------------------------------
(* run_project_scan and its lifecycle hooks.                               *)

\* Variant: a repeated delivery may take up a scan that is running.
OnScanRestarted(w) == LET s == worker[w].scan IN
    /\ At(w, "starting")
    /\ ~Locked(s)
    /\ \/ /\ MayMove(s, Active)
          /\ Move(s, "running")
          /\ Go(w, "loading")
          /\ runs' = [runs EXCEPT ![s] = @ + 1]
       \/ /\ ~MayMove(s, Active)
          /\ Finish(w)
          /\ UNCHANGED <<scan, runs>>
    /\ UNCHANGED <<projects, results, request, brokerVars, deletion, workspaces, completed>>

\* PENDING -> RUNNING, or Ignore: no pipeline and no hook.
OnScanStarted(w) == LET s == worker[w].scan IN
    /\ At(w, "starting")
    /\ ~Locked(s)
    /\ \/ /\ MayMove(s, {"pending"})
          /\ Move(s, "running")
          /\ Go(w, "loading")
          /\ runs' = [runs EXCEPT ![s] = @ + 1]
       \/ /\ ~MayMove(s, {"pending"})
          /\ Finish(w)
          /\ UNCHANGED <<scan, runs>>
       \/ /\ "database" \in Faults
          /\ MoveOrNot(s, "running", {"pending"})
          /\ Go(w, "failing")
          /\ UNCHANGED runs
    /\ UNCHANGED <<projects, results, request, brokerVars, deletion, workspaces, completed>>

\* execute_scan reads the scan without a lock; a missing row, or a missing
\* or undecipherable GitHub token, fails the task.
LoadScan(w) ==
    /\ At(w, "loading")
    /\ \/ Present(worker[w].scan) /\ Go(w, "preparing")
       \/ Go(w, "failing")
    /\ UNCHANGED <<rowVars, request, brokerVars, deletion, workspaces, historyVars>>

\* A stale workspace is removed and a new one made, before the try block:
\* an error here leaves whatever is there.
PrepareWorkspace(w) == LET s == worker[w].scan IN
    /\ At(w, "preparing")
    /\ \/ /\ workspaces' = workspaces \cup {s}
          /\ Go(w, "scanning")
       \/ /\ "filesystem" \in Faults
          /\ workspaces' \in {workspaces, workspaces \ {s}}
          /\ Go(w, "failing")
    /\ UNCHANGED <<rowVars, request, brokerVars, deletion, historyVars>>

\* Clone, tests and pipeline.  Storing the analysis needs a key-share lock
\* on the scan row; a failure to store is logged and the scan goes on.
RunScan(w) == LET s == worker[w].scan IN
    /\ At(w, "scanning")
    /\ \/ /\ completed' = completed \cup {s}
          /\ \/ results' = results \ {s}
             \/ Present(s) /\ ~Locked(s) /\ results' = results \cup {s}
          /\ Go(w, "cleaning")
       \/ /\ Go(w, "abandoning")
          /\ UNCHANGED <<results, completed>>
    /\ UNCHANGED <<projects, scan, request, brokerVars, deletion, workspaces, runs>>

\* Variant: the finally block swallows the error of the pipeline.
CleanUpSwallows(w) ==
    /\ At(w, "cleaning") \/ At(w, "abandoning")
    /\ Go(w, "succeeding")
    /\ workspaces' = workspaces \ {worker[w].scan}
    /\ UNCHANGED <<rowVars, request, brokerVars, deletion, historyVars>>

\* The finally block: an error in the clean-up is logged and forgotten.
CleanUp(w) ==
    /\ \/ At(w, "cleaning") /\ Go(w, "succeeding")
       \/ At(w, "abandoning") /\ Go(w, "failing")
    /\ \/ workspaces' = workspaces \ {worker[w].scan}
       \/ "filesystem" \in Faults /\ UNCHANGED workspaces
    /\ UNCHANGED <<rowVars, request, brokerVars, deletion, historyVars>>

\* Every error of the hooks is logged and forgotten.
Settle(w, to, expected) == LET s == worker[w].scan IN
    /\ ~Locked(s)
    /\ \/ MayMove(s, expected) /\ Move(s, to)
       \/ ~MayMove(s, expected) /\ UNCHANGED scan
       \/ "database" \in Faults /\ MoveOrNot(s, to, expected)
    /\ Finish(w)
    /\ UNCHANGED <<projects, results, request, brokerVars, deletion, workspaces, historyVars>>

OnScanSucceeded(w) == At(w, "succeeding") /\ Settle(w, "succeeded", {"running"})

OnScanFailed(w) == At(w, "failing") /\ Settle(w, "failed", {"pending", "running"})

-----------------------------------------------------------------------------
(* DELETE /projects/{project_id}                                           *)

\* The loops of delete_project, in order; an empty one is passed over.
Onwards(d, phase, left) ==
    LET plan == deletion[d] IN
    deletion' = [deletion EXCEPT ![d] =
        IF left # {} THEN [plan EXCEPT !.at = phase, !.todo = left]
        ELSE IF phase = "revoking" /\ plan.scans # {}
             THEN [plan EXCEPT !.at = "cleaning", !.todo = plan.scans]
             ELSE [plan EXCEPT !.at = "committing", !.todo = {}]]

\* Variant: rolls back and leaves the revoked scans as they are.
AbortOnly(d) == deletion' = [deletion EXCEPT ![d] = IdleDeletion]

\* Rolls back, which frees the locks, and goes on to cancel the scans that
\* were active when the locks were taken.
Abort(d) ==
    LET plan == deletion[d] IN
    deletion' = [deletion EXCEPT ![d] =
        IF plan.active = {} THEN IdleDeletion
        ELSE [plan EXCEPT !.at = "compensating", !.todo = plan.active]]

\* Lock the project row, then its scans, and remember them.
PrepareOwnedDeletion(d, p) ==
    LET live   == LiveScansOf(p)
        active == {s \in live : scan[s].status \in Active} IN
    /\ deletion[d].at = "idle"
    /\ p \in projects
    /\ ~ProjectLocked(p)
    /\ deletion' = [deletion EXCEPT ![d] =
            [at      |-> IF active # {} THEN "revoking"
                         ELSE IF live # {} THEN "cleaning" ELSE "committing",
             project |-> p, scans |-> live, active |-> active,
             todo    |-> IF active # {} THEN active ELSE live]]
    /\ UNCHANGED <<rowVars, request, brokerVars, worker, workspaces, historyVars>>

\* Best effort: a broker that cannot be reached does not stop the deletion.
RequestCancellation(d, s) ==
    /\ deletion[d].at = "revoking"
    /\ s \in deletion[d].todo
    /\ \/ revokes' = revokes \cup (Workers \X {s})
       \/ "broker" \in Faults /\ UNCHANGED revokes
    /\ Onwards(d, "revoking", deletion[d].todo \ {s})
    /\ UNCHANGED <<rowVars, request, queue, unacked, revoked, worker, workspaces, historyVars>>

DeleteWorkspace(d, s) ==
    /\ deletion[d].at = "cleaning"
    /\ s \in deletion[d].todo
    /\ \/ /\ workspaces' = workspaces \ {s}
          /\ Onwards(d, "cleaning", deletion[d].todo \ {s})
       \/ /\ "filesystem" \in Faults
          /\ Abort(d)
          /\ UNCHANGED workspaces
    /\ UNCHANGED <<rowVars, request, brokerVars, worker, historyVars>>

\* Variant: the foreign key of scans does not cascade.
ProjectsOnly(gone) == projects' = projects \ gone /\ UNCHANGED <<scan, results>>

\* ON DELETE CASCADE: the rows of a set of projects and of all that hangs
\* from them.
Cascade(gone) ==
    /\ projects' = projects \ gone
    /\ scan' = [s \in Scans |-> IF ProjectOf[s] \in gone THEN NoRow ELSE scan[s]]
    /\ results' = {s \in results : ProjectOf[s] \notin gone}

DeletePreparedProject(d) ==
    /\ deletion[d].at = "committing"
    /\ \/ /\ Cascade({deletion[d].project})
          /\ deletion' = [deletion EXCEPT ![d] = IdleDeletion]
       \/ /\ "database" \in Faults
          /\ UNCHANGED rowVars \/ Cascade({deletion[d].project})
          /\ Abort(d)
    /\ UNCHANGED <<request, brokerVars, worker, workspaces, historyVars>>

Compensated(plan, s) ==
    IF plan.todo = {s} THEN IdleDeletion ELSE [plan EXCEPT !.todo = plan.todo \ {s}]

\* One scan of _abort_project_deletion; a scan that is gone, or a database
\* error, ends the loop.
Compensate(d, s) ==
    /\ deletion[d].at = "compensating"
    /\ s \in deletion[d].todo
    /\ ~Locked(s)
    /\ \/ /\ Present(s)
          /\ \/ MayMove(s, Active) /\ Move(s, "cancelled")
             \/ ~MayMove(s, Active) /\ UNCHANGED scan
          /\ deletion' = [deletion EXCEPT ![d] = Compensated(deletion[d], s)]
       \/ /\ \/ ~Present(s) /\ UNCHANGED scan
             \/ "database" \in Faults /\ MoveOrNot(s, "cancelled", Active)
          /\ deletion' = [deletion EXCEPT ![d] = IdleDeletion]
    /\ UNCHANGED <<projects, results, request, brokerVars, worker, workspaces, historyVars>>

\* The handler's process stops; its database session, and its locks, with it.
DeletionCrash(d) ==
    /\ "api_crash" \in Faults
    /\ deletion[d].at # "idle"
    /\ deletion' = [deletion EXCEPT ![d] = IdleDeletion]
    /\ UNCHANGED <<rowVars, request, brokerVars, worker, workspaces, historyVars>>

\* DELETE /users/{user_id} cascades to projects and scans; it revokes no
\* task and removes no workspace.
DeleteUser(u) ==
    LET gone == {p \in projects : OwnerOf[p] = u} IN
    /\ gone # {}
    /\ \A p \in gone : ~ProjectLocked(p)
    /\ Cascade(gone)
    /\ UNCHANGED <<request, brokerVars, worker, deletion, workspaces, historyVars>>

-----------------------------------------------------------------------------
RequestStep(s) == CheckProject(s) \/ CreateScan(s) \/ EnqueueScan(s)

Delivery(w) == (\E s \in Scans : Receive(w, s)) \/ Discard(w) \/ Accept(w)

TaskStep(w) ==
    \/ OnScanStarted(w) \/ LoadScan(w) \/ PrepareWorkspace(w) \/ RunScan(w)
    \/ CleanUp(w) \/ OnScanSucceeded(w) \/ OnScanFailed(w)

DeletionStep(d) ==
    \/ \E s \in Scans : RequestCancellation(d, s) \/ DeleteWorkspace(d, s) \/ Compensate(d, s)
    \/ DeletePreparedProject(d)

Next ==
    \/ \E s \in Scans : RequestStep(s) \/ EnqueueFails(s) \/ Redeliver(s)
    \/ \E w \in Workers : Delivery(w) \/ TaskStep(w) \/ TaskLost(w) \/ WorkerRestart(w)
    \/ \E w \in Workers, s \in Scans : DeliverRevoke(w, s) \/ LoseRevoke(w, s)
    \/ \E d \in Deleters : DeletionStep(d) \/ DeletionCrash(d)
    \/ \E d \in Deleters, p \in Projects : PrepareOwnedDeletion(d, p)
    \/ \E u \in Users : DeleteUser(u)

Spec == Init /\ [][Next]_vars

\* Handlers and tasks run on; a transaction that waits for a row lock gets
\* it in the end, because Postgres serves the waiters of a row in turn.
Fairness ==
    /\ \A s \in Scans : SF_vars(CreateScan(s)) /\ WF_vars(EnqueueScan(s))
    /\ \A w \in Workers : WF_vars(Delivery(w)) /\ SF_vars(TaskStep(w))
    /\ \A d \in Deleters : SF_vars(DeletionStep(d))

FairSpec == Spec /\ Fairness

-----------------------------------------------------------------------------
(* Safety.                                                                 *)

\* celery_app.py: "Scan tasks are deliberately at-most-once".  However often
\* the broker delivers the message of a scan, its pipeline is entered once.
AtMostOnce == \A s \in Scans : runs[s] <= 1

\* The workspace, and the analysis rows, of a scan are written by one worker
\* at a time, also when two workers hold the same message.
OneWriter ==
    \A v, w \in Workers :
        worker[v].at \in InPipeline /\ worker[w].at \in InPipeline
            /\ worker[v].scan = worker[w].scan => v = w

\* A scan is reported as succeeded only if its pipeline ran to its end, also
\* when deliveries are repeated, workers die and hooks of several deliveries
\* write the same row.
SucceededRanToEnd == \A s \in Scans : scan[s].status = "succeeded" => s \in completed

\* What the durations and timelines of the dashboards rely on: which
\* timestamps are set, and whether there is an error message, follows from
\* the status.
Timeline(row) ==
    /\ row.started_at  => row.status \in {"running"} \cup Terminal
    /\ row.status \in {"running", "succeeded"} => row.started_at
    /\ row.finished_at <=> row.status \in Terminal
    /\ row.error_message <=> row.status = "failed"

TimelineFollowsStatus == \A s \in Scans : Timeline(scan[s])

\* While a deletion holds its locks, the scans it remembers are all the scans
\* of its project, and those it took for active are all that are active: no
\* scan slips in, and no hook settles one, between the lock and the commit.
Exact(plan) ==
    /\ plan.project \in projects
    /\ plan.scans = LiveScansOf(plan.project)
    /\ plan.active = {s \in plan.scans : scan[s].status \in Active}

DeletionPlanIsExact ==
    \A d \in Deleters : deletion[d].at \in HoldingLocks => Exact(deletion[d])

\* The status of a scan, as ScanLedger sees it: the abstract ledger this
\* module implements.
Ledger == INSTANCE ScanLedger WITH status <- [s \in Scans |-> scan[s].status]

ImplementsLedger == Ledger!LedgerSpec

\* transition_scan_status: "this lock prevents a late success/failure hook
\* from overwriting a cancellation or from racing the cascade delete".
OutcomeIsFinal == Ledger!OutcomeIsFinal

(* Liveness.                                                               *)

\* A scan does not stay pending or running for ever.
ScansSettle == \A s \in Scans : scan[s].status \in Active ~> scan[s].status \notin Active

(* Workspaces.                                                             *)

\* test_delete_project_stops_scans_cleans_workspaces_and_uses_cascades: the
\* workspace of a scan is gone with the scan.  Stated for the moment nobody
\* works on it any more.
InUse(s) == \/ \E w \in Workers : worker[w].scan = s
            \/ \E d \in Deleters : s \in deletion[d].scans
NoOrphanWorkspace == \A s \in workspaces : Present(s) \/ InUse(s)
=============================================================================
