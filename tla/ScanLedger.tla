----------------------------- MODULE ScanLedger -----------------------------
(***************************************************************************)
(* What the database promises its readers about scans, with no worker, no  *)
(* broker and no lock in sight: a scan is recorded as pending, is started  *)
(* at most once, is settled at most once, and leaves the database only     *)
(* together with its project and with every other scan of that project.    *)
(* ScanLifecycle is shown to implement this module.                        *)
(***************************************************************************)
EXTENDS ScanStatus

CONSTANTS Projects,     \* ids of the projects that may exist
          Scans,        \* ids of the scans that may be requested
          ProjectOf     \* the project a scan id is requested for

VARIABLES projects,     \* the project rows
          status        \* the status column of each scan row, or "absent"

ledgerVars == <<projects, status>>

LedgerTypeOK ==
    /\ projects \subseteq Projects
    /\ status \in [Scans -> Statuses \cup {"absent"}]

LedgerInit ==
    /\ projects = Projects
    /\ status = [s \in Scans |-> "absent"]

Record(s) ==
    /\ ProjectOf[s] \in projects
    /\ status[s] = "absent"
    /\ status' = [status EXCEPT ![s] = "pending"]
    /\ UNCHANGED projects

Start(s) ==
    /\ status[s] = "pending"
    /\ status' = [status EXCEPT ![s] = "running"]
    /\ UNCHANGED projects

Succeed(s) ==
    /\ status[s] = "running"
    /\ status' = [status EXCEPT ![s] = "succeeded"]
    /\ UNCHANGED projects

Fail(s) ==
    /\ status[s] \in Active
    /\ status' = [status EXCEPT ![s] = "failed"]
    /\ UNCHANGED projects

Cancel(s) ==
    /\ status[s] \in Active
    /\ status' = [status EXCEPT ![s] = "cancelled"]
    /\ UNCHANGED projects

\* A project goes with all its scans, a user with all its projects.
Remove(gone) ==
    /\ projects' = projects \ gone
    /\ status' = [s \in Scans |->
                    IF ProjectOf[s] \in gone THEN "absent" ELSE status[s]]

LedgerNext ==
    \/ \E s \in Scans : Record(s) \/ Start(s) \/ Succeed(s) \/ Fail(s) \/ Cancel(s)
    \/ \E gone \in SUBSET projects : Remove(gone)

LedgerSpec == LedgerInit /\ [][LedgerNext]_ledgerVars

-----------------------------------------------------------------------------
\* No scan row outlives its project row.
NoOrphanRow == \A s \in Scans : status[s] # "absent" => ProjectOf[s] \in projects

\* The outcome of a scan is written once: a settled scan keeps its status
\* until its row is removed.
KeepsOutcomes == \A s \in Scans : status[s] \in Terminal => status'[s] \in {status[s], "absent"}

OutcomeIsFinal == [][KeepsOutcomes]_ledgerVars
=============================================================================
