# RefactorIQ backend: specifications

RefactorIQ clones a branch of a GitHub repository, analyses its Python files and
says which of them to refactor first. This directory models the backend in TLA+,
checks the models with TLC, and proves the most important properties with TLAPS.

* [The system](#the-system): its parts, their state, how they interact, what is hard
* [The modules](#the-modules): what models what, and how it corresponds to the code
* [The runs](#the-runs): what each checks, its bounds, and why they are enough
* [Fairness](#fairness)
* [Where the code does something else than it says](#where-the-code-does-something-else-than-it-says)
* [The proofs](#the-proofs)
* [What is not modelled](#what-is-not-modelled)
* [The plan](#the-plan)

`PROJECT.json` lists the same in tables: components, runs, the lines each
definition stands for, hazards, a mutation of the code for every property, and
the theorems.

## The system

The processes are an API (FastAPI; handlers run in threads, with one database
session each), Celery workers with one task at a time (`--concurrency=1`, docker-compose.yml),
a Redis broker and a Postgres database (READ COMMITTED). Workers clone into a
directory shared with the API.

| Part (under `src/app`) | State it keeps | Operations | Correct when |
| --- | --- | --- | --- |
| Scans (`scans/`) | the rows of `scan`: status, timestamps, error message | request, guarded status change, lists, counts, trends | a status changes only forward, once per outcome; the timestamps follow it |
| Task queue (`queues/`, `core/celery_app.py`) | messages in Redis; the ids each worker holds for revoked | enqueue, deliver, revoke | a scan is executed at most once |
| Worker (`workers/`) | the task it runs | started, success and failure hooks | the row says what became of the task, and nobody else's row is touched |
| Engine and workspace (`analysis/.../scan_engine`) | clone directories | create, clone, analyse, remove | no two workers in one directory; none left behind |
| Pipeline and layers (`analysis/.../pipeline`) | the vectors of a scan | per-file, cross-file and decision stages | results do not depend on the order of the thread pool; a failed layer does not spoil the rest |
| Result storage (`analysis/scan_result_repository.py`, `scan_visualization/`) | rows of files, edges, groups | clear, store | all of a scan or nothing; nothing of a deleted one |
| Project deletion (`projects/`) | row locks while it works | prepare, revoke, clean up, delete, compensate | it misses no scan; it leaves none active |
| User deletion (`users/`) | | cascade over projects and scans | the same rows go as if the projects were deleted |
| Refactor queue (`refactor_queue/`) | rows with lane and position | add, move, remove | lanes are dense and in the order asked for |
| AI explanations (`ai_explanations/`) | one text per file or scan and type | get or create | everyone reads the same text, and few are paid for twice |
| Dashboards (`files/`, `overview/`, `analytics/`, `scans/`) | none, they read | pages, trends, counts, summaries, graphs | they agree with each other |
| Users and sign-in (`users/`, `auth/`, `github/`) | accounts: identity, role, activation | sign in through GitHub, sign in as administrator, PATCH, delete | what an administrator decides is not overwritten; a token names who signed in; nobody conflicts with himself |
| Startup (`main.py`, `scripts/seed_data.py`) | the configured administrator | reset the tables, seed | an API that serves has one administrator when it starts |

How they interact:

* `POST /scans` checks the project, inserts a `pending` row and commits, and sends
  the message, in three steps between which everything else may happen.
* The worker's hooks move the row with `transition_scan_status`, which locks the
  row and looks at the expected statuses: the only arbiter between a worker that
  finishes, a message delivered again, and a deletion that cancels.
* `DELETE /projects/{id}` locks the project and its scans and keeps the locks over
  calls to Redis and the file system; when one fails it rolls back and cancels
  the scans whose tasks it has already revoked, in other transactions.
* `DELETE /users/{id}` cascades to projects and scans and tells no worker.
* A sign-in looks up an account by its GitHub id, then by its address, then creates one, each step
  a transaction, between which an administrator may change or delete the account; an
  UPDATE names the columns whose value differs from the one read, and unique constraints decide the rest.
* The pipeline stores results while the scan may be deleted; foreign keys decide.
* Dashboards, the queue and the explanations read what the pipeline stored.

What is hard: the interleavings of those steps; workers, API processes and broker
that fail between them; messages and revocations delivered twice, late or not at
all; positions computed from rows that another request has changed; texts asked
for twice; accounts claimed by two people; one layer, file or transaction failing while the rest goes on; numbers
at the edges of their ranges; and queries written apart that are shown side by
side. `PROJECT.json` lists each hazard at its line with the property that
would be violated.

## The modules

### The life of a scan

`ScanStatus` has the statuses. `ScanLedger` is the abstract specification: what the
database promises about scans with no worker, lock or message in sight. `ScanLifecycle`
is the detailed one. Its steps are single transactions, broker commands and file
system calls; a transaction that takes its lock and commits without waiting for
something else is one step, and the locks a deletion holds over several steps are
`Locked` and `ProjectLocked`. `Ledger` is the refinement mapping (the status column).

| Variables | Code |
| --- | --- |
| `projects`, `scan`, `results` | rows of `project`, `scan` and what hangs from it |
| `request` | how far each POST handler has come |
| `queue`, `unacked`, `revokes`, `revoked` | messages in Redis, delivered messages, broadcasts under way, each worker's set of revoked ids |
| `worker` | which hook or stage the process is in |
| `deletion` | a DELETE handler: the plan it read under its locks, and what it has left to do |
| `workspaces` | clone directories |
| `runs`, `completed` | history, for the properties only |

Failures are those named in the constant `Faults`, so that a run says which it has:
a lost message or refused connection (`broker`), an error of a statement, before or
after its commit (`database`), of the disk (`filesystem`), a message delivered twice
(`redelivery`), and processes that stop (`worker_crash`, `api_crash`).

`Row` keeps the timestamps and the error message as set or not: which of them are
set follows from the status (`TimelineFollowsStatus`), their values matter to the
dashboards only.

### The refactor queue

`RefactorBoard` is the board the user sees: one sequence per lane. `RefactorQueue` has
the rows, and requests that compute positions from rows they loaded before
(SQLAlchemy's unit of work writes the columns that differ, and fails as a whole when
a row is gone). `ListedLanes` is the refinement mapping, from rows with positions to sequences.
One request at a time implements the board; several do not: the
positions get gaps and duplicates, which is why the properties of concurrent
requests say what survives (`MovesKeepOtherLanes`) and what repairs it
(`MoveRestoresOrder`, `RemovalClosesGap`). Database failures are `RollBack`.

### AI explanations

`AiExplanations`: a request looks up, asks the provider, inserts, and reads again
what it or a faster request inserted. A text is the number of the call that wrote it.
Whether a text can be parsed, and the fallback the service gives when there is no provider,
are not part of it.

### Scores

`DecisionScoring` is the decision layer as operators: normalisation of each metric,
weighted components, the dominant component, the refactor score, its confidence, its band, the
contributions shown with it, and the summary of a scan's scores by thresholds. Numbers are
fixed-point (thousandths, millionths) and rounded down where the code rounds to six
digits. `FileScoring` is a file among others (`Others`, their scores) whose scores are computed scan after scan,
from any metrics: what the theorems are about. The summary is written by places, not by filtered and sorted
lists: how many files have a score within given bounds, and which comes in turn. `MCDecisionScoring` has the steps of it that TLC can enumerate: layers report a metric profile
or fail in any combination, and one metric at a time comes out otherwise.

### The results of a scan

`ScanResults` is the pipeline: a thread pool that hands in files in any order, the
cross-file layers, the decision stage, best-effort storage of the vectors, the one
transaction that stores the rows, what is shown with a file afterwards, and a
deletion of the scan at any moment. It is built on `ImportGraph` (which file an
import refers to, both import graphs, cycles, metrics), `PythonImports` (what Python's own rules say
it refers to) and `FileHistory` (commits, renames, authors, churn, bug fixes, files changed together, a git that
fails half-way). Paths and module names are sequences of strings of any length, statements are those of Python's grammar
(`ImportStatement`), and a set of commits is the set of their places in the history. What the
developer's view shows of a run (`LayersShown`, `CyclesShown`, `FilesShown`) is read from the vectors
stored beside the rows and compared with them. Its `Spec` starts from any repository, with any files in
any order; the repository does not change while it is scanned, since the worker has cloned it.
`MCScanResults` develops a small package by imports, commits and renames, and scans three packages
chosen to be awkward.

### Source files

What two layers read out of the text of the files, and one service between them:

* `CodeBlocks` is the duplication layer before its metrics: the blocks of a file (functions,
  classes, runs of statements), their tokens, and which are alike. `CodeDuplicates` has the metrics
  made of the pairs.
* `Embeddings` is the embedding service: texts sorted by length, batches padded to their longest
  text on the tokenizer's side, positions that are the places of the padded row, pooling, and vectors put back into
  place. The model is external: the hidden state at a place is whatever `Hidden` makes of the text, of the padding before it and of the place,
  or nothing finite, in which case the vector is zero (`nan_to_num`), as it may be anyway; a zero vector is like no
  other, itself included (`Similar`). At the places of padding states are finite, so that the mask leaves nothing of them.
* `SourceFiles` has the files as they may be edited in any way (`Editing`), what a source file can be
  (`Sources`: finitely many nodes of the syntax tree, each on lines there are, and nothing else begins on the line of
  a `def` or a `class`), and the properties of the duplicates found in them, for any set of embedding `Services`.
* `StaticMetrics` is what the static layer counts itself in the syntax tree, the comments and
  the coverage data.

`MCSourceFiles` edits them as TLC can enumerate it: it writes files out of snippets, copies and breaks them, under six embedding
services that pool, pad and cut differently, one of which does not load, and a model that makes zero of one token and
overflows at another. Which blocks are near
without being equal is a choice.

### Accounts

`Accounts` has the table of users with the columns that matter, what GitHub says of its accounts
(`github`), the sign-ins (`visits`) statement by statement, the PATCH handlers (`patches`), the
accounts an administrator's token names (`admins`), and whether the API serves (`up`). `github_callback` is a
coroutine whose database work never awaits, so that sign-ins follow one another (`LoopFree`); the
administrator's handlers run in the thread pool, between any two of their statements. `Merged` is
SQLAlchemy's UPDATE, which writes what differs from the value read. `Start` is
`initialize_database`, with or without `RESET_DB_ON_STARTUP` (on by default), and `create_admin`.
Simplified: a PATCH names one field; the address somebody has at GitHub does not change (the
name does); roles are always found; display names and the texts of tokens are left out; the
tokens of a deleted account are dropped, as the look-up of the account refuses them.

### Dashboards

`Dashboards` has the rows of scans with their times and files, the queries of five
repositories as operators, a client that reads the list page by page, and a request
that reads a dependency graph by two statements. Times are numbers, and a row
may be created with a time that is already past, as `func.now()` is when its
transaction began; a cancelled scan is finished by the clock of another host, which may be
behind. `AdminProject` is the line of a project in the administrator's list. The lists are
those without filters. `InOrder` is ORDER BY, by what it promises: in a row's place stand as many rows before it as
come before it. (The provers can expand that, and not a sorting operator of the library.)

## The runs

| Run | Instance | Shows |
| --- | --- | --- |
| `one_scan` | one scan, two workers, two deletions, all faults | at most one execution, one writer, earned successes, coherent timelines, exact deletion plans; the ledger is implemented |
| `settling` | two scans of a project, one worker, one deletion, file system errors; fair | every scan leaves its active statuses |
| `orphan_workspace` | one scan, one worker, one deletion, no fault | violated: a directory stays |
| `queue_sequential` | four items, two of the same file, one request | the board is implemented, lanes are dense, a move ends where it was asked to |
| `queue_concurrent` | three items, two requests | what survives, and what repairs, interleaved requests |
| `ai_explanations` | three requests, a file and a scan, four texts | one text for everyone, few wasted |
| `decision_scoring` | three profiles or failure per layer, one metric otherwise | scores stay in range, add up, rank as documented, are counted as labelled, and get no better when metrics get worse |
| `scan_results` | three files, two changes; three packages scanned with two failures and a deletion | layers are right; results are complete and consistent, in the developer's view too; nothing is left of a deleted scan |
| `type_guard` | the same, with `if not TYPE_CHECKING:` | violated: an executed cycle is not a runtime cycle |
| `source_files` | three files, two snippets and their copies, six embedding services | lines counted once, duplicates in pairs, copies found whatever shares their batch if it is padded on the right, code counted alike wherever it stands |
| `dashboards` | three scans of a project and one of another, one clock tick, one failed or cancelled | charts agree, counts count once, pages miss nothing, graphs are closed |
| `accounts` | three accounts, two people, two names, two browsers, one PATCH, crashes and restarts | administrators decide, tokens name their owner, conflicts are with others, one administrator after a start |

Why the bounds are enough, and what they leave out:

* *Scans.* Two workers and a message that is delivered again are all that can
  meet in one scan; two deletions meet in its locks; a second scan is in `settling`. Several projects
  and owners, whose cascades could spill over, are left to the theorems (`DeletionSeesEverything`,
  `LifecycleImplementsLedger`), which have none of these bounds.
* *Queue.* A lane of three is the smallest with a middle; two requests are enough for each pair of
  stale read and write; `MaxPosition` reaches past the end of the lanes it is used on.
  Symmetry permutes items that stand for different files.
* *Explanations.* Three requests are needed for two of them to waste a text; the proofs have no bound.
* *Scores.* The profiles lie below, between and beyond the thresholds of every
  metric; combinations are complete per layer, not per metric.
* *Source files.* Two snippets in a file make statements adjoin and blocks nest; the snippets have a function in
  a function, a class with and without a method, a function under a condition and blocks below the least
  size; batches of two put a text beside a longer one.
* *Accounts.* Two identities for two names let a name change hands; the third account is the administrator, or
  the one in the way. Keys are given once, so three are all the accounts there ever are. A
  second PATCH would meet the first only in `Merged`. The proofs have no bound.
* *Results.* `MaxCommits` and `MaxFiles` are lowered from 100 and 25 to two, so that
  the cuts happen within histories of three to five commits. Two failures are enough for a
  layer that fails for one file and a transaction that fails afterwards.
* *Dashboards.* Three of the four scans are of one project, so that its charts (`HistoryLimit` 2) and the overview's
  trend (`PreviousCount` 1 and the scan itself) each leave one out, the oldest; the fourth is of another
  project, for what is counted across them. Of the files of a scan one is shown (`TopFileCount` 1), directories all. `MaxTime` 1 gives equal and
  different times, a window boundary and a day boundary.
  Named bounds in the module: one reader at a time, a transaction that inserts a scan lasts no
  longer than a tick; while somebody reads only the three scans of `IdsWhileRead` are there or requested, and while it
  is the list, they wait or run (`StatusesWhileListed`), as its order does not depend on what becomes of them.
  The proofs hold for any values of these.

`CHECK_DEADLOCK FALSE` is set where the modelled system may come to rest: ids, items or
calls are used up, all scans are settled and nobody asks for anything.

## Fairness

Only `settling` has liveness, under `FairSpec`. A worker that is idle takes a
message and a task runs on (weak fairness of `Delivery`, of `EnqueueScan`), because those are
processes that loop. Steps that wait for a row lock (`CreateScan`, `TaskStep`,
`DeletionStep`) have strong fairness: the lock is taken and released again and
again, and Postgres queues its waiters, so that none is passed over for ever.
No fairness is assumed of users, of redelivery or of failures.

The run has file system errors and no others, since with the others a scan does
not settle, by design or by omission: a message the broker loses, an API process
that stops between commit and enqueue, a worker that dies, or a hook whose database error is
swallowed leave a scan active with nothing in the code to pick it up
(`PROJECT.json`, hazards without a property).

## Where the code does something else than it says

* **Directories of deleted scans** (`orphan_workspace`). `delete_project` revokes,
  and removes the workspaces at once. A worker past `on_scan_started` creates its
  directory afterwards and is terminated before its `finally`. The test of the
  deletion asserts that the directory is gone; it has no worker.
* **Executable cycles** (`type_guard`). `_is_type_checking_guard` takes every condition that
  mentions `TYPE_CHECKING` for type-only, `if not TYPE_CHECKING:` included.

Further observations, of which no line of the repository says otherwise, so that no run
claims them:

* Any integrity error of an insert is reported as the duplicate it usually is: "already in the
  refactor queue", "Project already exists", also when the project or the user was deleted meanwhile.
* Relative imports in an `__init__` are resolved one package too high
  (`ImportGraph!Base`); `ImportsAreReal` leaves them out. A `from` import of several
  submodules counts only for those found first, and when the first of them is in no file (in a package without
  `__init__`) for the parent alone (`FirstIsElsewhere`).
* A scan whose results could not be stored still succeeds, and counts as risk zero in every trend.
* The list of scans and its total are two statements: `has_next_page` may be out of date, and a client
  that relies on it may miss the last page. A deletion between two pages makes the next one skip
  scans; so does a change of status when the list is filtered by status.
* Of scans that finished at the same time the overview trend shows the one asked for
  first, the project trend the smaller id.
* Cancelled scans are in the total of a project's status counts and in no other number there.
* The compensation of a failed deletion stops at the first scan it cannot cancel.
* Deleting a user locks scans before projects, deleting a project the other way round;
  Postgres resolves the deadlock by failing one of them.
* A directory insight is stored before it is parsed: one that cannot be parsed is found, and fails, for ever after.
* An account keeps the GitHub name it last signed in with. When that name passes to somebody else, their sign-in is refused as a
  conflict until the first one signs in again; `ConflictsAreWithOthers` says no more than whose account it is.
* A second administrator, or a new address for the first, makes the next start fail (`create_admin` raises).
* A PATCH that asks for the value its handler read writes nothing, though another value was committed meanwhile.
* `--follow --reverse` stops at the newest rename: the growth of complexity is measured from there. A file's own former name
  counts as a file that changed with it. A git that fails half-way leaves co-changed files without the metric.
* A class with methods leaves its own attributes in no block. Of texts that begin with the same tokens, as many as the model
  takes, the vectors are the same.
* `position_ids` count the places of the padded row (`_position_ids_like`): with a tokenizer that pads on the left, the positions of a text's
  tokens, and with them its vector, depend on the longest text of its batch, and copies in different batches may differ; `cls` pooling even takes
  the state of a place of padding. `CopiesAreFound` is about padding on the right. `mean` pooling multiplies by the mask, so that
  a state of padding that is not finite would spoil the vector.
* `if not (a or b or c)` has one operand. `.coverage` is looked for in every directory above, outside the workspace too.
* The administrator's list of users is ordered by creation time alone, that of projects by numbers that change: pages of both
  may repeat and skip.

## The proofs

Theorems hold for all values of the constants that satisfy the named assumptions, which TLC evaluates in
the runs:

* `LifecycleAssumption`, `QueueAssumption`, `ExplanationsAssumption`, `AccountsAssumption`: sets are finite where
  the code counts them, markers such as NULL are no proper values, bounds are numbers.
* `ScoringAssumption`, `OthersAssumption`: a metric that is missing is no number. Metrics are any integers. The other
  files have scores as `RefactorScore` gives them, or none.
* `ScanResultsAssumption`: the files of a repository are a sequence, a path is a sequence of strings and not empty;
  history is read up to a number of commits. Of imports, names and commits nothing is assumed but their types (`Repositories`).
* `SourcesAssumption`: files are finitely many; batch size, limits and the least lines of a block are positive
  (`CodeEmbeddingService.__init__` and `_effective_max_length` see to that, the block has three); a blank line has no
  tokens. Nothing is assumed of modes, sides, tokens or of what a model makes of them (`Hidden`).
* `DashboardsAssumption`: ids are finitely many numbers, limits are numbers and pages not empty; a file has its path to
  itself within a scan (the unique constraint of `ScanFile`) and a known band or none, and
  edges are between files of the scan (the foreign keys of `DependencyEdge`).

What is proved of each part, and along which argument:

* `ScanLifecycleProofs`. `TypeInv` (types, and that a worker that is not idle has a task) is inductive.
  On it rests `RunInv`: at most one execution is not inductive by itself, so that it also says that a pending or
  unrecorded scan has not been run, that whoever is in the pipeline has been counted, and that
  a success hook is reached only through the end of the pipeline. `LockInv` adds to the exact deletion plans that two deletions never
  hold the same project; its lemma `LockInvKept` covers every step that leaves plans and
  locked rows alone. Theorems: `TypeCorrect`, `ScanRunsAtMostOnce`, `OneWriterPerScan`,
  `SuccessIsEarned`, `DeletionSeesEverything`. Every step changes the rows in one of a few ways
  (`RowChange`), from which follow `TimelineIsCoherent`, the refinement
  `LifecycleImplementsLedger`, and from that `ScanOutcomeIsFinal`.
* `RefactorQueueProofs`. `QueueInv` is inductive: types (`QueueTypes`); creation times tell items apart; and a request works on, and has
  read, rows of items that were created. `OnlyOwnMoves`: however stale the board a move was computed
  from, it changes the lane of its own item only, because of what the unit of work
  leaves out of its updates (`WriteKeepsStatus`). `MovesRestoreOrder` and `RemovalsCloseGaps`: a write that is not disturbed
  numbers its lanes 0, 1, 2, ..., whatever gaps and duplicates it found, because each row is
  given the number of rows before it in a total order, and those numbers are all there are (`RanksNumber`).
  When requests come one at a time (`OneAtATime`), what a request has read is what is stored
  (`SequentialInv`), so that lanes are dense at all times (`QueueStaysNumbered`), and the rows are
  the lanes of the board (`Lists`): an item's position is its place in the sequence, what `Without`
  removes and `InsertAt` inserts is what `Rearranged` counts (`Placed`, `WithoutPlaces`, `InsertPlaces`). Hence
  `QueueImplementsBoard` and `MovesDoAsAsked`.
* `AiExplanationsProofs`. `OneTextForEveryone` by `Agreed` (what was given is what
  is stored, while the parent exists); `WasteIsBounded` by counting the requests that may
  still bring a text (`Bringing`) along with those wasted. `ExplanationTypes` is the type invariant.
* `FileScoringProofs`. For any metrics whatever, negative and huge ones included: every metric's score is between 0 and 1 and
  monotone in its metric, hence components are (`ComponentScoreType`, `ComponentScoreWorse`), hence the score is a mean of
  them (`ScoreAlwaysBetween`) that no metric improves by getting worse (`WorseNeverEverHelps`): what the dominant component
  gains over the rest outweighs what the mean loses. `ContributionsAlwaysAddUp` by rounding
  term by term (`SumRounded`); `CodeLocalFindingsAlwaysLead` by exchanging two scores in the mean (`SwappedMean`).
  `ScoresFollowMetrics`: the scores are always those of the metrics. `SummaryAlwaysAgrees`: the places with a score are
  numbered by the places sorted before them (`RanksNumber`), so that the candidate in turn exists, is one, and has as many
  before it as it should; the bands are disjoint and exhaust the files; a sum lies between its least and
  its largest term times their number.
  In the same module, about the duplicates of edited files: `SourcesStaySources` (the invariant `SourcesInv`: every file is a
  source). From it: a file's blocks are finitely many, apart from each other by where they begin and end
  (`BlocksOfASource`), and listed once each (`AllTheBlocks`). Hence `LinesAlwaysCountedOnce`, as all blocks lie within the
  file, and `DuplicatesAlwaysComeInPairs`, as a match is mutual in whatever pairs are given (`PeersComeInPairs`).
  `CopiesAlwaysFound`: in whatever batch a text stands, padding on the right moves no token (`OnTheRight`), and the places
  pooled are those that would be pooled from it alone (`PooledAlone`, for each mode), sorting is a permutation (`SortedByLength`), so that a
  text has the vector it has alone (`EncodedAlone`); a block matches its copy if that vector is not zero and nothing if it
  is (`CopiesSemantic`); and a block's copy is a block of the copied file with the same tokens and text
  (`CopiedBlocks`).
* `ScanResultsProofs`. `ResultsInv`: a stage that is over has handed in a vector for every file,
  and what is stored was stored at the end from all vectors, or is nothing. With it `StoredResultsComplete`, for any number of
  files, failures, order of the pool and ids, and `DeletedScansLeaveNothing`. The repository stays the one
  that was cloned (`RepositoryStays`). `ImportsReal`: the file found for a name is that of its longest part that is
  a module, which Python loads on the way; of the candidates tried in order, the first that is found is what the
  first name stands for, unless that is elsewhere. `FixesAreModifications`: the commits of a file are finitely many places,
  dropping the oldest of fewer commits keeps no commit that dropping the oldest of all loses, and quotients are
  monotone. `ViewsOfAScanAgree`: with `VectorsOnce` (no two vectors of a file and a layer) and `VectorsShown` (what is recorded
  for the developers was handed in, all of it unless the database failed) the two
  stores show the same; the cycles of a graph are disjoint because reachability, stated as what every closed set has, is
  reflexive on a cycle and transitive; and the runtime graph has no edge that the other has not.
* `DashboardsProofs`. `GraphInv` has the types (`DashboardTypes`), what an update finds in a row, and
  `Watched`: between the two statements the scan is as it was or gone, because a scan that succeeded is never
  written again and its id is never used again; hence `ShownGraphsAreClosed`. `NoScanIsSkipped` by `UnseenAhead`: scans
  the client has not seen stand at or behind the next page, because rows inserted meanwhile are no
  older than those listed and push the others back. `ScansCountedOnce`: each number counts the rows with
  one value of a column, or of one day or project, and those sets are disjoint and exhaust the rows (`CountByValues`). `SummariesAlwaysAgree` and
  `TrendsAlwaysAgree`: the lists hold all rows, each at the place `InOrder` gives it, so that queries written apart that select
  the same rows, and cut them at limits of any size, show the same numbers.
* `AccountsProofs`. `IInv` is inductive: types; identities, names and addresses belong to one account each; at most one
  sign-in is between two of its statements; and what a sign-in remembers
  of its row still holds of it (its id and its name, which no PATCH writes). Theorems: `TypeCorrect`,
  `DecisionsStand`, `TokensNameOwners`, `ConflictsConcernOthers`, `StartSeedsOneAdmin`. `SignInMerge` and
  `PatchMerge` say what an UPDATE leaves alone.
* `Counting` has what four of them need of finite sets: sums element by element, quotients, counts by values, and numbers from
  counting predecessors. The library states induction over finite sets for a predicate, which
  the provers cannot instantiate; it is replaced by the least number of a set of numbers (`LeastNumber`).

The type invariants that are theorems are not repeated in the runs, except that of the life of a scan.

Only checked by TLC:

* Liveness (`ScansSettle`) and whatever needs ENABLED, which the prover does not support.
* `CodeCountsWhereverItStands`: syntax trees nest, what the static layer counts in them is recursion over data, and it is
  written in recursive operators, beside which no theorem can stand.

## What is not modelled

* GitHub access (`github/`): stateless reads on behalf of the signed-in user. Except for `Accounts`, the modules take the
  caller as authenticated and the owner of what is asked for.
* What libraries compute: lines and complexities (radon, complexipy), betweenness (networkx), tokens and hidden states
  of an embedding model; the similarity of blocks that are near without being equal is a choice.
* The filters of lists, the months of the charts of users and projects: one read each, over one table.
* What the summary vector of a scan has beside its numbers; the layout of the developer's view; logging, settings, error
  responses, migrations, scripts other than the seeder.
* The connection pool (ten and twenty connections, `core/database.py`): a
  request keeps one while a provider answers.
* The insight's text after it is stored; prompts; the texts and expiry of tokens; hashing.

## The plan

Done, in this order: the life of a scan with its ledger and proofs; the refactor queue; the explanations;
the scores; the results; the dashboards; source files and embeddings; accounts.

The proofs followed, in this order: the life of a scan; the explanations; accounts; the refactor queue with its refinement;
scores; stored results; dashboards; imports and histories; the developer's view; the summary; duplicates and embeddings. Histories,
summary, blocks and embeddings are written by places instead of filtered and sorted sequences, because the provers can expand
the one and not the other.

Next:

1. *Composition*: the results of `ScanResults` as the step `RunScan` of `ScanLifecycle`, so that
   what the dashboards read is tied to what the worker stored.
2. *Connections*: the pool as a bounded resource beside `AiExplanations`.
3. *Syntax trees* as sets of nodes with parents, about which `CodeCountsWhereverItStands` could be proved.
