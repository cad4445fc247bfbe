------------------------------ MODULE Dashboards ------------------------------
(***************************************************************************)
(* What the dashboards show of the scans: pages of them, trends over the   *)
(* latest ones, counts by status, day and period, and summaries of one.    *)
(* The queries behind them were written apart from each other (scans,      *)
(* files, overview, projects, analytics) and read the same rows while      *)
(* scans are requested, settled and deleted.                               *)
(*                                                                         *)
(* Every statement reads what is committed when it starts.  The ids of     *)
(* scans are numbers, since only their order matters; a time is a number,  *)
(* and a row may be created with a time taken before others committed.     *)
(***************************************************************************)
EXTENDS Integers, Sequences, SequencesExt, FiniteSetsExt

CONSTANTS Ids,                  \* the ids scans may get, numbers
          ProjectOf,            \* the project each scan would be of
          Analyses,             \* what a scan may store: [files, edges]
          None,                 \* NULL
          HistoryLimit,         \* SCAN_DASHBOARD_HISTORY_LIMIT
          PreviousCount,        \* PREVIOUS_TREND_SCAN_COUNT
          TopFileCount,         \* TOP_REFACTOR_FILE_COUNT
          TopDirectoryCount,    \* TOP_DIRECTORY_COUNT
          PageSize,             \* the limit of a page
          KpiPeriod,            \* KPI_PERIOD_DAYS
          DayLength, TimelineDays,
          MaxTime,              \* bound on the clock
          MaxUnsuccessful,      \* bound on the scans that fail or are cancelled
          IdsWhileRead,         \* bound on the scans requested before or while anybody reads
          StatusesWhileListed   \* bound on their statuses while somebody goes through the list

VARIABLES clock,
          scans,                \* the rows, by id, with the rows of their files
          issued,               \* the ids that have been given to scans
          pager,                \* a client that goes through the list of scans
          viewer                \* a request for the dependency graph of a scan
vars == <<clock, scans, issued, pager, viewer>>

Bands == {"critical", "high", "medium", "low"}

\* A path and a directory are numbers too.  The files of a scan have paths of their
\* own (a constraint of ScanFile) and a known band or none, and the edges of an
\* analysis refer to its files (foreign keys of DependencyEdge).
ASSUME DashboardsAssumption ==
    /\ MaxTime \in Nat /\ KpiPeriod \in Nat /\ TimelineDays \in Nat
    /\ PreviousCount \in Nat /\ TopFileCount \in Nat /\ TopDirectoryCount \in Nat
    /\ HistoryLimit \in Nat \ {0} /\ PageSize \in Nat \ {0} /\ DayLength \in Nat \ {0}
    /\ Ids \subseteq Nat /\ IsFiniteSet(Ids)
    /\ None \notin Int \cup Bands
    /\ \A a \in Analyses :
          /\ IsFiniteSet(a.files)
          /\ \A f \in a.files : /\ f.path \in Nat /\ f.directory \in Nat
                                /\ f.score \in Nat \cup {None} /\ f.band \in Bands \cup {None}
          /\ \A f, g \in a.files : f.path = g.path => f = g
          /\ LET paths == {f.path : f \in a.files} IN a.edges \subseteq paths \X paths

Projects == {ProjectOf[s] : s \in Ids}
RiskyBands == {"critical", "high", "medium"}

NoAnalysis == [files |-> {}, edges |-> {}]
NoList  == [page |-> 0, descending |-> TRUE, unseen |-> {}]
NoGraph == [at |-> "idle", scan |-> None, nodes |-> {}, edges |-> {}]

Status(s) == scans[s].status
FilesOf(s) == scans[s].analysis.files

-----------------------------------------------------------------------------
(* Trends.                                                                 *)

\* ORDER BY: in the i-th place stands what i - 1 others come before.
InOrder(S, Before(_, _)) ==
    [i \in 1..Cardinality(S) |-> CHOOSE s \in S : Cardinality({t \in S : Before(t, s)}) = i - 1]

FirstOf(seq, n) == SubSeq(seq, 1, Min({n, Len(seq)}))

\* ORDER BY finished_at DESC, id DESC
FinishedAfter(s, t) ==
    scans[s].finished > scans[t].finished \/ (scans[s].finished = scans[t].finished /\ s > t)

Latest(some, limit) == FirstOf(InOrder(some, FinishedAfter), limit)

SucceededOf(p) ==
    {s \in DOMAIN scans : ProjectOf[s] = p /\ Status(s) = "succeeded" /\ scans[s].finished # None}

\* In hundredths of a per cent; files without a score are ignored, and a scan
\* without scored files counts as zero.
AverageScore(s) ==
    LET scored == {f \in FilesOf(s) : f.score # None} IN
    IF scored = {} THEN 0
    ELSE (SumFunction([f \in scored |-> f.score]) * 100) \div Cardinality(scored)

Point(s) == [scan |-> s, finished |-> scans[s].finished, average_score |-> AverageScore(s)]

\* The latest first, cut, and then turned round.
LatestSucceeded(p) == Reverse(Latest(SucceededOf(p), HistoryLimit))

ProjectRiskTrend(p) == LET latest == LatestSucceeded(p) IN [i \in DOMAIN latest |-> Point(latest[i])]

BandCount(s, band) ==
    Cardinality({f \in FilesOf(s) : f.band = band \/ (f.band = None /\ band = "unknown")})

CountsByBand(s) == [band \in Bands \cup {"unknown"} |-> BandCount(s, band)]

\* Variant: sorted the way it is shown and then cut, which leaves the oldest.
DistributionOfOldest(p) ==
    LET oldest == FirstOf(Reverse(InOrder(SucceededOf(p), FinishedAfter)), HistoryLimit) IN
    [i \in DOMAIN oldest |-> [scan |-> oldest[i], counts |-> CountsByBand(oldest[i])]]

PriorityDistribution(p) ==
    LET latest == LatestSucceeded(p) IN
    [i \in DOMAIN latest |-> [scan |-> latest[i], counts |-> CountsByBand(latest[i])]]

FileCount(s) == Cardinality(FilesOf(s))

FilesAnalyzed(p) ==
    LET latest == LatestSucceeded(p) IN
    [i \in DOMAIN latest |-> [scan |-> latest[i], files |-> FileCount(latest[i])]]

SettledOf(p) ==
    {s \in DOMAIN scans : /\ ProjectOf[s] = p /\ Status(s) \in {"succeeded", "failed", "cancelled"}
                          /\ scans[s].started # None /\ scans[s].finished # None}

LatestSettled(p) == Reverse(Latest(SettledOf(p), HistoryLimit))

DurationTrend(p) ==
    LET latest == LatestSettled(p) IN
    [i \in DOMAIN latest |->
        [scan |-> latest[i], duration |-> Max({0, scans[latest[i]].finished - scans[latest[i]].started})]]

\* The line of a project in the administrator's list.
AdminProject(p) ==
    LET own   == {s \in DOMAIN scans : ProjectOf[s] = p}
        valid == {s \in own : /\ scans[s].started # None /\ scans[s].finished # None
                             /\ scans[s].finished >= scans[s].started} IN
    [scan_count |-> Cardinality(own),
     average_scan_duration |->
        IF valid = {} THEN None
        ELSE SumFunction([s \in valid |-> scans[s].finished - scans[s].started]) \div Cardinality(valid)]

\* The scan asked for and those before it, sorted by finish time only: of equal
\* ones the scan asked for comes first, then the larger id.
OverviewTrend(s) ==
    LET prior == {t \in SucceededOf(ProjectOf[s]) : FinishedAfter(s, t)}
        rows  == <<s>> \o Latest(prior, PreviousCount)
        order == InOrder(DOMAIN rows, LAMBDA i, j :
                     \/ scans[rows[i]].finished < scans[rows[j]].finished
                     \/ scans[rows[i]].finished = scans[rows[j]].finished /\ i < j) IN
    [i \in DOMAIN rows |-> Point(rows[order[i]])]

-----------------------------------------------------------------------------
(* Counts.  Windows contain their first moment and not their last.         *)

\* Variant: both ends belong to the window.
CountClosed(from, before) ==
    Cardinality({s \in DOMAIN scans : from <= scans[s].created /\ scans[s].created <= before})

CountScans(from, before) ==
    Cardinality({s \in DOMAIN scans : from <= scans[s].created /\ scans[s].created < before})

Metric(total, current, previous) ==
    [total |-> total, current_period_count |-> current, previous_period_count |-> previous,
     delta |-> current - previous,
     delta_percent |-> IF previous = 0 THEN None ELSE ((current - previous) * 100) \div previous]

ScanKpi(now) ==
    Metric(Cardinality(DOMAIN scans), CountScans(now - KpiPeriod, now),
           CountScans(now - 2 * KpiPeriod, now - KpiPeriod))

Day(t) == t \div DayLength

\* A point for each of the days that end with today.
ScansOverTime(p, now) ==
    LET start == Day(now) - (TimelineDays - 1)
        counted == {s \in DOMAIN scans : /\ ProjectOf[s] = p
                                         /\ scans[s].created >= start * DayLength
                                         /\ scans[s].created < (Day(now) + 1) * DayLength} IN
    [day \in start..Day(now) |-> Cardinality({s \in counted : Day(scans[s].created) = day})]

CountByStatus(p, status) == Cardinality({s \in DOMAIN scans : ProjectOf[s] = p /\ Status(s) = status})

\* Cancelled scans are in the total only.
StatusCounts(p) ==
    [status \in {"succeeded", "pending", "failed", "running", "total"} |->
        IF status = "total" THEN Cardinality({s \in DOMAIN scans : ProjectOf[s] = p})
        ELSE CountByStatus(p, status)]

StatusDistribution ==
    [status \in {"pending", "running", "succeeded", "failed", "cancelled"} |->
        Cardinality({s \in DOMAIN scans : Status(s) = status})]

\* ORDER BY created_at, the newest or the oldest first, then id DESC
ListedBefore(descending, s, t) ==
    \/ IF descending THEN scans[s].created > scans[t].created ELSE scans[s].created < scans[t].created
    \/ scans[s].created = scans[t].created /\ s > t

\* All a reader may see, without a filter.
Listed(descending) == InOrder(DOMAIN scans, LAMBDA s, t : ListedBefore(descending, s, t))

\* Of a project with scans: running if one is, or what became of the newest.
ProjectStatus(p) ==
    IF CountByStatus(p, "running") > 0 THEN "running"
    ELSE LET own == {s \in DOMAIN scans : ProjectOf[s] = p} IN
         Status(CHOOSE s \in own : \A t \in own \ {s} : ListedBefore(TRUE, s, t))

-----------------------------------------------------------------------------
(* Summaries of a scan.                                                    *)

ScanSummary(s) ==
    [total_files |-> SumFunction([band \in Bands \cup {"unknown"} |-> BandCount(s, band)]),
     severity    |-> [band \in Bands |-> BandCount(s, band)]]

\* Variant: as the database sorts by itself, files without a score first.
TopFilesAsSorted(s) ==
    FirstOf(InOrder(FilesOf(s), LAMBDA f, g :
        \/ f.score = None /\ g.score # None
        \/ f.score # None /\ g.score # None /\ f.score > g.score
        \/ f.score = g.score /\ f.path < g.path), TopFileCount)

\* The highest scores first, files without a score last.
TopFiles(s) ==
    FirstOf(InOrder(FilesOf(s), LAMBDA f, g :
        \/ f.score # None /\ g.score = None
        \/ f.score # None /\ g.score # None /\ f.score > g.score
        \/ f.score = g.score /\ f.path < g.path), TopFileCount)

DirectoryItem(s, directory) ==
    LET within == {f \in FilesOf(s) : f.directory = directory} IN
    [directory |-> directory, file_count |-> Cardinality(within),
     risky_file_count |-> Cardinality({f \in within : f.band \in RiskyBands})]

\* The most risky files first, then by name.
RiskByDirectory(s) ==
    FirstOf(InOrder({DirectoryItem(s, f.directory) : f \in FilesOf(s)}, LAMBDA d, e :
        \/ d.risky_file_count > e.risky_file_count
        \/ d.risky_file_count = e.risky_file_count /\ d.directory < e.directory), TopDirectoryCount)

-----------------------------------------------------------------------------
(* A client that asks for page after page until one is empty. What it has  *)
(* not seen of the scans there were when it began is kept beside it.       *)

Items(descending, offset) ==
    SubSeq(Listed(descending), offset + 1, Min({offset + PageSize, Cardinality(DOMAIN scans)}))

\* Variant: the offset of the next page.
PageOffByOne(descending, page) == Items(descending, page * PageSize)

Page(descending, page) == Items(descending, (page - 1) * PageSize)

\* Bounds: one reader at a time, among few scans.
NoReader == pager = NoList /\ viewer = NoGraph
MayRead  == NoReader /\ issued \subseteq IdsWhileRead

\* Bound: so do scans of other statuses, on which the order of the list does not depend.
MayBecome(status) == pager = NoList \/ status \in StatusesWhileListed

OpenList(descending) ==
    /\ MayRead /\ \A s \in DOMAIN scans : Status(s) \in StatusesWhileListed
    /\ pager' = [page |-> 1, descending |-> descending, unseen |-> DOMAIN scans]
    /\ UNCHANGED <<clock, scans, issued, viewer>>

ReadPage ==
    /\ pager # NoList
    /\ LET items == ToSet(Page(pager.descending, pager.page)) IN
       pager' = IF items = {} THEN NoList
                ELSE [pager EXCEPT !.page = @ + 1, !.unseen = @ \ items]
    /\ UNCHANGED <<clock, scans, issued, viewer>>

-----------------------------------------------------------------------------
(* The dependency graph of a scan: a check, the files, and then the edges, *)
(* which are joined with the files.                                        *)

OpenGraph(s) ==
    /\ MayRead
    /\ Status(s) = "succeeded"
    /\ viewer' = [NoGraph EXCEPT !.at = "nodes", !.scan = s]
    /\ UNCHANGED <<clock, scans, issued, pager>>

NodeRows(s) == IF s \in DOMAIN scans THEN {f.path : f \in FilesOf(s)} ELSE {}
EdgeRows(s) == IF s \in DOMAIN scans THEN scans[s].analysis.edges ELSE {}

\* Variant: the edges and then the files.
EdgesBeforeNodes ==
    \/ /\ viewer.at = "nodes"
       /\ viewer' = [viewer EXCEPT !.at = "edges", !.edges = EdgeRows(viewer.scan)]
    \/ /\ viewer.at = "edges"
       /\ viewer' = [viewer EXCEPT !.at = "shown", !.nodes = NodeRows(viewer.scan)]

NodesBeforeEdges ==
    \/ /\ viewer.at = "nodes"
       /\ viewer' = [viewer EXCEPT !.at = "edges", !.nodes = NodeRows(viewer.scan)]
    \/ /\ viewer.at = "edges"
       /\ viewer' = [viewer EXCEPT !.at = "shown", !.edges = EdgeRows(viewer.scan)]

ReadGraph == NodesBeforeEdges /\ UNCHANGED <<clock, scans, issued, pager>>

CloseGraph ==
    /\ viewer.at = "shown"
    /\ viewer' = NoGraph
    /\ UNCHANGED <<clock, scans, issued, pager>>

-----------------------------------------------------------------------------
(* What happens to the scans meanwhile.                                    *)

Tick == clock < MaxTime /\ clock' = clock + 1 /\ UNCHANGED <<scans, issued, pager, viewer>>

\* created_at is when the transaction that inserts the row started. Bound: it
\* commits in that moment or in the next one.
Lately == {clock, Max({0, clock - 1})}

Request(s) ==
    /\ s \in IdsWhileRead \/ NoReader
    /\ s \notin issued /\ issued' = issued \cup {s}
    /\ \E created \in Lately :
          scans' = [t \in DOMAIN scans \cup {s} |->
                       IF t # s THEN scans[t]
                       ELSE [status |-> "pending", created |-> created, started |-> None,
                             finished |-> None, analysis |-> NoAnalysis]]
    /\ UNCHANGED <<clock, pager, viewer>>

Start(s) ==
    /\ Status(s) = "pending" /\ MayBecome("running")
    /\ scans' = [scans EXCEPT ![s].status = "running", ![s].started = clock]
    /\ UNCHANGED <<clock, issued, pager, viewer>>

Succeed(s) ==
    /\ Status(s) = "running" /\ MayBecome("succeeded")
    /\ \E analysis \in Analyses \cup {NoAnalysis} :
          scans' = [scans EXCEPT ![s].status = "succeeded", ![s].finished = clock,
                                 ![s].analysis = analysis]
    /\ UNCHANGED <<clock, issued, pager, viewer>>

\* A scan may fail or be cancelled before it starts.  The time is that of the host
\* that gives up: for a scan that is cancelled not the worker's, and it may be behind.
GiveUp(s, status) ==
    /\ Status(s) \in {"pending", "running"} /\ MayBecome(status)
    /\ Cardinality({t \in DOMAIN scans : Status(t) \in {"failed", "cancelled"}}) < MaxUnsuccessful
    /\ \E finished \in IF status = "cancelled" THEN Lately ELSE {clock} :
          scans' = [scans EXCEPT ![s].status = status, ![s].finished = finished]
    /\ UNCHANGED <<clock, issued, pager, viewer>>

DeleteProject(p) ==
    /\ \E s \in DOMAIN scans : ProjectOf[s] = p
    /\ scans' = [s \in {t \in DOMAIN scans : ProjectOf[t] # p} |-> scans[s]]
    /\ pager' = [pager EXCEPT !.unseen = {}]   \* the pages after it may skip any scan
    /\ UNCHANGED <<clock, issued, viewer>>

Init == clock = 0 /\ scans = <<>> /\ issued = {} /\ pager = NoList /\ viewer = NoGraph

Next ==
    \/ Tick
    \/ \E s \in Ids : Request(s)
    \/ \E s \in DOMAIN scans : Start(s) \/ Succeed(s) \/ OpenGraph(s)
    \/ \E s \in DOMAIN scans, status \in {"failed", "cancelled"} : GiveUp(s, status)
    \/ \E p \in Projects : DeleteProject(p)
    \/ \E descending \in BOOLEAN : OpenList(descending)
    \/ ReadPage \/ ReadGraph \/ CloseGraph

Spec == Init /\ [][Next]_vars

-----------------------------------------------------------------------------
(* Properties.                                                             *)

Scanned(trend) == [i \in DOMAIN trend |-> trend[i].scan]
Newest(trend, n) == SubSeq(trend, Max({1, Len(trend) - n + 1}), Len(trend))

TypeOK ==
    /\ clock \in 0..MaxTime
    /\ DOMAIN scans \subseteq issued /\ issued \subseteq Ids
    /\ \A s \in DOMAIN scans : scans[s].created \in 0..clock
    /\ viewer.at \in {"idle", "nodes", "edges", "shown"}

\* The charts of a project are about the same scans in the same order: average
\* risk, priorities and files analyzed scan by scan; the trend shown with a scan
\* has the scores of the project's trend and is its newest part when the scan is
\* the latest; the chart of durations leaves out none of them that is not older
\* than all it shows, and when it leaves out no scan the administrator's average is
\* that of the chart, or more, as a clock that was behind makes a duration zero in
\* the one and leaves it out of the other.
\* (scans_repository, files_repository, overview_repository, projects_repository)
TrendsAgree ==
    \A p \in Projects :
        LET risk     == ProjectRiskTrend(p)
            duration == DurationTrend(p) IN
        /\ Scanned(PriorityDistribution(p)) = Scanned(risk)
        /\ Scanned(FilesAnalyzed(p)) = Scanned(risk)
        /\ \A s \in SucceededOf(p) :
              LET shown == OverviewTrend(s) IN
              /\ \A i, j \in DOMAIN shown : i < j => shown[i].finished <= shown[j].finished
              /\ \A point \in ToSet(shown), other \in ToSet(risk) :
                    point.scan = other.scan => point = other
              /\ s = risk[Len(risk)].scan /\ HistoryLimit > PreviousCount =>
                    ToSet(shown) = ToSet(Newest(risk, PreviousCount + 1))
        /\ \A i \in DOMAIN risk :
              \/ risk[i].scan \in ToSet(Scanned(duration))
              \/ \A point \in ToSet(duration) : FinishedAfter(point.scan, risk[i].scan)
        /\ Cardinality(SettledOf(p)) <= HistoryLimit =>
              LET average == AdminProject(p).average_scan_duration
                  total   == SumFunction([i \in DOMAIN duration |-> duration[i].duration]) IN
              /\ average = None => total = 0
              /\ average # None => average >= total \div Len(duration)

\* The summaries of a scan are about the same files: the bands of the summary and
\* the files without one make up the files analyzed, as do the directories when
\* all are shown, whose risky files are those of the risky bands; the files to
\* refactor first are its worst, and a file without a score is among them only
\* when every file with a score is.  (overview_service, files_repository)
SummariesAgree ==
    \A p \in Projects : \A i \in DOMAIN FilesAnalyzed(p) :
        LET point   == FilesAnalyzed(p)[i]
            s       == point.scan
            counts  == PriorityDistribution(p)[i].counts
            summary == ScanSummary(s)
            top     == ToSet(TopFiles(s))
            shown   == ToSet(RiskByDirectory(s)) IN
        /\ summary.total_files = point.files
        /\ \A band \in Bands : summary.severity[band] = counts[band]
        /\ Cardinality(shown) < TopDirectoryCount =>
              /\ SumFunction([d \in shown |-> d.file_count]) = point.files
              /\ SumFunction([d \in shown |-> d.risky_file_count])
                    = summary.severity["critical"] + summary.severity["high"] + summary.severity["medium"]
        /\ Cardinality(top) = Min({TopFileCount, point.files})
        /\ \A f \in top, g \in FilesOf(s) \ top :
              g.score # None => f.score # None /\ f.score >= g.score

\* A scan is counted once: two periods next to each other count what the period
\* they make up counts, each scan of the days shown is in the count of its day
\* only, and the scans of a project are those of each status and the cancelled
\* ones, of which the project's own status is one; the distribution over all
\* projects is the sum of theirs.  (analytics_service,
\* scans_service, projects_repository)
CountedOnce ==
    /\ LET kpi == ScanKpi(clock) IN
       kpi.current_period_count + kpi.previous_period_count = CountScans(clock - 2 * KpiPeriod, clock)
    /\ \A status \in DOMAIN StatusDistribution :
          StatusDistribution[status] = SumFunction([p \in Projects |-> CountByStatus(p, status)])
    /\ \A p \in Projects :
          LET counts == StatusCounts(p)
              days   == ScansOverTime(p, clock) IN
          /\ AdminProject(p).scan_count = counts["total"]
          /\ SumFunction(days)
                = Cardinality({s \in DOMAIN scans : ProjectOf[s] = p /\ Day(scans[s].created) \in DOMAIN days})
          /\ counts["total"] = SumFunctionOnSet(counts, DOMAIN counts \ {"total"})
                               + CountByStatus(p, "cancelled")
          /\ counts["total"] > 0 => CountByStatus(p, ProjectStatus(p)) > 0

\* A client that reads the list of scans page by page, in either order, has seen
\* every scan there was when it began, though scans are requested meanwhile, unless
\* a project was deleted.  (ScansRepository.list_scans)
PagesMissNothing ==
    [][pager # NoList /\ pager' = NoList => pager.unseen = {}]_vars

\* The edges of a graph that is shown are between nodes that are shown, though the
\* scan may have been deleted between the two statements.
\* (FilesRepository.list_scan_dependency_graph)
GraphIsClosed ==
    viewer.at = "shown" => viewer.edges \subseteq viewer.nodes \X viewer.nodes
=============================================================================
