----------------------------- MODULE ScanResults -----------------------------
(***************************************************************************)
(* The pipeline of one scan, from the files of the repository to the rows  *)
(* the dashboards read: a pool of threads analyses the files one by one,   *)
(* two layers look at all files together, the decision layer scores them,  *)
(* and the results are stored in one transaction.  A layer may fail for a  *)
(* file, a stage or the database may fail, and the scan may be deleted,    *)
(* with its project or its user, at any moment.                            *)
(*                                                                         *)
(* The repository does not change while it is scanned, so a vector says    *)
(* which layer it is of, for which file and whether the layer succeeded,   *)
(* and what it contains is derived from the repository.                    *)
(***************************************************************************)
EXTENDS PythonImports, FileHistory

CONSTANTS Files,            \* the files of the repository, in the order found
          NoResults,        \* no analysis results are stored
          MaxFaults         \* bound on the failures

VARIABLES repo,             \* [imports, history, ...]: the repository
          stage,            \* what the pipeline does next
          waiting,          \* the files the pool has not finished
          vectors,          \* the vectors so far, in the order they were merged
          scan,             \* the row of the scan is there
          visual,           \* scan_visualization_records of the scan
          rows,             \* files, dependency_edges, ... of the scan
          faults            \* how many failures there were
vars == <<repo, stage, waiting, vectors, scan, visual, rows, faults>>

Paths == ToSet(Files)

ASSUME ScanResultsAssumption ==
    /\ Files \in Seq(Paths) /\ Paths \subseteq Seq(STRING) \ {<<>>}
    /\ NoFile \notin Paths
    /\ MaxCommits \in Nat

\* Any imports, and any history.
Repositories == [imports : [Paths -> SUBSET ImportStatement], history : Seq(GitCommit)]

Modules == ModuleFiles(Files)

Vector(layer, f, ok) == [layer |-> layer, file |-> f, ok |-> ok]

\* How far a failing git let the history of a file be read, if not all of it.
HistoryVector(f, read) ==
    [layer |-> "history", file |-> f, ok |-> read = MaxCommits, read |-> read]

\* A vector per file, in the order of the files.
VectorPerFile(layer, ok) == [i \in DOMAIN Files |-> Vector(layer, Files[i], ok)]

Fault(happens) == /\ happens => faults < MaxFaults
                  /\ faults' = faults + (IF happens THEN 1 ELSE 0)

-----------------------------------------------------------------------------
(* Storing.  Every row refers to the row of the scan.                      *)

\* Variant: the rows outlive the scan.
RecordUnchecked(more, dbFails) ==
    visual' = IF dbFails THEN visual ELSE visual \cup ToSet(more)

\* The vectors of a stage, unless the database refuses.
Record(more, dbFails) ==
    visual' = IF dbFails \/ ~ scan THEN visual ELSE visual \cup ToSet(more)

\* Where the last vector of a layer of a file is.
LastVector(result, f, layer) ==
    LET own == {i \in DOMAIN result : result[i].file = f /\ result[i].layer = layer} IN
    CHOOSE i \in own : \A j \in own : j <= i

\* The layers of a file, of which the last vector of a layer is kept.
Payload(result, f) ==
    [layer \in {v.layer : v \in {w \in ToSet(result) : w.file = f}} |->
        result[LastVector(result, f, layer)].ok]

\* The graph is in the metadata of the architecture layer, if it succeeded.
HasGraph(result) == \E i \in DOMAIN result : result[i].layer = "architecture" /\ result[i].ok

StoredDependencies(result) ==
    IF HasGraph(result) THEN DependencyGraph(Files, repo.imports).edge ELSE {}

\* Variant: cycles of imports that are executed.
StoredRuntimeGroups(result) ==
    IF HasGraph(result) THEN Cycles(RuntimeGraph(Files, repo.imports)) ELSE {}

\* The cycles in the metadata.
CyclesOf(graph) ==
    {[nodes |-> c, edges |-> {e \in graph.edge : {e[1], e[2]} \subseteq c}] :
        c \in Cycles(graph)}

CircularDependencies == CyclesOf(DependencyGraph(Files, repo.imports))

StoredGroups(result) ==
    IF HasGraph(result) THEN {c.nodes : c \in CircularDependencies} ELSE {}

\* Files that changed together, as each history vector reports them, one whose
\* metrics failed half-way included.
Reported(result) ==
    UNION {{<<v.file, g>> : g \in CoChanged(repo.history, v.file, v.read) \cap Paths}
             : v \in {w \in ToSet(result) : w.layer = "history"}}

IdOf(f, ids) == CHOOSE i \in DOMAIN ids : ids[i] = f

\* Variant: a pair is stored when the file with the smaller id reports it.
StoredSmallerFirst(result, ids) ==
    {p \in Reported(result) : IdOf(p[1], ids) < IdOf(p[2], ids)}

\* Once per pair, the file with the smaller id first.
StoredCoChanges(result, ids) ==
    {IF IdOf(p[1], ids) < IdOf(p[2], ids) THEN p ELSE <<p[2], p[1]>> : p \in Reported(result)}

\* The rows of all files and of their relations, in one transaction.
Results(result, ids) ==
    [files        |-> [f \in Paths |-> Payload(result, f)],
     dependencies |-> StoredDependencies(result),
     groups       |-> StoredGroups(result),
     co_changes   |-> StoredCoChanges(result, ids)]

-----------------------------------------------------------------------------
(* What is shown of the rows.                                              *)

ScanGroups == {[size |-> Cardinality(c), members |-> c] : c \in rows.groups}

FileGroups(f) == {group \in ScanGroups : f \in group.members}

\* An edge is shown with both of its files.
FileDependencies(f) ==
    {[file |-> e[2], direction |-> "outgoing"] : e \in {d \in rows.dependencies : d[1] = f}}
      \cup {[file |-> e[1], direction |-> "incoming"] : e \in {d \in rows.dependencies : d[1] # f /\ d[2] = f}}

\* The other file of every pair the file is in, whichever comes first.
FileCoChanges(f) ==
    {IF p[1] = f THEN p[2] ELSE p[1] : p \in {q \in rows.co_changes : f \in {q[1], q[2]}}}

FileDetails(f) ==
    [vectors               |-> rows.files[f],
     dependencies          |-> FileDependencies(f),
     co_changed_files      |-> FileCoChanges(f),
     circular_dependencies |-> FileGroups(f)]

-----------------------------------------------------------------------------
(* The developers' view, of the records alone.                             *)

LayerOrder == {"static", "history", "duplication", "architecture", "decision"}

\* Of a file, or of the codebase.
LayersShown(f) == {layer \in LayerOrder : \E v \in visual : v.file = f /\ v.layer = layer}

\* Every vector of the architecture layer has all of them; each is shown once.
CyclesShown ==
    IF \E v \in visual : v.layer = "architecture" /\ v.ok THEN CircularDependencies ELSE {}

FilesShown == [f \in {v.file : v \in visual} \ {NoFile} |-> LayersShown(f)]

\* What the list of runs says of the scan.
Run == [vector_count |-> Cardinality(visual),
        file_count   |-> Cardinality({v.file : v \in visual} \ {NoFile})]

-----------------------------------------------------------------------------
(* The pipeline.                                                           *)

Init ==
    /\ repo \in Repositories
    /\ stage = "idle"
    /\ waiting = Paths
    /\ vectors = <<>>
    /\ scan = TRUE
    /\ visual = {}
    /\ rows = NoResults
    /\ faults = 0

\* What an earlier execution may have left is cleared, in two transactions each
\* of which the database may refuse.
StartScan(visualFails, rowsFails) ==
    /\ stage = "idle"
    /\ Fault(visualFails \/ rowsFails)
    /\ visual' = IF visualFails THEN visual ELSE {}
    /\ rows' = IF rowsFails THEN rows ELSE NoResults
    /\ stage' = "files"
    /\ UNCHANGED <<repo, waiting, vectors, scan>>

\* A thread of the pool is done with a file.  Each of the two layers hands in a
\* vector, with errors and without the results that failed; whatever else fails
\* loses the file.
FileDone(f, lost, static, read) ==
    /\ stage = "files" /\ f \in waiting
    /\ Fault(lost \/ ~ static \/ read < MaxCommits)
    /\ waiting' = waiting \ {f}
    /\ vectors' = IF lost THEN vectors
                  ELSE vectors \o <<Vector("static", f, static), HistoryVector(f, read)>>
    /\ UNCHANGED <<repo, stage, scan, visual, rows>>

FilesDone(dbFails) ==
    /\ stage = "files" /\ waiting = {}
    /\ Fault(dbFails)
    /\ Record(vectors, dbFails)
    /\ stage' = "duplication"
    /\ UNCHANGED <<repo, waiting, vectors, scan, rows>>

\* The layers that need all files.  What may fail for all of them is the embedding
\* service in the one, the graph in the other.
CrossFile(layer, next, ok, dbFails) ==
    /\ stage = layer
    /\ Fault(~ ok \/ dbFails)
    /\ vectors' = vectors \o VectorPerFile(layer, ok)
    /\ Record(VectorPerFile(layer, ok), dbFails)
    /\ stage' = next
    /\ UNCHANGED <<repo, waiting, scan, rows>>

\* An error of a stage itself ends the pipeline, and the scan with it.
Raise ==
    /\ stage \in {"duplication", "architecture", "decision"}
    /\ Fault(TRUE)
    /\ stage' = "failed"
    /\ UNCHANGED <<repo, waiting, vectors, scan, visual, rows>>

\* Files are scored from whatever vectors they have; each once, so that the
\* order they are scored in is as good as any.
Scored(result) == {v.file : v \in ToSet(result)}

Decide(dbFails) ==
    /\ stage = "decision"
    /\ Fault(dbFails)
    /\ LET decisions == SetToSeq({Vector("decision", f, TRUE) : f \in Scored(vectors)})
           all == Append(decisions, Vector("decision", NoFile, TRUE)) IN
       /\ vectors' = vectors \o all
       /\ Record(all, dbFails)
    /\ stage' = "store"
    /\ UNCHANGED <<repo, waiting, scan, rows>>

\* The files get their ids, at random, when they are inserted.
StoreResults(dbFails) ==
    /\ stage = "store"
    /\ Fault(dbFails)
    /\ \E ids \in SetToSeqs(Paths) :
         rows' = IF dbFails \/ ~ scan THEN rows ELSE Results(vectors, ids)
    /\ stage' = "done"
    /\ UNCHANGED <<repo, waiting, vectors, scan, visual>>

\* The scan is deleted, and the database deletes what refers to it.
DeleteScan ==
    /\ scan
    /\ scan' = FALSE
    /\ visual' = {}
    /\ rows' = NoResults
    /\ UNCHANGED <<repo, stage, waiting, vectors, faults>>

Next ==
    \/ \E visualFails, rowsFails \in BOOLEAN : StartScan(visualFails, rowsFails)
    \/ \E dbFails \in BOOLEAN :
        \/ FilesDone(dbFails) \/ Decide(dbFails) \/ StoreResults(dbFails)
        \/ \E ok \in BOOLEAN :
            \/ CrossFile("duplication", "architecture", ok, dbFails)
            \/ CrossFile("architecture", "decision", ok, dbFails)
    \/ \E f \in Paths : \/ FileDone(f, TRUE, TRUE, MaxCommits)
                        \/ \E static \in BOOLEAN, read \in 0..MaxCommits : FileDone(f, FALSE, static, read)
    \/ Raise
    \/ DeleteScan

\* Of any repository.
Spec == Init /\ [][Next]_vars

-----------------------------------------------------------------------------
(* What the layers derive from the repository.                             *)

\* An import is attributed to a file Python loads for it, and to one of those it
\* names if there is any: never to another package, nor to a parent only, unless
\* what it names first is elsewhere.  (Not so for relative imports of a package's
\* __init__, see Base.)
ImportsAreReal ==
    \A f \in Paths : \A stmt \in repo.imports[f] :
        InPackage(f, stmt) /\ (Last(f) # "__init__" \/ stmt.level = 0) =>
            LET referred == Referred(Modules, f, stmt)
                named    == NamedFiles(Modules, f, stmt) IN
            /\ referred \subseteq LoadedFiles(Modules, f, stmt)
            /\ named = {} \/ referred \cap named # {} \/ FirstIsElsewhere(Modules, f, stmt)

\* The commit that created a file is never counted as a bug fix of it, whatever
\* its subject and the file's name then, though subjects, commits and recent
\* commits are read in separate lists: no ratio exceeds the whole.
BugFixesAreModifications ==
    \A f \in Paths : LET metrics == HistoryMetrics(repo.history, f, 1) IN
        /\ metrics.bug_fix_commit_count <=
             Cardinality({n \in Modifications(repo.history, f) : repo.history[n].subject = "fix"})
        /\ metrics.bug_fix_ratio <= 1000 /\ metrics.recent_ratio <= 1000
        /\ metrics.recent_update_count + metrics.historical_update_count = metrics.update_count
        /\ metrics.contributors_count <= metrics.update_count

-----------------------------------------------------------------------------
HistoryRead(f) == {v.read : v \in {w \in ToSet(vectors) : w.layer = "history" /\ w.file = f}}
ReportedBy(f) == UNION {CoChanged(repo.history, f, n) : n \in HistoryRead(f)}
FilesWith(layer, ok) == {v.file : v \in {w \in ToSet(vectors) : w.layer = layer /\ w.ok = ok}}

\* What is stored is all of the results or nothing, and does not depend on the
\* order the pool finishes the files in, nor on the ids they get: every file
\* with its score, also those an analysis failed for; every pair of files either
\* history reports, once; and the dependencies, unless there is no graph.
StoredResultsAreComplete ==
    rows # NoResults => LET reported == [f \in Paths |-> ReportedBy(f)] IN
        /\ DOMAIN rows.files = Paths
        /\ \A f \in Paths : {"duplication", "architecture", "decision"} \subseteq DOMAIN rows.files[f]
        /\ \A f, g \in Paths : g \in FileCoChanges(f) <=> g \in reported[f] \/ f \in reported[g]
        /\ \A p, q \in rows.co_changes : {p[1], p[2]} = {q[1], q[2]} => p = q
        /\ rows.dependencies = IF FilesWith("architecture", TRUE) = {} THEN {}
                               ELSE DependencyGraph(Files, repo.imports).edge

\* Nothing of a deleted scan stays, though its pipeline runs on and stores.
DeletedScanLeavesNothing == ~ scan => visual = {} /\ rows = NoResults

\* The developers' view, stored apart, shows no layer that is not among the
\* results, as many as the list of runs says, and all of them unless the database
\* failed.
LayersAgree ==
    LET shown == FilesShown IN
    /\ Run = [vector_count |-> Cardinality(LayersShown(NoFile))
                                 + SumFunction([f \in DOMAIN shown |-> Cardinality(shown[f])]),
              file_count   |-> Cardinality(DOMAIN shown)]
    /\ \A f \in DOMAIN shown : shown[f] \subseteq DOMAIN rows.files[f]
    /\ faults = 0 => \A f \in Paths : shown[f] = DOMAIN rows.files[f]

SameGroups(cycles) ==
    /\ cycles # {} => {c.nodes : c \in cycles} = rows.groups
    /\ UNION {c.edges : c \in cycles} \subseteq rows.dependencies

Agree(shown, metrics) ==
    LET listed(direction) == {d \in shown.dependencies : d.direction = direction} IN
    /\ IF metrics.cycle = 0 THEN shown.circular_dependencies = {}
       ELSE \E group \in ScanGroups :
              shown.circular_dependencies = {group} /\ group.size = metrics.cycle
    /\ metrics.fan_in <= Cardinality(listed("incoming"))
    /\ metrics.fan_out <= Cardinality(listed("outgoing"))

\* What is shown with a file agrees with its metrics, which are computed apart
\* from the rows: it is in one group of circular dependencies, of that size, or in
\* none and the metric is zero; and it has no more dependents and dependencies by
\* its metrics, which leave out imports for types only, than are listed.  The
\* developers' view shows the same layers, and the same groups, by dependencies
\* that are listed, or none.
ViewsAgree ==
    rows # NoResults =>
        /\ LayersAgree
        /\ FilesWith("architecture", TRUE) # {} =>
             LET graph   == DependencyGraph(Files, repo.imports)
                 runtime == RuntimeGraph(Files, repo.imports) IN
             /\ SameGroups(CyclesShown)
             /\ \A f \in Paths : Agree(FileDetails(f), MetricsIn(graph, runtime, f))
=============================================================================
