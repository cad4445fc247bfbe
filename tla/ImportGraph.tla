----------------------------- MODULE ImportGraph -----------------------------
(***************************************************************************)
(* Which files of a repository depend on which: the architecture layer     *)
(* resolves the imports of every file to files of the repository, once for *)
(* all of them and once for those that are executed, and looks for cycles. *)
(*                                                                         *)
(* A file is its path, a sequence of directories and a name, without the   *)
(* suffix; a module name is the sequence of its parts.  An import          *)
(* statement is a record: kind "import" with the module names it lists, or *)
(* kind "from" with its level, its module and the names it lists ("*" for  *)
(* all of them); guard tells the condition the statement is under, if that *)
(* mentions TYPE_CHECKING.                                                 *)
(***************************************************************************)
EXTENDS Integers, Sequences, SequencesExt, FiniteSetsExt, Graphs

CONSTANT NoFile         \* what a name refers to that is no module of the repository

Name == Seq(STRING)

\* As Python's grammar allows them.
ImportStatement ==
    [kind : {"import"}, level : {0}, module : {<<>>}, names : Seq(Name), guard : STRING]
      \cup [kind : {"from"}, level : Nat, module : Name, names : Seq(STRING), guard : STRING]

-----------------------------------------------------------------------------
(* Names of modules.                                                       *)

BelowSrc(path) ==
    LET src == {i \in DOMAIN path : path[i] = "src"} IN
    SubSeq(path, IF src = {} THEN 1 ELSE 1 + Min(src), Len(path))

ModuleName(path) ==
    LET parts == BelowSrc(path) IN
    IF parts # <<>> /\ Last(parts) = "__init__" THEN Front(parts) ELSE parts

\* The file of each module; of two files with the same name, the one found last.
ModuleFiles(files) ==
    LET names == [i \in DOMAIN files |-> ModuleName(files[i])] IN
    [name \in Range(names) \ {<<>>} |-> files[Max({i \in DOMAIN files : names[i] = name})]]

\* The file of the longest part of the name that is a module.
Resolve(modules, name) ==
    LET known == Prefixes(name) \cap DOMAIN modules IN
    IF known = {} THEN NoFile
    ELSE modules[CHOOSE m \in known : \A p \in known : Len(p) <= Len(m)]

-----------------------------------------------------------------------------
(* What an import statement of a file refers to.                           *)

\* The module a statement imports from.  The test for the __init__ of a package
\* comes too late, ModuleName has dropped it: a package is treated as a module.
Base(stmt, current) ==
    IF stmt.level = 0 THEN stmt.module
    ELSE LET package == IF current = <<>> THEN <<>> ELSE Front(current)
             keep    == Max({0, Len(package) - stmt.level + 1}) IN
         SubSeq(package, 1, Min({keep, Len(package)})) \o stmt.module

\* Variant: what is imported from is tried before the modules in it.
CandidatesBaseFirst(stmt, current) ==
    LET base == Base(stmt, current) IN
    [n \in 1..(2 * Len(stmt.names)) |->
        LET name == stmt.names[(n + 1) \div 2] IN
        IF name = "*" \/ (base # <<>> /\ n % 2 = 1) THEN base ELSE Append(base, name)]

\* What the listed names may be, two for each in the order they are tried: a
\* module in what is imported from, or something in that module itself.
Candidates(stmt, current) ==
    LET base == Base(stmt, current) IN
    [n \in 1..(2 * Len(stmt.names)) |->
        LET name == stmt.names[(n + 1) \div 2] IN
        IF name = "*" \/ (base # <<>> /\ n % 2 = 0) THEN base ELSE Append(base, name)]

\* All modules of an "import"; of a "from", the first candidate there is.
Referred(modules, file, stmt) ==
    IF stmt.kind = "import" THEN {Resolve(modules, name) : name \in ToSet(stmt.names)} \ {NoFile}
    ELSE LET tried == Candidates(stmt, ModuleName(file))
             found == {n \in DOMAIN tried : Resolve(modules, tried[n]) # NoFile} IN
         IF found = {} THEN {} ELSE {Resolve(modules, tried[Min(found)])}

\* Statements in the first branch of a condition that mentions TYPE_CHECKING.
TypeOnly(stmt) == stmt.guard \in {"if TYPE_CHECKING", "if not TYPE_CHECKING"}

-----------------------------------------------------------------------------
(* The graphs, and the metrics of a file in them.                          *)

EdgesAmong(modules, files, statements) ==
    UNION {{<<f, g>> : g \in (UNION {Referred(modules, f, stmt) : stmt \in statements[f]}) \ {f}}
             : f \in ToSet(files)}

Edges(files, statements) == EdgesAmong(ModuleFiles(files), files, statements)

DependencyGraph(files, imports) ==
    [node |-> ToSet(files), edge |-> Edges(files, imports)]

RuntimeGraph(files, imports) ==
    [node |-> ToSet(files),
     edge |-> Edges(files, [f \in ToSet(files) |-> {stmt \in imports[f] : ~ TypeOnly(stmt)}])]

\* In every set of files that has the ones f depends on and, with a file, those
\* that the file depends on.
Reachable(graph, f) ==
    LET closed == {s \in SUBSET graph.node : Successors(graph, f) \cup AllSuccessors(graph, s) \subseteq s} IN
    {g \in graph.node : \A s \in closed : g \in s}

\* Strongly connected components of more than one file.
Cycles(graph) ==
    LET reaches == [f \in graph.node |-> Reachable(graph, f)] IN
    {{g \in graph.node : g \in reaches[f] /\ f \in reaches[g]} : f \in graph.node} \ {{}}

CycleSize(graph, f) == Cardinality(UNION {c \in Cycles(graph) : f \in c})

\* In thousandths.
Instability(graph, f) ==
    LET all == InDegree(graph, f) + OutDegree(graph, f) IN
    IF all = 0 THEN 0 ELSE (OutDegree(graph, f) * 1000) \div all

MetricsIn(graph, runtime, f) ==
    [fan_in     |-> InDegree(runtime, f),
     fan_out    |-> OutDegree(runtime, f),
     dependents |-> Cardinality({g \in runtime.node : f \in Reachable(runtime, g)} \ {f}),
     cycle      |-> CycleSize(graph, f),
     runtime_cycle |-> CycleSize(runtime, f),
     instability   |-> Instability(runtime, f)]

ArchitectureMetrics(files, imports, f) ==
    MetricsIn(DependencyGraph(files, imports), RuntimeGraph(files, imports), f)
=============================================================================
