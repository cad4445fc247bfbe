---------------------------- MODULE PythonImports ----------------------------
(***************************************************************************)
(* Python's own rules of what an import statement refers to, which the     *)
(* import graph is compared with (the Python language reference, "The      *)
(* import system").  The modules are those of the repository.              *)
(***************************************************************************)
EXTENDS ImportGraph

PythonPackage(f) == IF Last(f) = "__init__" THEN ModuleName(f) ELSE Front(ModuleName(f))

\* No relative import leads out of the package at the top.
InPackage(f, stmt) == stmt.level <= Len(PythonPackage(f))

PythonBase(f, stmt) ==
    IF stmt.level = 0 THEN stmt.module
    ELSE SubSeq(PythonPackage(f), 1, Len(PythonPackage(f)) - stmt.level + 1) \o stmt.module

\* What a name stands for: a module, or something in the module.
StandsFor(modules, base, name) ==
    IF name # "*" /\ Append(base, name) \in DOMAIN modules THEN Append(base, name) ELSE base

Named(modules, f, stmt) ==
    IF stmt.kind = "import" THEN ToSet(stmt.names)
    ELSE {StandsFor(modules, PythonBase(f, stmt), name) : name \in ToSet(stmt.names)}

FilesNamed(modules, names)    == {modules[name] : name \in names \cap DOMAIN modules}
NamedFiles(modules, f, stmt)  == FilesNamed(modules, Named(modules, f, stmt))
LoadedFiles(modules, f, stmt) == FilesNamed(modules, UNION {Prefixes(name) : name \in Named(modules, f, stmt)})

\* What is imported first is in no file of the repository: it would be in a package
\* without __init__, or in code that is not analysed.
FirstIsElsewhere(modules, f, stmt) ==
    stmt.kind = "from" /\ StandsFor(modules, PythonBase(f, stmt), stmt.names[1]) \notin DOMAIN modules

\* Executed: under no condition, or under one that is true when the program runs.
Executed(stmt) == stmt.guard # "if TYPE_CHECKING"
=============================================================================
