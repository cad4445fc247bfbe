---------------------------- MODULE MCScanResults ----------------------------
(***************************************************************************)
(* A package of three files that is developed, import by import and      *)
(* commit by commit; and scans of a few such packages.                     *)
(***************************************************************************)
EXTENDS ScanResults, TLC

CONSTANTS MaxChanges,   \* bound on the changes to the repository
          Guards        \* the conditions an import may be under

Package == <<"src", "pkg", "__init__">>
Module  == <<"src", "pkg", "a">>
Nested  == <<"src", "pkg", "sub", "c">>     \* sub has no __init__
Readme  == <<"README">>
Former  == <<"src", "pkg", "old">>          \* what the module was called once

PackageFiles == <<Package, Module, Nested>>

\* import pkg.sub.c; import pkg.a, os
\* from pkg import x; from pkg import a; from pkg import x, a; from pkg.sub import c
\* from pkg.sub import x, c; from . import *; from .a import x; from .. import a
Statements == {
    [kind |-> "import", level |-> 0, module |-> <<>>, names |-> << <<"pkg", "sub", "c">> >>],
    [kind |-> "import", level |-> 0, module |-> <<>>, names |-> << <<"pkg", "a">>, <<"os">> >>],
    [kind |-> "from", level |-> 0, module |-> <<"pkg">>, names |-> <<"x">>],
    [kind |-> "from", level |-> 0, module |-> <<"pkg">>, names |-> <<"a">>],
    [kind |-> "from", level |-> 0, module |-> <<"pkg">>, names |-> <<"x", "a">>],
    [kind |-> "from", level |-> 0, module |-> <<"pkg", "sub">>, names |-> <<"c">>],
    [kind |-> "from", level |-> 0, module |-> <<"pkg", "sub">>, names |-> <<"x", "c">>],
    [kind |-> "from", level |-> 1, module |-> <<>>, names |-> <<"*">>],
    [kind |-> "from", level |-> 1, module |-> <<"a">>, names |-> <<"x">>],
    [kind |-> "from", level |-> 2, module |-> <<>>, names |-> <<"a">>]}

-----------------------------------------------------------------------------
Changes(r) == FoldSet(LAMBDA f, n : n + Cardinality(r.imports[f]), 0, Paths)
              + Cardinality({i \in DOMAIN r.history : r.history[i].recent /\ r.history[i].renames = {}})

Change(files, subject) ==
    [files |-> files, renames |-> {}, subject |-> subject, author |-> "bob", lines |-> 2, recent |-> TRUE]

Creation(files, subject) ==
    [files |-> files, renames |-> {}, subject |-> subject, author |-> "ann", lines |-> 5, recent |-> FALSE]

Renaming(subject) == [Change({Former, Module}, subject) EXCEPT !.renames = {<<Former, Module>>}]

Created(subject) ==
    [imports |-> [f \in Paths |-> {}], history |-> <<Creation(Paths, subject)>>]

Renamed(subject) ==
    [imports |-> [f \in Paths |-> {}],
     history |-> <<Renaming("other"), Creation({Package, Former, Nested}, subject)>>]

Under(guard, kind, level, module, name) ==
    [kind |-> kind, level |-> level, module |-> module, names |-> <<name>>, guard |-> guard]

\* The module and the nested file import each other; the module imports the
\* package, which imports it for its types only.  The package's last modification
\* was with the module, the module's own was with the nested file.
Tangled ==
    [Created("other") EXCEPT
        !.imports = (Package :> {Under("if TYPE_CHECKING", "from", 0, <<"pkg">>, "a")})
                 @@ (Module  :> {Under("none", "from", 0, <<"pkg", "sub">>, "c"),
                                 Under("none", "from", 0, <<"pkg">>, "x")})
                 @@ (Nested  :> {Under("none", "from", 2, <<>>, "a")}),
        !.history = <<Change({Module, Nested}, "fix"), Change({Package, Module}, "none")>> \o @]

\* A bulk commit hides what changed together before.
Bulk ==
    [Created("fix") EXCEPT
        !.imports[Module] = {Under("none", "from", 0, <<"pkg">>, "x")},
        !.history = <<Change(Paths, "other"), Change({Nested, Package}, "fix")>> \o @]

\* A file that changed with one that is not analysed, with another that was
\* called otherwise then, and with a third.
Plain ==
    [Renamed("none") EXCEPT
        !.history = <<Change({Nested, Readme}, "fix")>> \o <<@[1]>>
                 \o <<Change({Former, Nested}, "fix"), Change({Package, Nested}, "other")>> \o <<@[2]>>]

Scanned == {Tangled, Bulk, Plain}

MCInit == repo \in Scanned \cup UNION {{Created(subject), Renamed(subject)} : subject \in {"fix", "other", "none"}} /\ Init

Import(f, stmt, guard) ==
    /\ InPackage(f, stmt)
    /\ repo' = [repo EXCEPT !.imports[f] = @ \cup {stmt @@ [guard |-> guard]}]

Commit(files, subject) == repo' = [repo EXCEPT !.history = <<Change(files, subject)>> \o @]

Develop ==
    /\ repo \notin Scanned /\ Changes(repo) < MaxChanges
    /\ \/ \E f \in Paths, stmt \in Statements, guard \in Guards : Import(f, stmt, guard)
       \/ \E files \in (SUBSET (Paths \cup {Readme})) \ {{}}, subject \in {"fix", "other", "none"} :
            Commit(files, subject)
    /\ UNCHANGED <<stage, waiting, vectors, scan, visual, rows, faults>>

MCNext == Develop \/ (repo \in Scanned /\ Next)

MCSpec == MCInit /\ [][MCNext]_vars

-----------------------------------------------------------------------------
\* "Type-only/design cycles remain visible, but receive less urgency than
\* executable cycles" (decision_analysis_layer.py): a file in a cycle of imports
\* that are executed is in a runtime cycle.
ExecutableCyclesAreRuntime ==
    LET executed == [node |-> Paths,
                     edge |-> Edges(Files, [f \in Paths |-> {stmt \in repo.imports[f] : Executed(stmt)}])] IN
    \A f \in Paths : f \in Descendants(executed, f) =>
        ArchitectureMetrics(Files, repo.imports, f).runtime_cycle > 0
=============================================================================
