----------------------------- MODULE FileHistory -----------------------------
(***************************************************************************)
(* What the history layer reads out of the commits of a repository about   *)
(* one file: how often and by whom it was modified, how many of the        *)
(* modifications were bug fixes, and which files changed with it.          *)
(*                                                                         *)
(* A history is a sequence of commits, the newest first, and a set of      *)
(* commits is the set of their places in it.  A commit has the files it    *)
(* changed and those it renamed, an author, a subject, which is a "fix",   *)
(* "other" or "none", the lines it changed in each file, and it is recent  *)
(* or not.  The commits are what git log and git diff-tree report.         *)
(***************************************************************************)
EXTENDS Integers, Sequences, FiniteSetsExt, Functions

CONSTANTS MaxCommits,       \* how many modifications are searched for co-changes
          MaxFiles          \* a commit of more files is a bulk commit

GitCommit ==
    [files : SUBSET Seq(STRING), renames : SUBSET (Seq(STRING) \X Seq(STRING)),
     subject : {"fix", "other", "none"}, author : STRING, lines : Nat, recent : BOOLEAN]

\* git log --follow: back in time, by the name the file had then.
NameBefore(commit, name) ==
    IF \E r \in commit.renames : r[2] = name
    THEN (CHOOSE r \in commit.renames : r[2] = name)[1] ELSE name

\* The name of the file after each commit.
NamesBack(history, f) ==
    LET name[n \in 1..Len(history)] ==
          IF n = 1 THEN f
          ELSE IF name[n - 1] \in history[n - 1].files THEN NameBefore(history[n - 1], name[n - 1])
          ELSE name[n - 1] IN
    name

CommitsOf(history, f) ==
    LET name == NamesBack(history, f) IN {n \in 1..Len(history) : name[n] \in history[n].files}

\* Without the last, which created the file.
AllButLast(commits) == {n \in commits : \E m \in commits : n < m}

UpdateCount(history, f) == Cardinality(CommitsOf(history, f))

RecentUpdateCount(history, f) == Cardinality({n \in CommitsOf(history, f) : history[n].recent})

HistoricalUpdateCount(history, f) ==
    LET older == UpdateCount(history, f) - RecentUpdateCount(history, f) IN
    IF older < 0 THEN 0 ELSE older

Modifications(history, f) == AllButLast(CommitsOf(history, f))

\* Subjects come one per line, and empty lines are dropped before the last.
ModificationSubjects(history, f) ==
    AllButLast({n \in CommitsOf(history, f) : history[n].subject # "none"})

\* Variant: the commit that created the file counts as well.
FixesAndCreation(history, f) ==
    Cardinality({n \in CommitsOf(history, f) : history[n].subject = "fix"})

BugFixCount(history, f) ==
    Cardinality({n \in ModificationSubjects(history, f) : history[n].subject = "fix"})

\* Ratios are in thousandths.
Ratio(part, whole) == IF whole <= 0 THEN 0 ELSE (part * 1000) \div whole

BugFixRatio(history, f) == Ratio(BugFixCount(history, f), UpdateCount(history, f) - 1)

Churn(history, f) ==
    SumFunctionOnSet([n \in DOMAIN history |-> history[n].lines], CommitsOf(history, f))

\* The newest modifications, of which bulk commits are skipped; and of these the
\* ones that were read when git failed.
Searched(history, f, read) ==
    LET modifications == Modifications(history, f) IN
    {n \in modifications : Cardinality({m \in modifications : m < n}) < read}

\* Files by the names they had in the commit, a former name of this one included.
CoChanged(history, f, read) ==
    LET searched == {n \in Searched(history, f, read) : Cardinality(history[n].files) <= MaxFiles} IN
    (UNION {history[n].files : n \in searched}) \ {f}

\* With --reverse, git stops following at the newest renaming.
OldestCommit(history, f) ==
    LET commits == CommitsOf(history, f)
        renaming == {n \in commits : \E r \in history[n].renames : r[2] = f} IN
    IF renaming # {} THEN Min(renaming) ELSE Max(commits)

\* Everything reported when git answers, but for the growth of complexity, which
\* is the file's now without the one it had in OldestCommit.
HistoryMetrics(history, f, size) ==
    [contributors_count      |-> Cardinality({history[n].author : n \in CommitsOf(history, f)}),
     update_count            |-> UpdateCount(history, f),
     recent_update_count     |-> RecentUpdateCount(history, f),
     historical_update_count |-> HistoricalUpdateCount(history, f),
     recent_ratio            |-> Ratio(RecentUpdateCount(history, f), UpdateCount(history, f)),
     churn_rate              |-> Churn(history, f),
     churn_to_size_ratio     |-> Ratio(Churn(history, f), IF size < 1 THEN 1 ELSE size),
     bug_fix_commit_count    |-> BugFixCount(history, f),
     bug_fix_ratio           |-> BugFixRatio(history, f),
     co_change_file_count    |-> Cardinality(CoChanged(history, f, MaxCommits))]
=============================================================================
