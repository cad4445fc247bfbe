--------------------------- MODULE MCScanLifecycle ---------------------------
(* Instances of ScanLifecycle for TLC.                                     *)
EXTENDS ScanLifecycle, TLC

\* every scan of one project
OneProject == [s \in Scans |-> CHOOSE p \in Projects : TRUE]
\* one owner for every project
OneOwner   == [p \in Projects |-> CHOOSE u \in Users : TRUE]

ScanSymmetry == Permutations(Scans)
Symmetry     == Permutations(Scans) \cup Permutations(Workers)
=============================================================================
