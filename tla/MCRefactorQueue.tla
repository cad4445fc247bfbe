--------------------------- MODULE MCRefactorQueue ---------------------------
(* Instances of RefactorQueue for TLC.                                     *)
EXTENDS RefactorQueue, TLC

CONSTANTS i1, i2, i3, i4, f1, f2, f3
\* the first file may be added again after its item is removed
OneFileTwice == (i1 :> f1) @@ (i2 :> f2) @@ (i3 :> f3) @@ (i4 :> f1)
\* a file of its own for each item
OwnFile == [i \in Items |-> i]

\* With one file twice the items of the other files can be exchanged, and
\* the two items of that file; with files of their own, all can be.
OneFileTwiceSymmetry == Permutations({i1, i4})
OwnFileSymmetry      == Permutations(Items) \cup Permutations(Clients)
=============================================================================
