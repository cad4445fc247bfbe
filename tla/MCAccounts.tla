----------------------------- MODULE MCAccounts -----------------------------
(* Instance of Accounts for TLC.                                           *)
EXTENDS Accounts, TLC

CONSTANTS l1, l2, own, root, n1, n2

MadeUp == (l1 :> n1) @@ (l2 :> n2)

\* deactivate; give the address somebody uses at GitHub
Asked == {[active |-> FALSE], [email |-> own]}

\* the two logins, with the addresses made up for them
Swap == (l1 :> l2) @@ (l2 :> l1) @@ (n1 :> n2) @@ (n2 :> n1)
Symmetry == Permutations(Users) \cup Permutations(GitHubIds) \cup Permutations(Visits) \cup {Swap}
=============================================================================
