-------------------------- MODULE MCAiExplanations --------------------------
(* An instance of AiExplanations for TLC.                                  *)
EXTENDS AiExplanations, TLC
ClientSymmetry == Permutations(Clients)
=============================================================================
