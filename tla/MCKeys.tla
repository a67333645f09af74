------------------------------- MODULE MCKeys -------------------------------
(***************************************************************************)
(* Model-checking instance of Keys; the cfg file gives the constants.      *)
(***************************************************************************)
EXTENDS Keys, TLC

Symmetry == Permutations(Callers) \cup Permutations(Kids)
=============================================================================
