----------------------------- MODULE MCApiTokens -----------------------------
(***************************************************************************)
(* Model-checking instance of ApiTokens; the cfg file gives the constants. *)
(***************************************************************************)
EXTENDS ApiTokens, TLC

Symmetry == Permutations(Tokens) \cup Permutations(Users) \cup Permutations(Prefixes)
              \cup Permutations(Callers)
=============================================================================
