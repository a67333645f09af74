------------------------------ MODULE MCAccess ------------------------------
(***************************************************************************)
(* Model-checking instance of Access; the cfg file gives the constants.    *)
(***************************************************************************)
EXTENDS Access, TLC

Symmetry == Permutations(RoleKeys) \cup Permutations(Subjects)
=============================================================================
