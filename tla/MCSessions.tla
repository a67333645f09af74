----------------------------- MODULE MCSessions -----------------------------
(***************************************************************************)
(* Small instances of Sessions.                                             *)
(***************************************************************************)
EXTENDS Sessions, TLC

MCSymmetry ==
  Permutations(Workers) \cup Permutations(Tokens) \cup Permutations(Users) \cup Permutations(Orgs)
=============================================================================
