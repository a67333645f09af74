----------------------------- MODULE MCAccounts -----------------------------
(***************************************************************************)
(* Small instances of Accounts.  Clients write their address in lower case. *)
(***************************************************************************)
EXTENDS Accounts, TLC

MCLower == [i \in Identifiers |-> i]

MCSymmetry ==
  Permutations(Workers) \cup Permutations(Challenges) \cup Permutations(Users)
    \cup Permutations(Passwords)
=============================================================================
