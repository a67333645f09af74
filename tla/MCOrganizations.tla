--------------------------- MODULE MCOrganizations ---------------------------
(***************************************************************************)
(* Small instances of Organizations.  In one, every user id has an address  *)
(* of its own; in the other, c has b's address in capitals, as an OTP login *)
(* may leave it.                                                            *)
(***************************************************************************)
EXTENDS Organizations, TLC

CONSTANTS a, b, c, aa, bb, Big

MCAddressOf == (a :> aa) @@ (b :> bb)
MCLower == [x \in Addresses |-> x]

MCSpellings == (b :> bb) @@ (c :> Big)
MCLowerBig == [x \in Addresses |-> IF x = Big THEN bb ELSE x]

MCSymmetry == Permutations(Workers)
=============================================================================
