------------------------ MODULE MCStandingAuthority ------------------------
(***************************************************************************)
(* A few standing operations under one authority.                           *)
(***************************************************************************)
EXTENDS StandingAuthority, TLC

MintSymmetry == Permutations(Mints)
=============================================================================
