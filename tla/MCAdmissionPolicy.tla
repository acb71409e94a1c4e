------------------------- MODULE MCAdmissionPolicy -------------------------
(***************************************************************************)
(* A few bundles, administrators and plans.                                 *)
(***************************************************************************)
EXTENDS AdmissionPolicy, TLC

AdmissionSymmetry == Permutations(Admin) \cup Permutations(Plan)
=============================================================================
