--------------------------- MODULE MCEvidenceKeys ---------------------------
(* Two processes and two recovery plans.                                     *)
EXTENDS EvidenceKeys
=============================================================================
