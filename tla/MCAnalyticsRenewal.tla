------------------------- MODULE MCAnalyticsRenewal -------------------------
(* The predecessor and three children, or two and an import.                *)
EXTENDS AnalyticsRenewal
=============================================================================
