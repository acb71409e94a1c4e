----------------------------- MODULE MCPlanLock -----------------------------
(***************************************************************************)
(* The plan lock contended for by a few processes.                          *)
(***************************************************************************)
EXTENDS PlanLock, TLC

ProcSymmetry == Permutations(Proc)
=============================================================================
