-------------------------- MODULE MCPlanLifecycle --------------------------
(***************************************************************************)
(* One plan and the commands of a few processes.                            *)
(***************************************************************************)
EXTENDS PlanLifecycle, TLC

ProcSymmetry == Permutations(Proc)

\* The safety properties say nothing once a live owner's lock file has been
\* removed; such states are not explored further.
LockIntact == ~lockStolen

\* Auto-execution is read before the boundary and the kind after it, so one
\* kind of each lane is enough for it.
AutoSampled == capability.auto => capability.kind \in {"plain", "workspace"}
=============================================================================
