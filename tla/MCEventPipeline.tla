-------------------------- MODULE MCEventPipeline --------------------------
(***************************************************************************)
(* A few deliveries and the messages made from them.                        *)
(***************************************************************************)
EXTENDS EventPipeline, TLC

CONSTANTS d1, d2, d3, k1, k2, m1, m2, m3

\* d1 and d2 share a dedupe key, d3 has one of its own.
MCKeyOf == [d \in Delivery |-> IF d = d3 THEN k2 ELSE k1]
MCRefs == [d \in Delivery |-> IF d = d2 THEN 2 ELSE 1]

\* One message of each delivery.
MCDistinct == [m \in Message |-> CASE m = m1 -> d1 [] m = m2 -> d2 [] m = m3 -> d3]

\* m1 and m2 are copies of d1, m3 is one of d3, under a key of its own.
MCCopies == [m \in Message |-> IF m = m3 THEN d3 ELSE d1]

OpSymmetry == Permutations(Op)
=============================================================================
