-------------------------- MODULE MCProverPolling --------------------------
(* ProverPolling on small instances. *)
EXTENDS ProverPolling

CONSTANTS v1, n1, m1, a1, a2, p1

(* Bodies that differ in their deadline only. *)
MCBodies ==
  {[vk_hash |-> v1, version |-> n1, mode |-> m1, deadline |-> d] : d \in {1, 2}}

(* One prover has an address of its own; the others share one. *)
MCAddrOf == [p \in Prover |-> IF p = p1 THEN a1 ELSE a2]

============================================================================
