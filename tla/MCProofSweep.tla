--------------------------- MODULE MCProofSweep ---------------------------
(* ProofSweep on small instances. *)
EXTENDS ProofSweep

CONSTANTS v1, n1, m1

MCBodies == {[vk_hash |-> v1, version |-> n1, mode |-> m1, deadline |-> 2]}

(* All requests; those that wait for a prover, from which requests go; and *)
(* those that are fulfilled, to which they come.                           *)
MCFilters ==
  {NoQuery,
   [NoQuery EXCEPT !.fulfillment_status = "Assigned"],
   [NoQuery EXCEPT !.fulfillment_status = "Fulfilled"]}

MCQueries ==
  {[f EXCEPT !.limit = 1] : f \in MCFilters}
    \cup {[NoQuery EXCEPT !.limit = 2, !.fulfillment_status = "Assigned"]}

Symmetry == Permutations(RequestId)

===========================================================================
