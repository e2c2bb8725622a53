--------------------------- MODULE MCProofQuery ---------------------------
(* ProofQuery on small instances. *)
EXTENDS ProofQuery

CONSTANTS v1, v2, n1, m1, m2, a1

(* Two bodies that differ in every field a filter can tell apart, one of   *)
(* them without a version.                                                 *)
MCBodies ==
  {[vk_hash |-> v1, version |-> Empty, mode |-> m1, deadline |-> 1],
   [vk_hash |-> v2, version |-> n1, mode |-> m2, deadline |-> 2]}

(* Each kind of filter field alone, with no value, an empty one and one    *)
(* that some requests have; and pages of one and of two requests.          *)
MCFilters ==
  {NoQuery,
   [NoQuery EXCEPT !.vk_hash = v1],
   [NoQuery EXCEPT !.version = n1, !.requester = Empty],
   [NoQuery EXCEPT !.version = Empty, !.mode = m1],
   [NoQuery EXCEPT !.fulfiller = Empty],
   [NoQuery EXCEPT !.fulfiller = a1, !.fulfillment_status = "Assigned"],
   [NoQuery EXCEPT !.minimum_deadline = 1],
   [NoQuery EXCEPT !.from = 1, !.to = 0]}

MCQueries ==
  {[f EXCEPT !.page = p, !.limit = l] :
     f \in MCFilters, p \in {Nil, 1}, l \in {Nil, 0, 1, 2}}

Symmetry == Permutations(RequestId)

============================================================================
