-------------------------- MODULE MCProverNetwork --------------------------
(* ProverNetwork on small instances. *)
EXTENDS ProverNetwork

(* Calls are interchangeable, and so are request ids and proof URLs.       *)
Symmetry ==
  Permutations(Call) \cup Permutations(RequestId) \cup Permutations(ProofUrl)

============================================================================
