---------------------------- MODULE ProofLedger ----------------------------
(***************************************************************************)
(* What the ProverNetwork service promises its clients about programs and  *)
(* proof requests, with no locks, uploads, cancelled calls or clock: a     *)
(* registry of programs and a ledger of requests, each operation atomic.   *)
(*                                                                         *)
(* A request takes its program from the registry as it is at the moment    *)
(* the request is opened, keeps that program and its requester for ever,   *)
(* never goes back to Assigned, is Fulfilled only together with a proof    *)
(* that can be downloaded, and never loses that proof.  The ledger follows *)
(* the code here: proto/types.proto:305,367 would have the proof of a      *)
(* request that is failed after its fulfilment withheld.                   *)
(***************************************************************************)
CONSTANTS RequestId, VkHash, Uri, Addr, Nil

VARIABLES registry, ledger

ledgerVars == <<registry, ledger>>

Outcome == {"Assigned", "Fulfilled", "Unfulfillable"}

LedgerEntry ==
  [vk_hash: VkHash, program: Uri \cup {Nil}, requester: Addr,
   outcome: Outcome, proof: {"none", "available"}]

LedgerTypeOK ==
  /\ registry \in [VkHash -> Uri \cup {Nil}]
  /\ ledger \in [RequestId -> LedgerEntry \cup {Nil}]

Init ==
  /\ registry = [v \in VkHash |-> Nil]
  /\ ledger = [i \in RequestId |-> Nil]

Register(v, u) ==
  /\ registry' = [registry EXCEPT ![v] = u]
  /\ UNCHANGED ledger

Open(i, v, a) ==
  /\ ledger[i] = Nil
  /\ ledger' = [ledger EXCEPT
                  ![i] = [vk_hash |-> v, program |-> registry[v], requester |-> a,
                          outcome |-> "Assigned", proof |-> "none"]]
  /\ UNCHANGED registry

Fulfill(i) ==
  /\ ledger[i] # Nil
  /\ ledger' = [ledger EXCEPT ![i] = [@ EXCEPT !.outcome = "Fulfilled",
                                               !.proof = "available"]]
  /\ UNCHANGED registry

(* The proof, if there is one, stays. *)
Fail(i) ==
  /\ ledger[i] # Nil
  /\ ledger' = [ledger EXCEPT ![i] = [@ EXCEPT !.outcome = "Unfulfillable"]]
  /\ UNCHANGED registry

Next ==
  \/ \E v \in VkHash, u \in Uri : Register(v, u)
  \/ \E i \in RequestId, v \in VkHash, a \in Addr : Open(i, v, a)
  \/ \E i \in RequestId : Fulfill(i) \/ Fail(i)

Spec == Init /\ [][Next]_ledgerVars

============================================================================
