---------------------------- MODULE ProverPolling ----------------------------
(***************************************************************************)
(* Provers, which find their work by get_filtered_proof_requests: each     *)
(* asks, again and again, for the oldest requests that are Assigned to its *)
(* address, works through the page it got and concludes each request by    *)
(* fulfill_proof or fail_fulfillment.                                      *)
(* The service remembers nothing of a page it has sent, so whatever a      *)
(* prover or the network loses has to come back with a later page.         *)
(*                                                                         *)
(* The provers are no part of src/: they are modelled from the diagram and *)
(* from the calls the service takes.  The poll the diagram draws (line 34) *)
(* names a status and a fulfiller.  The interface also takes a             *)
(* minimum_deadline, by which a prover can keep requests off its page that *)
(* are past their deadline and "should be ignored" (types.proto:359).      *)
(* PollDeadline says which of the two polls is made.                       *)
(***************************************************************************)
EXTENDS ProofQuery

CONSTANTS
  Prover,
  AddrOf,         \* the address a prover signs with
  PollLimit,      \* how many requests it asks for
  PollDeadline,   \* whether it asks for deadlines still to come only
  MaxFaults       \* bound on crashes and lost calls

ASSUME ProverAssumption ==
  /\ AddrOf \in [Prover -> Addr]
  /\ PollLimit \in Nat \ {0}
  /\ PollDeadline \in BOOLEAN
  /\ MaxFaults \in Nat

VARIABLES
  work,     \* the requests of its page a prover has not dealt with
  faults,   \* how often a prover or a call was lost
  retried   \* requests whose conclusion was carried out and its answer lost

proverVars == <<work, faults, retried>>
pollingVars == <<queryVars, proverVars>>

PollingTypeOK ==
  /\ QueryTypeOK
  /\ work \in [Prover -> SUBSET RequestId]
  /\ faults \in 0 .. MaxFaults
  /\ retried \in SUBSET RequestId

PollingInit ==
  /\ QueryInit
  /\ work = [p \in Prover |-> {}]
  /\ faults = 0
  /\ retried = {}

PollQuery(p) ==
  [NoQuery EXCEPT !.fulfillment_status = "Assigned", !.fulfiller = AddrOf[p],
                  !.minimum_deadline = IF PollDeadline THEN clock ELSE Nil,
                  !.limit = PollLimit]

Expired(i) == requests[i].deadline <= clock

(* A page, once the last one is dealt with. *)
Poll(p) ==
  /\ work[p] = {}
  /\ work' = [work EXCEPT ![p] = Page(PollQuery(p))]
  /\ UNCHANGED <<queryVars, faults, retried>>

Finish(p, i) == work' = [work EXCEPT ![p] = @ \ {i}]

Concludes(p, i) == FulfillProof(i, AddrOf[p]) \/ \E e \in Error : FailFulfillment(i, e)

(* The request is proved, or it is found that it cannot be. *)
Conclude(p, i) ==
  /\ i \in work[p]
  /\ Concludes(p, i)
  /\ Finish(p, i)
  /\ UNCHANGED <<faults, retried>>

(* Its deadline has passed meanwhile: not worth a proof. *)
Skip(p, i) ==
  /\ i \in work[p]
  /\ Expired(i)
  /\ Finish(p, i)
  /\ UNCHANGED <<queryVars, faults, retried>>

Fault ==
  /\ faults < MaxFaults
  /\ faults' = faults + 1

(* The call does not arrive: the prover lets go of the request. *)
LoseCall(p, i) ==
  /\ Fault
  /\ i \in work[p]
  /\ Finish(p, i)
  /\ UNCHANGED <<queryVars, retried>>

(* The answer does not arrive: the prover will call again. *)
LoseAnswer(p, i) ==
  /\ Fault
  /\ i \in work[p]
  /\ Concludes(p, i)
  /\ retried' = retried \cup {i}
  /\ UNCHANGED work

(* The prover restarts, and has forgotten its page. *)
Crash(p) ==
  /\ Fault
  /\ work' = [work EXCEPT ![p] = {}]
  /\ UNCHANGED <<queryVars, retried>>

Work(p) == \E i \in RequestId : Conclude(p, i) \/ Skip(p, i)
Lose(p) == Crash(p) \/ \E i \in RequestId : LoseCall(p, i) \/ LoseAnswer(p, i)

PollingNext ==
  \/ (Requesting \/ Tick) /\ UNCHANGED proverVars
  \/ \E p \in Prover : Poll(p) \/ Work(p) \/ Lose(p)

PollingSpec == PollingInit /\ [][PollingNext]_pollingVars

(* A prover polls for ever and does not sit on its page. Nothing is        *)
(* assumed of the clients, the clock or the order of its work.             *)
FairPollingSpec ==
  PollingSpec /\ \A p \in Prover : WF_pollingVars(Poll(p)) /\ WF_pollingVars(Work(p))

---------------------------------------------------------------------------
(* Safety *)

Rival(p, r) == r # p /\ AddrOf[r] = AddrOf[p]

(* What a prover holds is as old as its page, but still Assigned: no other *)
(* prover concludes it meanwhile, because request_proof names one address  *)
(* as fulfiller and the filter on it lets no other prover see the request. *)
(* The exceptions are an answer that was lost and a second prover of the   *)
(* same address.  (The service itself takes fulfil and fail from anybody;  *)
(* all who call here are provers at work on their pages.)                  *)
HeldIsAssigned ==
  \A p \in Prover : \A i \in work[p] :
    \/ requests[i].fulfillment_status = "Assigned"
    \/ i \in retried
    \/ \E r \in Prover : Rival(p, r)

Pending(i) ==
  /\ requests[i] # Nil
  /\ requests[i].fulfillment_status = "Assigned"
  /\ ~Expired(i)

(* What a prover asks for. *)
Sought(p, i) ==
  /\ requests[i] # Nil
  /\ requests[i].fulfillment_status = "Assigned"
  /\ requests[i].requester = AddrOf[p]
  /\ PollDeadline => ~Expired(i)

(* A prover that asks gets the oldest requests of those it asks for and    *)
(* nothing else: one of them is left out only if the page is full of       *)
(* requests at least as old. Requests that are concluded, are for other    *)
(* provers or, if deadlines are asked for, have expired take no room.      *)
PollServesOldest ==
  \A p \in Prover :
    LET page == Page(PollQuery(p)) IN
    /\ \A i \in page : Sought(p, i)
    /\ \A j \in RequestId \ page : Sought(p, j) =>
         /\ Cardinality(page) = PollLimit
         /\ \A i \in page : requests[i].created_at <= requests[j].created_at

(* The requests a prover may be served before i: those it asks for that    *)
(* are not younger, and those whose calls read the clock no later.         *)
InFront(p, i) ==
  {j \in RequestId \ {i} :
     Sought(p, j) /\ requests[j].created_at <= requests[i].created_at}
  \cup {w.id : w \in {x \in waiting :
                        /\ x.requester = AddrOf[p]
                        /\ x.created_at <= requests[i].created_at}}

(* Once its second is over, nobody gets in front of a request that waits   *)
(* for its prover: not one opened later, nor one that was concluded        *)
(* before, although an insert may shuffle the map and a call inserts       *)
(* its request long after it read the clock. With PollServesOldest this is *)
(* why a request comes to the top of its prover's page.                    *)
NoneCutsIn ==
  [][\A p \in Prover, i \in RequestId :
       Sought(p, i) /\ Sought(p, i)' /\ requests[i].created_at < clock
         => InFront(p, i)' \subseteq InFront(p, i)]_pollingVars

---------------------------------------------------------------------------
(* Liveness *)

(* A request opened with a prover's address is fulfilled or failed, unless *)
(* its deadline passes before: requests that are older, that have expired  *)
(* or that were lost on the way never keep it off the provers' pages, if   *)
(* they ask for deadlines to come or for as many requests as there are.    *)
AssignedIsConcluded ==
  \A i \in RequestId :
    (Pending(i) /\ \E p \in Prover : AddrOf[p] = requests[i].requester)
      ~> ~Pending(i)

============================================================================
