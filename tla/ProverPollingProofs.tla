------------------------- MODULE ProverPollingProofs -------------------------
(***************************************************************************)
(* What provers hold, for any number of provers, addresses, requests and   *)
(* faults: a request that is Assigned has its requester as fulfiller, so   *)
(* only a prover of that address ever holds it.                            *)
(***************************************************************************)
EXTENDS ProverPolling, ProofQueryProofs

AssignedToRequester ==
  \A i \in Stored :
    requests[i].fulfillment_status = "Assigned" =>
      requests[i].fulfiller = requests[i].requester

HeldIsOwn ==
  \A p \in Prover : \A i \in work[p] :
    i \in Stored /\ requests[i].requester = AddrOf[p]

PollingInv ==
  QueryInv /\ PollingTypeOK /\ AssignedToRequester /\ HeldIsOwn /\ HeldIsAssigned

LEMMA PollingInvInit == PollingInit => PollingInv
<1> SUFFICES ASSUME PollingInit PROVE PollingInv
  OBVIOUS
<1>1. QueryInv
  BY QueryInvInit DEF PollingInit
<1>2. PollingTypeOK
  BY <1>1, ProverAssumption DEF PollingInit, PollingTypeOK, QueryInv
<1>3. AssignedToRequester /\ HeldIsOwn /\ HeldIsAssigned
  BY DEF PollingInit, QueryInit, AssignedToRequester, HeldIsOwn, HeldIsAssigned, Stored
<1> QED
  BY <1>1, <1>2, <1>3 DEF PollingInv

(* Every request on a prover's page is Assigned to the prover's address. *)
LEMMA PollFinds ==
  ASSUME PollingInv, NEW p \in Prover, NEW i \in Page(PollQuery(p))
  PROVE  /\ i \in Stored
         /\ requests[i].fulfillment_status = "Assigned"
         /\ requests[i].fulfiller = AddrOf[p]
<1> DEFINE q == PollQuery(p)
<1>1. q.fulfillment_status = "Assigned" /\ q.fulfiller = AddrOf[p]
  BY DEF PollQuery, NoQuery
<1>2. AddrOf[p] # Nil
  BY ProverAssumption, QueryConstants
<1>3. "Assigned" # Nil
  BY NilIsNoStatus DEF FulfillmentStatus
<1> HIDE DEF q
<1>4. i \in Stored /\ Matches(q, requests[i])
  BY DEF Page, Matching, q
<1> QED
  BY <1>1, <1>2, <1>3, <1>4 DEF Matches, Exact

(* A step that leaves the map alone, and takes nothing on but a page. *)
LEMMA MapUnchanged ==
  ASSUME PollingInv, QueryInv', UNCHANGED requests, retried' = retried,
         PollingTypeOK',
         \A p \in Prover : work'[p] \subseteq work[p] \/ work'[p] = Page(PollQuery(p))
  PROVE  PollingInv'
<1> USE DEF PollingInv
<1>1. Stored' = Stored
  BY DEF Stored
<1>2. AssignedToRequester'
  BY <1>1 DEF AssignedToRequester
<1>3. HeldIsOwn'
  BY <1>1, PollFinds DEF HeldIsOwn, AssignedToRequester
<1>4. HeldIsAssigned'
  BY PollFinds DEF HeldIsAssigned
<1> QED
  BY <1>2, <1>3, <1>4

(* A request that is fulfilled or failed is not Assigned any more. *)
LEMMA ConcludedLeaves ==
  ASSUME QueryInv, NEW i \in RequestId,
         \/ \E a \in Addr : FulfillProof(i, a)
         \/ \E e \in Error : FailFulfillment(i, e)
  PROVE  requests'[i].fulfillment_status # "Assigned"
<1>1. requests[i] \in ProofRequest
  BY DEF QueryInv, QueryTypeOK, Stored, FulfillProof, FailFulfillment
<1>2. ASSUME NEW a \in Addr, FulfillProof(i, a)
      PROVE  requests'[i].fulfillment_status # "Assigned"
  <2>1. requests'[i] = Fulfilled(requests[i], a)
    BY <1>2 DEF FulfillProof, QueryInv, QueryTypeOK
  <2> QED
    BY <1>1, <2>1 DEF Fulfilled, ProofRequest
<1>3. ASSUME NEW e \in Error, FailFulfillment(i, e)
      PROVE  requests'[i].fulfillment_status # "Assigned"
  <2>1. requests'[i] = Failed(requests[i], e)
    BY <1>3 DEF FailFulfillment, QueryInv, QueryTypeOK
  <2> QED
    BY <1>1, <2>1 DEF Failed, ProofRequest
<1> QED
  BY <1>2, <1>3

(* A conclusion by the prover that holds the request. *)
LEMMA ConcludesKeeps ==
  ASSUME PollingInv, NEW p \in Prover, NEW i \in work[p], Concludes(p, i),
         PollingTypeOK',
         \/ work' = [work EXCEPT ![p] = @ \ {i}] /\ retried' = retried
         \/ work' = work /\ retried' = retried \cup {i}
  PROVE  PollingInv'
<1> USE DEF PollingInv
<1>1. i \in RequestId /\ AddrOf[p] \in Addr
  BY ProverAssumption DEF PollingTypeOK
<1>2. /\ Concluding
      /\ \/ \E a \in Addr : FulfillProof(i, a)
         \/ \E e \in Error : FailFulfillment(i, e)
  BY <1>1 DEF Concludes, Concluding
<1>3. /\ QueryInv' /\ Stored \subseteq Stored'
      /\ \A j \in Stored : SameIdentity(requests[j], requests'[j])
  BY <1>2, QueryInvNext, EntriesStay DEF ServiceNext
<1>4. /\ \A j \in RequestId \ {i} : requests'[j] = requests[j]
      /\ i \in Stored /\ Stored' = Stored
  BY <1>1, <1>2, ConcludingWrites DEF Written, QueryInv, QueryTypeOK, Stored
<1>5. requests'[i].fulfillment_status # "Assigned"
  BY <1>1, <1>2, ConcludedLeaves
<1>6. AssignedToRequester'
  BY <1>4, <1>5 DEF AssignedToRequester, Stored
<1>7. \A r \in Prover : work'[r] \subseteq work[r] /\ (r # p => work'[r] = work[r])
  BY DEF PollingTypeOK
<1>8. HeldIsOwn'
  BY <1>3, <1>7 DEF HeldIsOwn, SameIdentity
<1>9. HeldIsAssigned'
  <2> SUFFICES ASSUME NEW r \in Prover, NEW j \in work'[r],
                      j \notin retried', ~\E s \in Prover : Rival(r, s)
               PROVE  requests'[j].fulfillment_status = "Assigned"
    BY DEF HeldIsAssigned, Rival
  <2>1. j \in work[r] /\ j \in RequestId /\ j \notin retried
    BY <1>7 DEF PollingTypeOK
  <2>2. j # i
    <3>1. CASE r = p
      BY <3>1 DEF PollingTypeOK
    <3>2. CASE r # p
      <4>1. AddrOf[r] # AddrOf[p]
        BY <3>2 DEF Rival
      <4> QED
        BY <2>1, <4>1 DEF HeldIsOwn
    <3> QED
      BY <3>1, <3>2
  <2> QED
    BY <1>4, <2>1, <2>2 DEF HeldIsAssigned
<1> QED
  BY <1>3, <1>6, <1>8, <1>9

LEMMA RequestingKeeps ==
  ASSUME PollingInv, Requesting \/ Tick, UNCHANGED proverVars
  PROVE  PollingInv'
<1> USE DEF PollingInv
<1>1. /\ QueryInv' /\ Stored \subseteq Stored'
      /\ UNCHANGED <<work, faults, retried>>
  BY QueryInvNext, EntriesStay DEF ServiceNext, proverVars
<1>2. PollingTypeOK'
  BY <1>1 DEF PollingTypeOK, QueryInv
<1>3. CASE UNCHANGED requests
  BY <1>1, <1>2, <1>3, MapUnchanged
<1>4. ASSUME NEW w \in waiting, InsertRequest(w)
      PROVE  PollingInv'
  <2>1. /\ w.id \in RequestId /\ w.id \notin Stored
        /\ requests' = [requests EXCEPT ![w.id] = NewRequest(w)]
    BY <1>4, InsertWrites DEF Written
  <2>2. \A j \in RequestId \ {w.id} : requests'[j] = requests[j]
    BY <2>1
  <2>3. requests'[w.id].fulfiller = requests'[w.id].requester
    BY <2>1 DEF NewRequest, QueryInv, QueryTypeOK
  <2>4. AssignedToRequester'
    BY <2>2, <2>3 DEF AssignedToRequester, Stored
  <2>5. \A p \in Prover : \A i \in work[p] : i \in RequestId \ {w.id}
    BY <2>1 DEF HeldIsOwn, PollingTypeOK
  <2>6. HeldIsOwn'
    BY <1>1, <2>2, <2>5 DEF HeldIsOwn
  <2>7. HeldIsAssigned'
    BY <1>1, <2>2, <2>5 DEF HeldIsAssigned, Rival
  <2> QED
    BY <1>1, <1>2, <2>4, <2>6, <2>7
<1>5. CASE Tick
  BY <1>3, <1>5 DEF Tick
<1>6. CASE Requesting
  BY <1>3, <1>4, <1>6 DEF Requesting, RequestProof, DropRequest
<1> QED
  BY <1>5, <1>6

LEMMA ProverKeeps ==
  ASSUME PollingInv, NEW p \in Prover, Poll(p) \/ Work(p) \/ Lose(p)
  PROVE  PollingInv'
<1>1. ASSUME UNCHANGED queryVars
      PROVE  QueryInv' /\ QueryTypeOK'
  BY <1>1 DEF PollingInv, queryVars, QueryInv, QueryTypeOK, WaitingFresh, Stored
<1>2. CASE Poll(p) \/ Crash(p) \/ \E i \in RequestId : Skip(p, i) \/ LoseCall(p, i)
  <2>1. /\ UNCHANGED queryVars /\ UNCHANGED retried
        /\ faults' \in 0 .. MaxFaults
    BY <1>2, ProverAssumption
    DEF Poll, Crash, Skip, LoseCall, Fault, PollingInv, PollingTypeOK
  <2>2. /\ work' \in [Prover -> SUBSET RequestId]
        /\ \A r \in Prover : work'[r] \subseteq work[r] \/ work'[r] = Page(PollQuery(r))
    <3>1. Page(PollQuery(p)) \subseteq RequestId
      BY DEF Page, Matching, Stored
    <3>2. CASE Poll(p)
      BY <3>1, <3>2 DEF Poll, PollingInv, PollingTypeOK
    <3>3. CASE Crash(p) \/ \E i \in RequestId : Skip(p, i) \/ LoseCall(p, i)
      BY <3>3 DEF Crash, Skip, LoseCall, Finish, PollingInv, PollingTypeOK
    <3> QED
      BY <1>2, <3>2, <3>3
  <2>3. QueryInv' /\ PollingTypeOK'
    BY <1>1, <2>1, <2>2 DEF PollingTypeOK, PollingInv
  <2> QED
    BY <2>1, <2>2, <2>3, MapUnchanged DEF queryVars
<1>3. ASSUME NEW i \in RequestId, Conclude(p, i) \/ LoseAnswer(p, i)
      PROVE  PollingInv'
  <2>1. i \in work[p] /\ Concludes(p, i)
    BY <1>3 DEF Conclude, LoseAnswer
  <2>2. \/ work' = [work EXCEPT ![p] = @ \ {i}] /\ retried' = retried
        \/ work' = work /\ retried' = retried \cup {i}
    BY <1>3 DEF Conclude, LoseAnswer, Finish
  <2>3. QueryTypeOK'
    <3>1. AddrOf[p] \in Addr
      BY ProverAssumption
    <3>2. ServiceNext
      BY <2>1, <3>1 DEF Concludes, ServiceNext, Concluding
    <3> QED
      BY <3>2, QueryInvNext DEF PollingInv, QueryInv
  <2>4. PollingTypeOK'
    BY <1>3, <2>2, <2>3, ProverAssumption
    DEF Conclude, LoseAnswer, Fault, PollingTypeOK, PollingInv
  <2> QED
    BY <2>1, <2>2, <2>4, ConcludesKeeps
<1> QED
  BY <1>2, <1>3 DEF Work, Lose

LEMMA PollingInvHolds == PollingSpec => []PollingInv
<1>1. PollingInv /\ [PollingNext]_pollingVars => PollingInv'
  <2>1. ASSUME PollingInv, UNCHANGED pollingVars
        PROVE  PollingInv'
    BY <2>1
    DEF pollingVars, queryVars, proverVars, PollingInv, QueryInv, QueryTypeOK,
        WaitingFresh, Stored, PollingTypeOK, AssignedToRequester, HeldIsOwn,
        HeldIsAssigned, Rival
  <2> QED
    BY <2>1, RequestingKeeps, ProverKeeps DEF PollingNext
<1> QED
  BY PollingInvInit, <1>1, PTL DEF PollingSpec

---------------------------------------------------------------------------
(* No request is concluded by two provers, but for a lost answer or a      *)
(* shared address: what a prover holds is still Assigned when it acts.     *)
THEOREM HeldAlwaysAssigned == PollingSpec => []HeldIsAssigned
<1>1. PollingInv => HeldIsAssigned
  BY DEF PollingInv
<1> QED
  BY <1>1, PollingInvHolds, PTL

---------------------------------------------------------------------------
(* What a poll gets *)

LEMMA PollMatches ==
  ASSUME PollingInv, NEW p \in Prover
  PROVE  /\ Matching(PollQuery(p)) = {i \in RequestId : Sought(p, i)}
         /\ Numbers(PollQuery(p))
         /\ PageNumber(PollQuery(p)) = 0 /\ PageLimit(PollQuery(p)) = PollLimit
<1> USE DEF PollingInv
<1> DEFINE q == PollQuery(p)
<1>1. /\ \A f \in Blankable : q[f] = Nil
      /\ \A f \in Exact \ {"fulfillment_status", "fulfiller"} : q[f] = Nil
      /\ q.fulfillment_status = "Assigned" /\ q.fulfiller = AddrOf[p]
      /\ q.minimum_deadline = (IF PollDeadline THEN clock ELSE Nil)
      /\ q.page = Nil /\ q.limit = PollLimit
  <2>1. /\ q.requester = Nil /\ q.vk_hash = Nil /\ q.version = Nil
        /\ q.execution_status = Nil /\ q.mode = Nil /\ q.error = Nil
        /\ q.execute_fail_cause = Nil /\ q.settlement_status = Nil
        /\ q.fulfillment_status = "Assigned" /\ q.fulfiller = AddrOf[p]
        /\ q.minimum_deadline = (IF PollDeadline THEN clock ELSE Nil)
        /\ q.page = Nil /\ q.limit = PollLimit
    BY DEF PollQuery, NoQuery
  <2> HIDE DEF q
  <2> QED
    BY <2>1 DEF Blankable, Exact
<1>2. /\ AddrOf[p] # Nil /\ "Assigned" # Nil
      /\ clock \in Nat /\ clock # Nil /\ PollLimit # Nil
  BY ProverAssumption, QueryConstants, NilIsNoStatus
  DEF FulfillmentStatus, QueryInv, QueryTypeOK
<1> HIDE DEF q
<1>3. PageNumber(q) = 0 /\ PageLimit(q) = PollLimit /\ Numbers(q)
  BY <1>1, <1>2, ProverAssumption DEF PageNumber, PageLimit, Numbers
<1>4. \A r : Matches(q, r) <=> /\ r.fulfillment_status = "Assigned"
                               /\ r.fulfiller = AddrOf[p]
                               /\ PollDeadline => r.deadline > clock
  BY <1>1, <1>2 DEF Matches, Exact
<1>5. ASSUME NEW i \in Stored
      PROVE  Matches(q, requests[i]) <=> Sought(p, i)
  <2>1. requests[i].deadline \in Nat /\ requests[i] # Nil
    BY DEF QueryInv, QueryTypeOK, Stored, ProofRequest
  <2>2. requests[i].deadline > clock <=> ~Expired(i)
    BY <1>2, <2>1 DEF Expired
  <2> QED
    BY <1>4, <2>1, <2>2 DEF Sought, AssignedToRequester
<1>6. Matching(q) = {i \in RequestId : Sought(p, i)}
  BY <1>5 DEF Matching, Stored, Sought
<1> QED
  BY <1>3, <1>6 DEF q

LEMMA PollsOldest == PollingInv => PollServesOldest
<1> SUFFICES ASSUME PollingInv, NEW p \in Prover
             PROVE  LET page == Page(PollQuery(p)) IN
                    /\ \A i \in page : Sought(p, i)
                    /\ \A j \in RequestId \ page : Sought(p, j) =>
                         /\ Cardinality(page) = PollLimit
                         /\ \A i \in page :
                              requests[i].created_at <= requests[j].created_at
  BY DEF PollServesOldest
<1> DEFINE q == PollQuery(p)
           page == Page(q)
<1>1. /\ Matching(q) = {i \in RequestId : Sought(p, i)}
      /\ Numbers(q) /\ PageNumber(q) = 0 /\ PageLimit(q) = PollLimit
  BY PollMatches
<1>2. QueryTypeOK /\ PollLimit \in Nat
  BY ProverAssumption DEF PollingInv, QueryInv
<1> HIDE DEF q
<1>3. Slice(q) = 0 .. PollLimit - 1
  BY <1>1, <1>2 DEF Slice
<1>4. \A i \in page : i \in Matching(q) /\ Position(q, i) < PollLimit
  BY <1>2, <1>3 DEF Page
<1>5. ASSUME NEW j \in RequestId \ page, Sought(p, j)
      PROVE  /\ Cardinality(page) = PollLimit
             /\ \A i \in page : requests[i].created_at <= requests[j].created_at
  <2>1. j \in Matching(q) /\ Position(q, j) \in Nat
    BY <1>1, <1>5, MatchingFinite
  <2>2. Position(q, j) >= PollLimit
    BY <1>2, <1>3, <1>5, <2>1 DEF Page
  <2>3. Cardinality(page) = PollLimit
    <3>1. PageNumber(q) * PageLimit(q) + PageLimit(q) = PollLimit
      BY <1>1, <1>2
    <3> QED
      BY <1>1, <1>2, <2>1, <2>2, <3>1, FullPage
  <2>4. ASSUME NEW i \in page
        PROVE  requests[i].created_at <= requests[j].created_at
    <3>1. i \in Matching(q) /\ Position(q, i) \in Nat /\ Position(q, i) < PollLimit
      BY <1>4, MatchingFinite
    <3>2. ~Before(j, i)
      BY <1>2, <2>1, <2>2, <3>1, PositionOrdered
    <3>3. requests[i].created_at \in Nat /\ requests[j].created_at \in Nat
      BY <1>2, <2>1, <3>1, BeforeIsOrder DEF Matching
    <3> QED
      BY <3>2, <3>3 DEF Before, Older
  <2> QED
    BY <2>3, <2>4
<1>6. \A i \in page : Sought(p, i)
  BY <1>1, <1>4
<1> QED
  BY <1>5, <1>6 DEF q

(* Whatever is concluded, lost or expired, a prover that asks gets the     *)
(* oldest requests it asks for, and as many as it asked for.               *)
THEOREM PollsAlwaysServeOldest == PollingSpec => []PollServesOldest
BY PollingInvHolds, PollsOldest, PTL

---------------------------------------------------------------------------
(* Who gets in front *)

LEMMA PollingIsService ==
  ASSUME [PollingNext]_pollingVars
  PROVE  [ServiceNext]_queryVars
<1>1. ASSUME NEW p \in Prover, NEW i \in RequestId, Concludes(p, i)
      PROVE  ServiceNext
  <2>1. AddrOf[p] \in Addr
    BY ProverAssumption
  <2> QED
    BY <1>1, <2>1 DEF Concludes, ServiceNext, Concluding
<1>2. ASSUME NEW p \in Prover, Poll(p) \/ Work(p) \/ Lose(p)
      PROVE  [ServiceNext]_queryVars
  BY <1>1, <1>2
  DEF Poll, Work, Lose, Conclude, Skip, Crash, LoseCall, LoseAnswer
<1> QED
  BY <1>2 DEF PollingNext, pollingVars, ServiceNext

(* A step of the service leaves a stored request alone or concludes it.    *)
LEMMA StoredKept ==
  ASSUME QueryInv, [ServiceNext]_queryVars, NEW j \in Stored
  PROVE  \/ requests'[j] = requests[j]
         \/ requests'[j].fulfillment_status # "Assigned"
<1> USE DEF QueryInv, QueryTypeOK, Stored
<1>1. ASSUME NEW w \in waiting, InsertRequest(w)
      PROVE  requests'[j] = requests[j]
  BY <1>1, InsertWrites DEF Written
<1>2. CASE Concluding
  <2>1. PICK i \in RequestId : \/ \E a \in Addr : FulfillProof(i, a)
                               \/ \E e \in Error : FailFulfillment(i, e)
    BY <1>2 DEF Concluding
  <2>2. j # i => requests'[j] = requests[j]
    BY <2>1, ConcludingWrites DEF Written
  <2> QED
    BY <2>1, <2>2, ConcludedLeaves
<1> QED
  BY <1>1, <1>2, OthersWriteNothing

(* A request that was not stored was waited for.                           *)
LEMMA NewlyStored ==
  ASSUME QueryInv, [ServiceNext]_queryVars, NEW j \in Stored', j \notin Stored
  PROVE  \E w \in waiting : /\ w.id = j
                            /\ requests'[j].requester = w.requester
                            /\ requests'[j].created_at = w.created_at
<1>1. j \in RequestId /\ requests'[j] # requests[j]
  BY DEF Stored
<1>2. ~Concluding
  BY <1>1, ConcludingWrites DEF Concluding, Written, Stored, QueryInv, QueryTypeOK
<1>3. PICK w \in waiting : InsertRequest(w)
  BY <1>1, <1>2, OthersWriteNothing
<1>4. w.id = j /\ requests'[j] = NewRequest(w)
  BY <1>1, <1>3, InsertWrites DEF Written, QueryInv, QueryTypeOK
<1> QED
  BY <1>4 DEF NewRequest

(* A call that was not waiting has read the clock now. *)
LEMMA NewlyWaiting ==
  ASSUME [ServiceNext]_queryVars, NEW w \in waiting', w \notin waiting
  PROVE  w.created_at = clock
BY DEF ServiceNext, Requesting, Concluding, RequestProof, InsertRequest, DropRequest,
       FulfillProof, FailFulfillment, Tick, queryVars

(* A request has only ever fewer in front of it, in any number of provers, *)
(* requests and calls.                                                     *)
THEOREM NobodyCutsIn == PollingSpec => NoneCutsIn
<1>1. ASSUME PollingInv, [PollingNext]_pollingVars,
             NEW p \in Prover, NEW i \in RequestId,
             Sought(p, i), Sought(p, i)', requests[i].created_at < clock,
             NEW j \in InFront(p, i)'
      PROVE  j \in InFront(p, i)
  <2> USE DEF PollingInv
  <2>1. /\ QueryInv /\ [ServiceNext]_queryVars
        /\ QueryInv' /\ clock \in Nat /\ clock' \in Nat
    BY <1>1, PollingIsService, QueryInvNext DEF QueryInv, QueryTypeOK
  <2>2. clock <= clock'
    BY <2>1
    DEF ServiceNext, Requesting, Concluding, RequestProof, InsertRequest, DropRequest,
        FulfillProof, FailFulfillment, Tick, queryVars
  <2>3. i \in Stored /\ requests'[i].created_at = requests[i].created_at
    BY <1>1, <2>1, EntriesStay DEF Sought, Stored, SameIdentity
  <2>4. CASE \E w \in waiting' : /\ w.id = j /\ w.requester = AddrOf[p]
                                 /\ w.created_at <= requests'[i].created_at
    <3>1. PICK w \in waiting' : /\ w.id = j /\ w.requester = AddrOf[p]
                                /\ w.created_at <= requests[i].created_at
      BY <2>3, <2>4
    <3>2. w \in waiting
      <4>1. requests[i].created_at \in Nat
        BY <2>1, <2>3 DEF QueryInv, QueryTypeOK, Stored, ProofRequest
      <4> QED
        BY <1>1, <2>1, <3>1, <4>1, NewlyWaiting
    <3> QED
      BY <3>1, <3>2 DEF InFront
  <2>5. CASE /\ j \in RequestId \ {i} /\ Sought(p, j)'
             /\ requests'[j].created_at <= requests'[i].created_at
    <3>1. CASE j \in Stored
      <4>1. requests'[j] = requests[j]
        BY <2>1, <2>5, <3>1, StoredKept DEF Sought
      <4>2. requests[j].deadline \in Nat
        BY <2>1, <3>1 DEF QueryInv, QueryTypeOK, Stored, ProofRequest
      <4>3. Sought(p, j)
        BY <2>1, <2>2, <2>5, <4>1, <4>2 DEF Sought, Expired
      <4> QED
        BY <2>3, <2>5, <4>1, <4>3 DEF InFront
    <3>2. CASE j \notin Stored
      <4>1. j \in Stored'
        BY <2>5 DEF Sought, Stored
      <4>2. PICK w \in waiting : /\ w.id = j
                                 /\ requests'[j].requester = w.requester
                                 /\ requests'[j].created_at = w.created_at
        BY <2>1, <3>2, <4>1, NewlyStored
      <4> QED
        BY <2>3, <2>5, <4>2 DEF InFront, Sought
    <3> QED
      BY <3>1, <3>2
  <2> QED
    BY <1>1, <2>4, <2>5 DEF InFront
<1>2. PollingInv /\ [PollingNext]_pollingVars =>
        [\A p \in Prover, i \in RequestId :
           Sought(p, i) /\ Sought(p, i)' /\ requests[i].created_at < clock
             => InFront(p, i)' \subseteq InFront(p, i)]_pollingVars
  BY <1>1
<1> QED
  BY <1>2, PollingInvHolds, PTL DEF PollingSpec, NoneCutsIn

============================================================================
