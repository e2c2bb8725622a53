------------------- MODULE ProverNetworkRefinementProofs -------------------
(***************************************************************************)
(* ProverNetwork implements ProofLedger, and the service that ProofQuery   *)
(* describes, for any values of the constants: its initial states map to   *)
(* initial states of theirs, and each of its steps to a step of theirs or  *)
(* to none.                                                                *)
(***************************************************************************)
EXTENDS ProverNetworkSafetyProofs, FiniteSetTheorems, FunctionTheorems

USE DEF Optional

RefinementInv ==
  /\ CallsInv /\ DataTypeOK
  /\ LookupStaysCurrent /\ ArtifactsInv /\ OpensFresh

(* A proof URI is only set to where the proof lies, so an entry's proof is *)
(* available exactly when the entry has a URI.                             *)
Abstract(e) ==
  [vk_hash |-> e.request.vk_hash, program |-> e.request.program_uri,
   requester |-> e.request.requester, outcome |-> e.status.fulfillment_status,
   proof |-> IF e.status.proof_uri # Nil THEN "available" ELSE "none"]

LEMMA AbstractNotNil ==
  ASSUME NEW e \in Entry
  PROVE  Abstract(e) # Nil
<1>1. Abstract(e) \in Ledger!LedgerEntry
  BY DEF Abstract, Entry, ProofRequest, StatusResponse, FulfillmentStatus,
         Ledger!LedgerEntry, Ledger!Outcome
<1> QED
  BY <1>1, LedgerNilAssumption

LEMMA AbstractFulfilled ==
  ASSUME NEW e \in Entry, NEW f, f.url # Nil, NEW now
  PROVE  Abstract(FulfilledEntry(e, f, now)) =
           [Abstract(e) EXCEPT !.outcome = "Fulfilled", !.proof = "available"]
<1> DEFINE g == FulfilledEntry(e, f, now)
<1>1. /\ g.request.vk_hash = e.request.vk_hash
      /\ g.request.program_uri = e.request.program_uri
      /\ g.request.requester = e.request.requester
      /\ g.status.fulfillment_status = "Fulfilled"
      /\ g.status.proof_uri = f.url
  BY DEF FulfilledEntry, Entry, ProofRequest, StatusResponse
<1> HIDE DEF g
<1> DEFINE r == [vk_hash |-> e.request.vk_hash, program |-> e.request.program_uri,
                 requester |-> e.request.requester, outcome |-> "Fulfilled",
                 proof |-> "available"]
<1>2. Abstract(g) = r
  BY <1>1 DEF Abstract
<1>3. [Abstract(e) EXCEPT !.outcome = "Fulfilled", !.proof = "available"] = r
  <2> DEFINE x == [Abstract(e) EXCEPT !.outcome = "Fulfilled", !.proof = "available"]
  <2>1. x \in [vk_hash: {e.request.vk_hash}, program: {e.request.program_uri},
               requester: {e.request.requester}, outcome: {"Fulfilled"},
               proof: {"available"}]
    BY DEF Abstract
  <2> HIDE DEF x
  <2>2. x = r
    BY <2>1
  <2> QED
    BY <2>2 DEF x
<1> QED
  BY <1>2, <1>3 DEF g

LEMMA AbstractFailed ==
  ASSUME NEW e \in Entry, NEW f, NEW now
  PROVE  Abstract(FailedEntry(e, f, now)) =
           [Abstract(e) EXCEPT !.outcome = "Unfulfillable"]
<1> DEFINE g == FailedEntry(e, f, now)
<1>1. /\ g.request.vk_hash = e.request.vk_hash
      /\ g.request.program_uri = e.request.program_uri
      /\ g.request.requester = e.request.requester
      /\ g.status.fulfillment_status = "Unfulfillable"
      /\ g.status.proof_uri = e.status.proof_uri
  BY DEF FailedEntry, Entry, ProofRequest, StatusResponse
<1> HIDE DEF g
<1> QED
  BY <1>1 DEF Abstract, g

LedgerIsAbstract ==
  \A i \in RequestId :
    LedgerOf(i) = IF proof_requests[i] = Nil THEN Nil
                                             ELSE Abstract(proof_requests[i])

LEMMA LedgerOfAbstract == DataTypeOK /\ ArtifactsInv => LedgerIsAbstract
<1> SUFFICES ASSUME DataTypeOK, ArtifactsInv, NEW i \in RequestId
             PROVE  LedgerOf(i) = IF proof_requests[i] = Nil
                                  THEN Nil ELSE Abstract(proof_requests[i])
  BY DEF LedgerIsAbstract
<1>1. CASE proof_requests[i] = Nil
  BY <1>1 DEF LedgerOf
<1>2. CASE proof_requests[i] # Nil
  <2> DEFINE u == proof_requests[i].status.proof_uri
  <2>1. u # Nil => Yields(u, i)
    <3>1. i \in Stored
      BY <1>2 DEF Stored
    <3>2. u # Nil => u \in ProofUrl
      BY <1>2, ProofUriType DEF DataTypeOK
    <3> QED
      BY <3>1, <3>2, HoldsYields DEF ArtifactsInv, ProofsOK
  <2> QED
    BY <1>2, <2>1 DEF LedgerOf, Abstract
<1> QED
  BY <1>1, <1>2

ledgerMap == [i \in RequestId |-> LedgerOf(i)]

(* A step that leaves all entries alone leaves the ledger alone. *)
LEMMA LedgerUnchanged ==
  ASSUME LedgerIsAbstract, LedgerIsAbstract', proof_requests' = proof_requests
  PROVE  ledgerMap' = ledgerMap
<1>1. \A i \in RequestId : LedgerOf(i)' = LedgerOf(i)
  BY DEF LedgerIsAbstract, Abstract
<1> QED
  BY <1>1 DEF ledgerMap

(* A step that writes one entry writes one entry of the ledger. *)
LEMMA LedgerWritten ==
  ASSUME DataTypeOK, LedgerIsAbstract, LedgerIsAbstract',
         NEW i \in RequestId, NEW e \in Entry,
         proof_requests' = [proof_requests EXCEPT ![i] = e]
  PROVE  ledgerMap' = [ledgerMap EXCEPT ![i] = Abstract(e)]
<1>1. proof_requests'[i] = e /\ e # Nil
  BY NilAssumption DEF DataTypeOK
<1>2. LedgerOf(i)' = Abstract(e)
  BY <1>1 DEF LedgerIsAbstract, Abstract
<1>3. ASSUME NEW j \in RequestId, j # i
      PROVE  LedgerOf(j)' = LedgerOf(j)
  <2>1. proof_requests'[j] = proof_requests[j]
    BY <1>3 DEF DataTypeOK
  <2> QED
    BY <2>1 DEF LedgerIsAbstract, Abstract
<1> QED
  BY <1>2, <1>3 DEF ledgerMap

---------------------------------------------------------------------------
(* Each step of the service as a step of the ledger *)

LEMMA InitMaps == Init => Ledger!Init
BY DEF Init, Ledger!Init, LedgerOf

LEMMA InsertProgramMaps ==
  ASSUME RefinementInv, LedgerIsAbstract, LedgerIsAbstract',
         NEW c \in Call, InsertProgram(c)
  PROVE  Ledger!Next
<1>1. /\ call[c].vk_hash \in VkHash /\ call[c].program_uri \in Uri
      /\ programs' = [programs EXCEPT ![call[c].vk_hash] = call[c].program_uri]
      /\ proof_requests' = proof_requests
  BY DEF InsertProgram, HasPrograms, RefinementInv, CallsInv, FramesMatchProgress,
         Filled
<1>2. ledgerMap' = ledgerMap
  BY <1>1, LedgerUnchanged
<1>3. Ledger!Register(call[c].vk_hash, call[c].program_uri)
  BY <1>1, <1>2 DEF Ledger!Register, ledgerMap
<1> QED
  BY <1>1, <1>3 DEF Ledger!Next

LEMMA InsertRequestMaps ==
  ASSUME RefinementInv, LedgerIsAbstract, LedgerIsAbstract',
         NEW c \in Call, InsertRequest(c)
  PROVE  Ledger!Next
<1> USE DEF RefinementInv
<1> DEFINE i == call[c].id
           v == call[c].vk_hash
           a == call[c].addr
<1>1. /\ i \in RequestId /\ NewEntry(call[c]) \in Entry
      /\ proof_requests' = [proof_requests EXCEPT ![i] = NewEntry(call[c])]
  BY InsertRequestWrites
<1>2. /\ v \in VkHash /\ a \in Addr
      /\ HoldsLookup(c) /\ call[c].method = "request_proof"
      /\ programs' = programs
  BY DEF InsertRequest, HasRequests, HoldsLookup, CallsInv, FramesMatchProgress,
         Filled
<1>3. call[c].program_uri = programs[v]
  BY <1>2 DEF LookupStaysCurrent
<1>4. ledgerMap[i] = Nil
  BY <1>1, <1>2 DEF OpensFresh, Stored, ledgerMap, LedgerOf
<1>5. Abstract(NewEntry(call[c])) =
        [vk_hash |-> v, program |-> programs[v], requester |-> a,
         outcome |-> "Assigned", proof |-> "none"]
  BY <1>3 DEF Abstract, NewEntry
<1>6. ledgerMap' = [ledgerMap EXCEPT ![i] = Abstract(NewEntry(call[c]))]
  BY <1>1, LedgerWritten
<1> HIDE DEF i, v, a
<1>7. Ledger!Open(i, v, a)
  BY <1>2, <1>4, <1>5, <1>6 DEF Ledger!Open, ledgerMap
<1> QED
  BY <1>1, <1>2, <1>7 DEF Ledger!Next

LEMMA FinishFulfillMaps ==
  ASSUME RefinementInv, LedgerIsAbstract, LedgerIsAbstract',
         NEW c \in Call, FinishFulfill(c)
  PROVE  Ledger!Next
<1> USE DEF RefinementInv
<1> DEFINE i == call[c].id
           e == proof_requests[i]
           g == FulfilledEntry(e, call[c], clock)
<1>1. /\ i \in RequestId /\ e \in Entry /\ g \in Entry /\ call[c].url \in ProofUrl
      /\ proof_requests' = [proof_requests EXCEPT ![i] = g]
  BY FinishFulfillWrites
<1>2. programs' = programs
  BY DEF FinishFulfill
<1>3. ledgerMap[i] = Abstract(e) /\ ledgerMap[i] # Nil
  <2>1. e # Nil
    BY <1>1, NilAssumption
  <2>2. i \in Stored
    BY FinishFulfillWrites
  <2>3. ledgerMap[i] = Abstract(e)
    BY <1>1, <2>1 DEF LedgerIsAbstract, ledgerMap
  <2> QED
    BY <1>1, <2>3, AbstractNotNil
<1>4. Abstract(g) = [Abstract(e) EXCEPT !.outcome = "Fulfilled", !.proof = "available"]
  <2>1. call[c].url # Nil
    BY <1>1, ConstantsAssumption
  <2> QED
    BY <1>1, <2>1, AbstractFulfilled
<1>5. ledgerMap' = [ledgerMap EXCEPT ![i] = Abstract(g)]
  BY <1>1, LedgerWritten
<1> HIDE DEF i, e, g
<1>6. Ledger!Fulfill(i)
  BY <1>2, <1>3, <1>4, <1>5 DEF Ledger!Fulfill, ledgerMap
<1> QED
  BY <1>1, <1>6 DEF Ledger!Next

LEMMA ApplyFailMaps ==
  ASSUME RefinementInv, LedgerIsAbstract, LedgerIsAbstract',
         NEW c \in Call, ApplyFail(c)
  PROVE  Ledger!Next
<1> USE DEF RefinementInv
<1> DEFINE i == call[c].id
           e == proof_requests[i]
           g == FailedEntry(e, call[c], clock)
<1>1. /\ i \in RequestId /\ e \in Entry /\ g \in Entry
      /\ proof_requests' = [proof_requests EXCEPT ![i] = g]
  BY ApplyFailWrites
<1>2. programs' = programs
  BY DEF ApplyFail
<1>3. ledgerMap[i] = Abstract(e) /\ ledgerMap[i] # Nil
  <2>1. e # Nil
    BY <1>1, NilAssumption
  <2>2. ledgerMap[i] = Abstract(e)
    BY <1>1, <2>1 DEF LedgerIsAbstract, ledgerMap
  <2> QED
    BY <1>1, <2>2, AbstractNotNil
<1>4. Abstract(g) = [Abstract(e) EXCEPT !.outcome = "Unfulfillable"]
  BY <1>1, AbstractFailed
<1>5. ledgerMap' = [ledgerMap EXCEPT ![i] = Abstract(g)]
  BY <1>1, LedgerWritten
<1> HIDE DEF i, e, g
<1>6. Ledger!Fail(i)
  BY <1>2, <1>3, <1>4, <1>5 DEF Ledger!Fail, ledgerMap
<1> QED
  BY <1>1, <1>6 DEF Ledger!Next

LEMMA StepMaps ==
  ASSUME RefinementInv, LedgerIsAbstract, LedgerIsAbstract', [Next]_vars
  PROVE  [Ledger!Next]_(Ledger!ledgerVars)
<1>1. ASSUME programs' = programs, proof_requests' = proof_requests
      PROVE  UNCHANGED Ledger!ledgerVars
  <2>1. ledgerMap' = ledgerMap
    BY <1>1, LedgerUnchanged
  <2> QED
    BY <1>1, <2>1 DEF Ledger!ledgerVars, ledgerMap
<1>2. \/ \E c \in Call : \/ InsertProgram(c) \/ InsertRequest(c)
                         \/ FinishFulfill(c) \/ ApplyFail(c)
      \/ programs' = programs /\ proof_requests' = proof_requests
  <2>1. ASSUME NEW c \in Call, Resume(c), ~InsertProgram(c), ~InsertRequest(c),
               ~FinishFulfill(c), ~ApplyFail(c)
        PROVE  programs' = programs /\ proof_requests' = proof_requests
    BY <2>1
    DEF Resume, LookupProgram, ReadProgram, BeginUpload, UploadRefused,
        LogRefusal, RequestNotFound, ReadStatus, AnswerRequests, store
  <2>2. ASSUME NEW c \in Call, UploadFails(c) \/ Cancel(c)
        PROVE  programs' = programs /\ proof_requests' = proof_requests
    BY <2>2 DEF UploadFails, Cancel, store
  <2>3. ASSUME (\E u \in ProofUrl : ServePut(u) \/ OthersPut(u)) \/ Tick \/ UNCHANGED vars
        PROVE  programs' = programs /\ proof_requests' = proof_requests
    BY <2>3 DEF ServePut, OthersPut, Tick, vars, store
  <2> QED
    BY <2>1, <2>2, <2>3, ArriveData DEF Next
<1> QED
  BY <1>1, <1>2, InsertProgramMaps, InsertRequestMaps, FinishFulfillMaps,
     ApplyFailMaps

(* The service is the ledger: locks, uploads, failures and dropped calls   *)
(* do not show.                                                            *)
THEOREM Refines == Spec => ImplementsLedger
<1>1. RefinementInv => LedgerIsAbstract
  BY LedgerOfAbstract DEF RefinementInv
<1>2. Spec => []RefinementInv
  BY Typed, LookupAlwaysCurrent, ArtifactsInvariant, OpensFreshInvariant, PTL
  DEF RefinementInv
<1>3. RefinementInv /\ LedgerIsAbstract /\ LedgerIsAbstract' /\ [Next]_vars
        => [Ledger!Next]_(Ledger!ledgerVars)
  BY StepMaps
<1> QED
  BY <1>1, <1>2, <1>3, InitMaps, PTL DEF Spec, ImplementsLedger, Ledger!Spec

---------------------------------------------------------------------------
(* The service as the queries see it *)

requestsMap == [i \in RequestId |-> QueryOf(i)]
placeMap == CHOOSE p \in Injection(RequestId, 1 .. Cardinality(RequestId)) : TRUE
waitingMap == {WaitingCall(call[c]) : c \in Opening}

(* A call that has not begun, or has ended, has no frame.                  *)
IdleFrames == \A c \in Call : pc[c] = "idle" => call[c] = NoFrame

QueryMapInv == CallsInv /\ DataTypeOK /\ OpensFresh /\ IdleFrames

LEMMA IdleFramesInvariant == Spec => []IdleFrames
<1>1. Init => IdleFrames
  BY DEF Init, IdleFrames
<1>2. CallsInv /\ DataTypeOK /\ IdleFrames /\ [Next]_vars => IdleFrames'
  <2> SUFFICES ASSUME CallsInv, DataTypeOK, IdleFrames, [Next]_vars,
                      NEW c \in Call, pc'[c] = "idle"
               PROVE  call'[c] = NoFrame
    BY DEF IdleFrames
  <2> USE DEF CallsInv, CallsTypeOK
  <2>1. CASE Arrive(c)
    <3>1. PICK frame \in Frame : Arrives(c, frame)
      BY <2>1, ArriveAwaits
    <3>2. pc'[c] # "idle"
      BY <3>1 DEF Arrives, AwaitPrograms, AwaitRequests
    <3> QED
      BY <3>2
  <2>2. CASE Resume(c)
    BY <2>2
    DEF Resume, LookupProgram, InsertRequest, InsertProgram, ReadProgram,
        BeginUpload, FinishFulfill, UploadRefused, LogRefusal, ApplyFail,
        RequestNotFound, ReadStatus, AnswerRequests, Return,
        ReturnFromPrograms, ReturnFromRequests
  <2>3. CASE pc'[c] = pc[c] /\ call'[c] = call[c]
    BY <2>3 DEF IdleFrames
  <2> QED
    BY <2>1, <2>2, <2>3, CallSteps
<1> QED
  BY <1>1, <1>2, Typed, PTL DEF Spec

LEMMA QueryMapInvariant == Spec => []QueryMapInv
BY Typed, OpensFreshInvariant, IdleFramesInvariant, PTL DEF QueryMapInv

(* The ids are finitely many, so the map can be iterated in some order.    *)
LEMMA PlaceIsPlacement == placeMap \in Query!Placement
<1> DEFINE n == Cardinality(RequestId)
<1>1. ExistsBijection(RequestId, 1 .. n)
  BY FiniteIdsAssumption, FS_CardinalityType, Fun_ExistsBijSymmetric
<1>2. \E p \in Injection(RequestId, 1 .. n) : TRUE
  BY <1>1 DEF ExistsBijection, Bijection
<1>3. placeMap \in Injection(RequestId, 1 .. n)
  BY <1>2 DEF placeMap
<1>4. Query!Cardinality(RequestId) = n
  BY DEF Query!Cardinality, Cardinality
<1> QED
  BY <1>3, <1>4
  DEF Query!Placement, Query!Injection, Query!IsInjective, Injection, IsInjective

LEMMA FilterableNotNil ==
  ASSUME NEW e \in Entry
  PROVE  Filterable(e.request) # Nil
<1>1. Filterable(e.request) \in Query!ProofRequest
  BY DEF Filterable, Entry, ProofRequest, FulfillmentStatus, ExecutionStatus,
         Query!ProofRequest, Query!FulfillmentStatus, Query!ExecutionStatus
<1> QED
  BY <1>1, QueryNilAssumption

LEMMA QueryStored == DataTypeOK => Query!Stored = Stored
BY FilterableNotNil DEF DataTypeOK, Query!Stored, Stored, QueryOf

(* A step that leaves all entries alone leaves the requests alone. *)
LEMMA RequestsUnchanged ==
  ASSUME proof_requests' = proof_requests
  PROVE  requestsMap' = requestsMap
BY DEF requestsMap, QueryOf

(* A step that writes one entry writes one request. *)
LEMMA RequestWritten ==
  ASSUME DataTypeOK, NEW i \in RequestId, NEW e \in Entry,
         proof_requests' = [proof_requests EXCEPT ![i] = e]
  PROVE  requestsMap' = [requestsMap EXCEPT ![i] = Filterable(e.request)]
<1>1. QueryOf(i)' = Filterable(e.request)
  BY NilAssumption DEF DataTypeOK, QueryOf
<1>2. \A j \in RequestId \ {i} : QueryOf(j)' = QueryOf(j)
  BY DEF DataTypeOK, QueryOf
<1> QED
  BY <1>1, <1>2 DEF requestsMap

(* The frame of a call that opens a request names what it is to open. *)
LEMMA OpeningTyped ==
  ASSUME CallsInv, NEW c \in Opening
  PROVE  /\ c \in Call /\ call[c].id \in RequestId
         /\ call[c].vk_hash \in VkHash /\ call[c].addr \in Addr
         /\ call[c].now \in Nat
BY DEF Opening, CallsInv, CallsTypeOK, FramesMatchProgress, Filled, Frame

(* Steps of the other methods do not show in the waiting calls, nor does   *)
(* what a call that opens a request does before its insert.                *)
LEMMA WaitingUnchanged ==
  ASSUME \A c \in Call :
           \/ call'[c] = call[c]
           \/ c \notin Opening /\ c \notin Opening'
           \/ c \in Opening /\ c \in Opening' /\ WaitingCall(call'[c]) = WaitingCall(call[c])
  PROVE  waitingMap' = waitingMap
<1>1. Opening' = Opening
  BY DEF Opening
<1>2. \A c \in Opening : WaitingCall(call'[c]) = WaitingCall(call[c])
  BY DEF Opening
<1> QED
  BY <1>1, <1>2 DEF waitingMap

(* No two calls wait with the same id, so a call that ends takes only its  *)
(* own from the waiting.                                                   *)
LEMMA WaitingLeft ==
  ASSUME CallsInv, OpensFresh, NEW c \in Opening,
         call' = [call EXCEPT ![c] = NoFrame]
  PROVE  waitingMap' = waitingMap \ {WaitingCall(call[c])}
<1> USE DEF CallsInv, CallsTypeOK
<1>1. Opening' = Opening \ {c}
  BY DEF Opening, NoFrame
<1>2. \A d \in Opening \ {c} : call'[d] = call[d]
  BY DEF Opening
<1>3. \A d \in Opening \ {c} : WaitingCall(call[d]) # WaitingCall(call[c])
  BY DEF OpensFresh, Opening, WaitingCall
<1> QED
  BY <1>1, <1>2, <1>3 DEF waitingMap

LEMMA WaitingJoined ==
  ASSUME CallsInv, NEW c \in Call, c \notin Opening, NEW f \in Frame,
         f.method = "request_proof", call' = [call EXCEPT ![c] = f]
  PROVE  waitingMap' = waitingMap \cup {WaitingCall(f)}
<1> USE DEF CallsInv, CallsTypeOK
<1>1. Opening' = Opening \cup {c} /\ call'[c] = f
  BY DEF Opening
<1>2. \A d \in Opening : call'[d] = call[d]
  BY DEF Opening
<1> QED
  BY <1>1, <1>2 DEF waitingMap

---------------------------------------------------------------------------
(* Each step of the service as a step the queries see *)

LEMMA InitQuery == Init => Query!QueryInit
<1> SUFFICES ASSUME Init PROVE Query!QueryInit
  OBVIOUS
<1>1. requestsMap = [i \in RequestId |-> Nil]
  BY DEF Init, requestsMap, QueryOf
<1>2. waitingMap = {}
  BY DEF Init, waitingMap, Opening, NoFrame
<1> QED
  BY <1>1, <1>2, PlaceIsPlacement
  DEF Init, Query!QueryInit, requestsMap, waitingMap, placeMap

LEMMA ArriveShows ==
  ASSUME QueryMapInv, NEW c \in Call, Arrive(c)
  PROVE  [Query!ServiceNext]_(Query!queryVars)
<1> USE DEF QueryMapInv
<1>1. PICK f \in Frame : Arrives(c, f)
  BY ArriveAwaits
<1>2. /\ proof_requests' = proof_requests /\ clock' = clock
      /\ pc[c] = "idle" /\ call' = [call EXCEPT ![c] = f]
  BY <1>1 DEF Arrives, AwaitPrograms, AwaitRequests, store
<1>3. c \notin Opening
  BY <1>2 DEF IdleFrames, Opening, NoFrame
<1>4. requestsMap' = requestsMap
  BY <1>2, RequestsUnchanged
<1>5. CASE f.method = "request_proof"
  <2>1. /\ f.id \in RequestId /\ f.addr \in Addr /\ f.vk_hash \in VkHash
        /\ FreshId(f.id) /\ f.now = clock
    BY <1>1, <1>5 DEF Arrives, Filled
  <2>2. waitingMap' = waitingMap \cup {WaitingCall(f)}
    BY <1>2, <1>3, <1>5, WaitingJoined
  <2>3. f.id \notin Query!Stored
    BY <2>1, QueryStored DEF FreshId
  <2>4. \A w \in waitingMap : w.id # f.id
    BY <2>1 DEF waitingMap, Opening, WaitingCall, FreshId
  <2>5. Query!RequestProof(f.id, f.addr, QueryBody(f.vk_hash))
    BY <1>2, <1>4, <2>1, <2>2, <2>3, <2>4
    DEF Query!RequestProof, WaitingCall, waitingMap, requestsMap
  <2> QED
    BY <2>1, <2>5 DEF Query!ServiceNext, Query!Requesting
<1>6. CASE f.method # "request_proof"
  <2>1. waitingMap' = waitingMap
    BY <1>2, <1>3, <1>6, WaitingUnchanged DEF Opening, CallsInv, CallsTypeOK
  <2> QED
    BY <1>2, <1>4, <2>1 DEF Query!queryVars, requestsMap, waitingMap
<1> QED
  BY <1>5, <1>6

LEMMA InsertRequestShows ==
  ASSUME QueryMapInv, NEW c \in Call, InsertRequest(c)
  PROVE  Query!ServiceNext
<1> USE DEF QueryMapInv
<1> DEFINE w == WaitingCall(call[c])
<1>1. /\ c \in Opening
      /\ call' = [call EXCEPT ![c] = NoFrame] /\ clock' = clock
  BY DEF InsertRequest, HasRequests, Opening, Return
<1>2. /\ call[c].id \in RequestId /\ NewEntry(call[c]) \in Entry
      /\ proof_requests' = [proof_requests EXCEPT ![call[c].id] = NewEntry(call[c])]
  BY InsertRequestWrites
<1>3. w \in waitingMap /\ waitingMap' = waitingMap \ {w}
  BY <1>1, WaitingLeft DEF waitingMap
<1>4. Query!NewRequest(w) = Filterable(NewEntry(call[c]).request)
  BY DEF Query!NewRequest, Filterable, NewEntry, WaitingCall, QueryBody
<1>5. requestsMap' = [requestsMap EXCEPT ![w.id] = Query!NewRequest(w)]
  BY <1>2, <1>4, RequestWritten DEF WaitingCall
<1> HIDE DEF w
<1>6. Query!InsertRequest(w)
  BY <1>1, <1>3, <1>5, PlaceIsPlacement
  DEF Query!InsertRequest, requestsMap, waitingMap, placeMap
<1> QED
  BY <1>3, <1>6 DEF Query!ServiceNext, Query!Requesting, waitingMap

(* A call that ends without a write: one that waited is gone. *)
LEMMA EndShows ==
  ASSUME QueryMapInv, NEW c \in Call, call' = [call EXCEPT ![c] = NoFrame],
         proof_requests' = proof_requests, clock' = clock
  PROVE  [Query!ServiceNext]_(Query!queryVars)
<1> USE DEF QueryMapInv
<1> DEFINE w == WaitingCall(call[c])
<1>1. requestsMap' = requestsMap
  BY RequestsUnchanged
<1>2. CASE c \in Opening
  <2>1. w \in waitingMap /\ waitingMap' = waitingMap \ {w}
    BY <1>2, WaitingLeft DEF waitingMap
  <2> HIDE DEF w
  <2>2. Query!DropRequest(w)
    BY <1>1, <2>1 DEF Query!DropRequest, requestsMap, waitingMap
  <2> QED
    BY <2>1, <2>2 DEF Query!ServiceNext, Query!Requesting, waitingMap
<1>3. CASE c \notin Opening
  <2>1. waitingMap' = waitingMap
    BY <1>3, WaitingUnchanged DEF Opening, NoFrame, CallsInv, CallsTypeOK
  <2> QED
    BY <1>1, <2>1 DEF Query!queryVars, requestsMap, waitingMap
<1> QED
  BY <1>2, <1>3

LEMMA FulfilledFilterable ==
  ASSUME NEW e \in Entry, NEW f, NEW now
  PROVE  Filterable(FulfilledEntry(e, f, now).request)
           = Query!Fulfilled(Filterable(e.request), f.addr)
<1> DEFINE r == e.request
           s == FulfilledEntry(e, f, now).request
           x == Query!Fulfilled(Filterable(r), f.addr)
<1>1. /\ s.vk_hash = r.vk_hash /\ s.requester = r.requester
      /\ s.fulfiller = f.addr /\ s.fulfillment_status = "Fulfilled"
      /\ s.execution_status = "Executed"
      /\ s.error = r.error /\ s.created_at = r.created_at
  BY DEF FulfilledEntry, Entry, ProofRequest
<1> HIDE DEF s
<1>2. x \in [vk_hash: {s.vk_hash}, version: {Nil}, mode: {Nil}, deadline: {0},
             requester: {s.requester}, fulfiller: {s.fulfiller},
             fulfillment_status: {s.fulfillment_status},
             execution_status: {s.execution_status},
             execute_fail_cause: {"Unspecified"}, settlement_status: {"Unspecified"},
             error: {s.error}, created_at: {s.created_at}]
  BY <1>1 DEF Filterable, Query!Fulfilled
<1> HIDE DEF x
<1>3. x = Filterable(s)
  BY <1>2 DEF Filterable
<1> QED
  BY <1>3 DEF x, s

LEMMA FailedFilterable ==
  ASSUME NEW e \in Entry, NEW f, NEW now
  PROVE  Filterable(FailedEntry(e, f, now).request)
           = Query!Failed(Filterable(e.request), f.error)
<1> DEFINE r == e.request
           s == FailedEntry(e, f, now).request
           x == Query!Failed(Filterable(r), f.error)
<1>1. /\ s.vk_hash = r.vk_hash /\ s.requester = r.requester
      /\ s.fulfiller = r.fulfiller /\ s.fulfillment_status = "Unfulfillable"
      /\ s.execution_status = r.execution_status
      /\ s.error = f.error /\ s.created_at = r.created_at
  BY DEF FailedEntry, Entry, ProofRequest
<1> HIDE DEF s
<1>2. x \in [vk_hash: {s.vk_hash}, version: {Nil}, mode: {Nil}, deadline: {0},
             requester: {s.requester}, fulfiller: {s.fulfiller},
             fulfillment_status: {s.fulfillment_status},
             execution_status: {s.execution_status},
             execute_fail_cause: {"Unspecified"}, settlement_status: {"Unspecified"},
             error: {s.error}, created_at: {s.created_at}]
  BY <1>1 DEF Filterable, Query!Failed
<1> HIDE DEF x
<1>3. x = Filterable(s)
  BY <1>2 DEF Filterable
<1> QED
  BY <1>3 DEF x, s

LEMMA FinishFulfillShows ==
  ASSUME QueryMapInv, NEW c \in Call, FinishFulfill(c)
  PROVE  Query!ServiceNext
<1> USE DEF QueryMapInv
<1> DEFINE i == call[c].id
           a == call[c].addr
           e == proof_requests[i]
           g == FulfilledEntry(e, call[c], clock)
<1>1. /\ i \in Stored /\ i \in RequestId /\ e \in Entry /\ g \in Entry
      /\ a \in Addr
      /\ proof_requests' = [proof_requests EXCEPT ![i] = g]
  BY FinishFulfillWrites
<1>2. /\ c \notin Opening /\ clock' = clock
      /\ call' = [call EXCEPT ![c] = NoFrame]
  BY DEF FinishFulfill, ReturnFromRequests, Return, Opening, CallsInv,
         FramesMatchProgress, WorksOnRequests
<1>3. waitingMap' = waitingMap
  BY <1>2, WaitingUnchanged DEF Opening, NoFrame, CallsInv, CallsTypeOK
<1>4. requestsMap[i] = Filterable(e.request)
  BY <1>1 DEF requestsMap, QueryOf, Stored
<1>5. Filterable(g.request) = Query!Fulfilled(Filterable(e.request), a)
  BY <1>1, FulfilledFilterable
<1>6. requestsMap' = [requestsMap EXCEPT ![i] = Query!Fulfilled(requestsMap[i], a)]
  BY <1>1, <1>4, <1>5, RequestWritten
<1>7. i \in Query!Stored
  BY <1>1, QueryStored
<1> HIDE DEF i, a, e, g
<1>8. Query!FulfillProof(i, a)
  BY <1>2, <1>3, <1>6, <1>7 DEF Query!FulfillProof, requestsMap, waitingMap
<1> QED
  BY <1>1, <1>8 DEF Query!ServiceNext, Query!Concluding

LEMMA ApplyFailShows ==
  ASSUME QueryMapInv, NEW c \in Call, ApplyFail(c)
  PROVE  Query!ServiceNext
<1> USE DEF QueryMapInv
<1> DEFINE i == call[c].id
           n == call[c].error
           e == proof_requests[i]
           g == FailedEntry(e, call[c], clock)
<1>1. /\ i \in Stored /\ i \in RequestId /\ e \in Entry /\ g \in Entry
      /\ n \in Error
      /\ proof_requests' = [proof_requests EXCEPT ![i] = g]
  BY ApplyFailWrites DEF Frame
<1>2. /\ c \notin Opening /\ clock' = clock
      /\ call' = [call EXCEPT ![c] = NoFrame]
  BY DEF ApplyFail, HasRequests, ReturnFromRequests, Return, Opening
<1>3. waitingMap' = waitingMap
  BY <1>2, WaitingUnchanged DEF Opening, NoFrame, CallsInv, CallsTypeOK
<1>4. requestsMap[i] = Filterable(e.request)
  BY <1>1 DEF requestsMap, QueryOf, Stored
<1>5. Filterable(g.request) = Query!Failed(Filterable(e.request), n)
  BY <1>1, FailedFilterable
<1>6. requestsMap' = [requestsMap EXCEPT ![i] = Query!Failed(requestsMap[i], n)]
  BY <1>1, <1>4, <1>5, RequestWritten
<1>7. i \in Query!Stored
  BY <1>1, QueryStored
<1> HIDE DEF i, n, e, g
<1>8. Query!FailFulfillment(i, n)
  BY <1>2, <1>3, <1>6, <1>7 DEF Query!FailFulfillment, requestsMap, waitingMap
<1> QED
  BY <1>1, <1>8 DEF Query!ServiceNext, Query!Concluding

(* The other steps of a call that runs on keep what it announced. *)
LEMMA RunOnShows ==
  ASSUME QueryMapInv, NEW c \in Call,
         LookupProgram(c) \/ BeginUpload(c) \/ UploadRefused(c)
  PROVE  UNCHANGED Query!queryVars
<1> USE DEF QueryMapInv, CallsInv, CallsTypeOK
<1>1. proof_requests' = proof_requests /\ clock' = clock
  BY DEF LookupProgram, BeginUpload, UploadRefused, store
<1>2. waitingMap' = waitingMap
  <2>1. CASE LookupProgram(c)
    <3>1. /\ call' = [call EXCEPT ![c].program_uri = programs[call[c].vk_hash]]
          /\ call[c] \in Frame
      BY <2>1 DEF LookupProgram
    <3>2. \A d \in Call \ {c} : call'[d] = call[d]
      BY <3>1
    <3>3. /\ call'[c].method = call[c].method
          /\ WaitingCall(call'[c]) = WaitingCall(call[c])
      BY <3>1 DEF WaitingCall, Frame
    <3> QED
      BY <3>2, <3>3, WaitingUnchanged DEF Opening
  <2>2. CASE BeginUpload(c) \/ UploadRefused(c)
    BY <2>2, WaitingUnchanged DEF BeginUpload, UploadRefused
  <2> QED
    BY <2>1, <2>2
<1> QED
  BY <1>1, <1>2, RequestsUnchanged DEF Query!queryVars, requestsMap, waitingMap

LEMMA ResumeShows ==
  ASSUME QueryMapInv, NEW c \in Call, Resume(c)
  PROVE  [Query!ServiceNext]_(Query!queryVars)
<1>1. CASE \/ InsertProgram(c) \/ ReadProgram(c) \/ LogRefusal(c)
           \/ RequestNotFound(c) \/ ReadStatus(c) \/ AnswerRequests(c)
  <2>1. /\ call' = [call EXCEPT ![c] = NoFrame]
        /\ proof_requests' = proof_requests /\ clock' = clock
    BY <1>1
    DEF InsertProgram, ReadProgram, LogRefusal, RequestNotFound, ReadStatus,
        AnswerRequests, ReturnFromPrograms, ReturnFromRequests, Return, store
  <2> QED
    BY <2>1, EndShows
<1> QED
  BY <1>1, InsertRequestShows, FinishFulfillShows, ApplyFailShows, RunOnShows
  DEF Resume

LEMMA ServiceStepShows ==
  ASSUME QueryMapInv, [Next]_vars
  PROVE  [Query!ServiceNext]_(Query!queryVars)
<1>1. ASSUME NEW c \in Call, UploadFails(c) \/ Cancel(c)
      PROVE  [Query!ServiceNext]_(Query!queryVars)
  BY <1>1, EndShows DEF UploadFails, Cancel, ReturnFromRequests, Return, store
<1>2. CASE Tick
  <2>1. /\ proof_requests' = proof_requests /\ call' = call
        /\ clock < MaxClock /\ clock' = clock + 1
    BY <1>2 DEF Tick, store
  <2>2. requestsMap' = requestsMap /\ waitingMap' = waitingMap
    BY <2>1, RequestsUnchanged, WaitingUnchanged
  <2>3. Query!Tick
    BY <2>1, <2>2 DEF Query!Tick, requestsMap, waitingMap
  <2> QED
    BY <2>3 DEF Query!ServiceNext
<1>3. CASE (\E u \in ProofUrl : ServePut(u) \/ OthersPut(u)) \/ UNCHANGED vars
  <2>1. proof_requests' = proof_requests /\ call' = call /\ clock' = clock
    BY <1>3 DEF ServePut, OthersPut, vars, store
  <2> QED
    BY <2>1, RequestsUnchanged, WaitingUnchanged
    DEF Query!queryVars, requestsMap, waitingMap
<1> QED
  BY <1>1, <1>2, <1>3, ArriveShows, ResumeShows DEF Next

(* Queries may take the handlers for atomic steps: whatever calls wait,    *)
(* upload, fail or are dropped, what a query can see changes as in         *)
(* ProofQuery.                                                             *)
THEOREM ShowsAsQueries == Spec => ImplementsQueries
<1>1. QueryMapInv /\ [Next]_vars => [Query!ServiceNext]_(Query!queryVars)
  BY ServiceStepShows
<1> QED
  BY <1>1, InitQuery, QueryMapInvariant, PTL
  DEF Spec, ImplementsQueries, Query!QuerySpec

============================================================================
