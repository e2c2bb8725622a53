--------------------- MODULE ProverNetworkSafetyProofs ---------------------
(***************************************************************************)
(* What ProverNetwork keeps true of its entries, programs and proofs, for  *)
(* any sets of calls, requests, URLs, programs and signers.                *)
(***************************************************************************)
EXTENDS ProverNetworkProofs

USE DEF Optional

---------------------------------------------------------------------------
(* The steps that write an entry *)

Inserts(c, i) ==
  /\ InsertRequest(c)
  /\ i = call[c].id
  /\ NewEntry(call[c]) \in Entry
  /\ proof_requests'[i] = NewEntry(call[c])

Fulfills(c, i) ==
  /\ FinishFulfill(c)
  /\ i = call[c].id
  /\ proof_requests[i] \in Entry
  /\ call[c].addr \in Addr /\ call[c].url \in ProofUrl
  /\ proof_requests'[i] = FulfilledEntry(proof_requests[i], call[c], clock)
  /\ proof_requests'[i] \in Entry

Fails(c, i) ==
  /\ ApplyFail(c)
  /\ i = call[c].id
  /\ proof_requests[i] \in Entry
  /\ call[c] \in Frame
  /\ proof_requests'[i] = FailedEntry(proof_requests[i], call[c], clock)
  /\ proof_requests'[i] \in Entry

(* A step leaves an entry alone unless it inserts, fulfils or fails it. *)
LEMMA EntrySteps ==
  ASSUME CallsInv, DataTypeOK, [Next]_vars, NEW i \in RequestId
  PROVE  \/ proof_requests'[i] = proof_requests[i]
         \/ \E c \in Call : Inserts(c, i) \/ Fulfills(c, i) \/ Fails(c, i)
<1> USE DEF DataTypeOK
<1>1. ASSUME NEW c \in Call, InsertRequest(c), proof_requests'[i] # proof_requests[i]
      PROVE  Inserts(c, i)
  BY <1>1, InsertRequestWrites DEF Inserts
<1>2. ASSUME NEW c \in Call, FinishFulfill(c), proof_requests'[i] # proof_requests[i]
      PROVE  Fulfills(c, i)
  BY <1>2, FinishFulfillWrites DEF Fulfills
<1>3. ASSUME NEW c \in Call, ApplyFail(c), proof_requests'[i] # proof_requests[i]
      PROVE  Fails(c, i)
  BY <1>3, ApplyFailWrites DEF Fails
<1>4. ASSUME NEW c \in Call, Arrive(c) \/ UploadFails(c) \/ Cancel(c)
      PROVE  proof_requests' = proof_requests
  BY <1>4
  DEF Arrive, RequestProof, CreateProgram, GetProgram, FulfillProof,
      FailFulfillment, GetProofRequestStatus, ReadRequest, ReadRequests,
      AwaitPrograms, AwaitRequests, UploadFails, Cancel, store
<1>5. ASSUME NEW c \in Call, Resume(c), ~InsertRequest(c), ~FinishFulfill(c),
             ~ApplyFail(c)
      PROVE  proof_requests' = proof_requests
  BY <1>5
  DEF Resume, LookupProgram, InsertProgram, ReadProgram, BeginUpload,
      UploadRefused, LogRefusal, RequestNotFound, ReadStatus, AnswerRequests, store
<1>6. ASSUME (\E u \in ProofUrl : ServePut(u) \/ OthersPut(u)) \/ Tick \/ UNCHANGED vars
      PROVE  proof_requests' = proof_requests
  BY <1>6 DEF ServePut, OthersPut, Tick, vars, store
<1> QED
  BY <1>1, <1>2, <1>3, <1>4, <1>5, <1>6 DEF Next

---------------------------------------------------------------------------
(* The two records of an entry *)

EntriesOK == RecordsAgree /\ EvidenceConsistent

LEMMA NewEntryOK ==
  ASSUME NEW f
  PROVE  RecordsOf(NewEntry(f)) /\ EvidenceOf(NewEntry(f))
BY DEF NewEntry, RecordsOf, EvidenceOf

LEMMA FulfilledEntryOK ==
  ASSUME NEW e \in Entry, NEW f, f.url \in ProofUrl, NEW now \in Nat
  PROVE  RecordsOf(FulfilledEntry(e, f, now)) /\ EvidenceOf(FulfilledEntry(e, f, now))
BY ConstantsAssumption
DEF FulfilledEntry, RecordsOf, EvidenceOf, Entry, ProofRequest, StatusResponse

LEMMA FailedEntryOK ==
  ASSUME NEW e \in Entry, RecordsOf(e), EvidenceOf(e), NEW f, NEW now
  PROVE  RecordsOf(FailedEntry(e, f, now)) /\ EvidenceOf(FailedEntry(e, f, now))
BY DEF FailedEntry, RecordsOf, EvidenceOf, Entry, ProofRequest, StatusResponse

LEMMA ProofUriType ==
  ASSUME NEW e \in Entry
  PROVE  e.status.proof_uri \in Optional(ProofUrl)
BY DEF Entry, StatusResponse

LEMMA FulfilledUri ==
  ASSUME NEW e \in Entry, NEW f, NEW now
  PROVE  FulfilledEntry(e, f, now).status.proof_uri = f.url
BY DEF FulfilledEntry, Entry, StatusResponse

LEMMA FailedUri ==
  ASSUME NEW e \in Entry, NEW f, NEW now
  PROVE  FailedEntry(e, f, now).status.proof_uri = e.status.proof_uri
BY DEF FailedEntry, Entry, StatusResponse

LEMMA EntriesOKInvariant == Spec => []EntriesOK
<1>1. Init => EntriesOK
  BY DEF Init, EntriesOK, RecordsAgree, EvidenceConsistent, Stored
<1>2. CallsInv /\ DataTypeOK /\ EntriesOK /\ [Next]_vars => EntriesOK'
  <2> SUFFICES ASSUME CallsInv, DataTypeOK, EntriesOK, [Next]_vars,
                      NEW i \in RequestId, proof_requests'[i] # Nil
               PROVE  RecordsOf(proof_requests'[i]) /\ EvidenceOf(proof_requests'[i])
    BY DEF EntriesOK, RecordsAgree, EvidenceConsistent, Stored
  <2>1. clock \in Nat
    BY DEF DataTypeOK
  <2>2. CASE proof_requests'[i] = proof_requests[i]
    BY <2>2 DEF EntriesOK, RecordsAgree, EvidenceConsistent, Stored
  <2>3. ASSUME NEW c \in Call, Inserts(c, i)
        PROVE  RecordsOf(proof_requests'[i]) /\ EvidenceOf(proof_requests'[i])
    BY <2>3, NewEntryOK DEF Inserts
  <2>4. ASSUME NEW c \in Call, Fulfills(c, i)
        PROVE  RecordsOf(proof_requests'[i]) /\ EvidenceOf(proof_requests'[i])
    BY <2>1, <2>4, FulfilledEntryOK DEF Fulfills
  <2>5. ASSUME NEW c \in Call, Fails(c, i)
        PROVE  RecordsOf(proof_requests'[i]) /\ EvidenceOf(proof_requests'[i])
    BY <2>5, FailedEntryOK, NilAssumption
    DEF Fails, EntriesOK, RecordsAgree, EvidenceConsistent, Stored
  <2> QED
    BY <2>2, <2>3, <2>4, <2>5, EntrySteps
<1> QED
  BY <1>1, <1>2, Typed, PTL DEF Spec

(* The two records of an entry never disagree, whatever calls were made,   *)
(* failed or dropped.                                                      *)
THEOREM RecordsAlwaysAgree == Spec => []RecordsAgree
<1>1. EntriesOK => RecordsAgree
  BY DEF EntriesOK
<1> QED
  BY <1>1, EntriesOKInvariant, PTL

(* What a status claims is backed by the rest of the entry.                *)
THEOREM EvidenceAlwaysConsistent == Spec => []EvidenceConsistent
<1>1. EntriesOK => EvidenceConsistent
  BY DEF EntriesOK
<1> QED
  BY <1>1, EntriesOKInvariant, PTL

---------------------------------------------------------------------------
(* Programs and answers *)

(* Only create_program writes the programs map. *)
LEMMA ProgramSteps ==
  ASSUME [Next]_vars
  PROVE  programs' = programs \/ \E c \in Call : InsertProgram(c)
<1>1. ASSUME NEW c \in Call, Resume(c), ~InsertProgram(c)
      PROVE  programs' = programs
  BY <1>1
  DEF Resume, LookupProgram, InsertRequest, ReadProgram, BeginUpload,
      FinishFulfill, UploadRefused, LogRefusal, ApplyFail, RequestNotFound,
      ReadStatus, AnswerRequests, store
<1>2. ASSUME NEW c \in Call, UploadFails(c) \/ Cancel(c)
      PROVE  programs' = programs
  BY <1>2 DEF UploadFails, Cancel, store
<1>3. ASSUME (\E u \in ProofUrl : ServePut(u) \/ OthersPut(u)) \/ Tick \/ UNCHANGED vars
      PROVE  programs' = programs
  BY <1>3 DEF ServePut, OthersPut, Tick, vars, store
<1> QED
  BY <1>1, <1>2, <1>3, ArriveData DEF Next

(* No create_program comes between the lookup of a request_proof call and  *)
(* its insert.                                                             *)
THEOREM LookupAlwaysCurrent == Spec => []LookupStaysCurrent
<1>1. Init => LookupStaysCurrent
  BY DEF Init, LookupStaysCurrent, HoldsLookup
<1>2. CallsInv /\ DataTypeOK /\ LookupStaysCurrent /\ [Next]_vars
        => LookupStaysCurrent'
  <2> SUFFICES ASSUME CallsInv, DataTypeOK, LookupStaysCurrent, [Next]_vars,
                      NEW c \in Call, HoldsLookup(c)'
               PROVE  call'[c].program_uri = programs'[call'[c].vk_hash]
    BY DEF LookupStaysCurrent
  <2> USE DEF CallsInv, CallsTypeOK
  <2>1. CASE LookupProgram(c)
    <3>1. /\ programs' = programs
          /\ call' = [call EXCEPT ![c].program_uri = programs[call[c].vk_hash]]
      BY <2>1 DEF LookupProgram, store
    <3> QED
      BY <3>1 DEF Frame
  <2>2. CASE ~LookupProgram(c)
    <3>1. HoldsLookup(c) /\ call'[c] = call[c]
      <4>1. ~Arrive(c)
        BY ArriveAwaits DEF Arrives, AwaitPrograms, AwaitRequests, HoldsLookup
      <4>2. ~Resume(c)
        BY <2>2
        DEF Resume, InsertRequest, InsertProgram, ReadProgram, BeginUpload,
            FinishFulfill, UploadRefused, LogRefusal, ApplyFail, RequestNotFound,
            ReadStatus, AnswerRequests, Return, ReturnFromPrograms,
            ReturnFromRequests, HoldsLookup
      <4> QED
        BY <4>1, <4>2, CallSteps DEF HoldsLookup
    <3>2. ASSUME NEW d \in Call, InsertProgram(d) PROVE FALSE
      BY <3>1, <3>2 DEF InsertProgram, HasPrograms, GuardsMatchProgress, HoldsLookup
    <3>3. programs' = programs
      BY <3>2, ProgramSteps
    <3> QED
      BY <3>1, <3>3 DEF LookupStaysCurrent
  <2> QED
    BY <2>1, <2>2
<1> QED
  BY <1>1, <1>2, Typed, PTL DEF Spec

(* A request id given to a client is known from then on.                   *)
THEOREM AckedAlwaysKnown == Spec => []AckedRequestsKnown
<1>1. Init => AckedRequestsKnown
  BY DEF Init, AckedRequestsKnown
<1>2. CallsInv /\ DataTypeOK /\ AckedRequestsKnown /\ [Next]_vars
        => AckedRequestsKnown'
  <2> SUFFICES ASSUME CallsInv, DataTypeOK, AckedRequestsKnown, [Next]_vars
               PROVE  acked' \subseteq Stored'
    BY DEF AckedRequestsKnown
  <2>1. Stored \subseteq Stored'
    BY NextTyped
  <2>2. ASSUME NEW c \in Call, InsertRequest(c)
        PROVE  acked' = acked \cup {call[c].id} /\ call[c].id \in Stored'
    <3>1. call[c].id \in Stored'
      BY <2>2, InsertRequestWrites, WriteEntry DEF DataTypeOK
    <3> QED
      BY <2>2, <3>1 DEF InsertRequest
  <2>3. ASSUME ~(\E c \in Call : InsertRequest(c))
        PROVE  acked' = acked
    <3>1. ASSUME NEW c \in Call, Resume(c) PROVE acked' = acked
      BY <2>3, <3>1
      DEF Resume, LookupProgram, InsertProgram, ReadProgram, BeginUpload,
          FinishFulfill, UploadRefused, LogRefusal, ApplyFail, RequestNotFound,
          ReadStatus, AnswerRequests, history
    <3>2. ASSUME NEW c \in Call, UploadFails(c) \/ Cancel(c) PROVE acked' = acked
      BY <3>2 DEF UploadFails, Cancel, history
    <3>3. ASSUME (\E u \in ProofUrl : ServePut(u) \/ OthersPut(u)) \/ Tick \/ UNCHANGED vars
          PROVE  acked' = acked
      BY <3>3 DEF ServePut, OthersPut, Tick, vars, history
    <3> QED
      BY <3>1, <3>2, <3>3, ArriveData DEF Next
  <2> QED
    BY <2>1, <2>2, <2>3 DEF AckedRequestsKnown
<1> QED
  BY <1>1, <1>2, Typed, PTL DEF Spec

---------------------------------------------------------------------------
(* Proofs in the artifact store *)

(* A PUT of a proof stores its own key, and nothing but a PUT of a client  *)
(* that was told the URL replaces it; the proof of a request was stored    *)
(* where its URI points.                                                   *)
Holds(u, i) == conn[u].state = "stored" /\ conn[u].body = i

PutsOK ==
  \A u \in ProofUrl :
    conn[u].state # "closed" =>
      /\ conn[u].key = u /\ conn[u].body \in RequestId
      /\ conn[u].state = "stored" =>
           storage[u] = conn[u].body \/ (storage[u] = Foreign /\ Told(u))

UploadsOK ==
  \A c \in Call : WorksOnRequests(c) =>
    conn[call[c].url].state # "closed" /\ conn[call[c].url].body = call[c].id

ProofsOK ==
  /\ \A i \in Stored :
       LET u == proof_requests[i].status.proof_uri IN u # Nil => Holds(u, i)
  /\ \A i \in RequestId : \A u \in told[i] : Holds(u, i)

ArtifactsInv == PutsOK /\ UploadsOK /\ ProofsOK

(* Only get_proof_request_status tells a client a proof URI. *)
LEMMA ToldSteps ==
  ASSUME [Next]_vars
  PROVE  told' = told \/ \E c \in Call : ReadStatus(c)
<1>1. ASSUME NEW c \in Call, Resume(c), ~ReadStatus(c)
      PROVE  told' = told
  BY <1>1
  DEF Resume, LookupProgram, InsertRequest, InsertProgram, ReadProgram,
      BeginUpload, FinishFulfill, UploadRefused, LogRefusal, ApplyFail,
      RequestNotFound, AnswerRequests, history
<1>2. ASSUME NEW c \in Call, UploadFails(c) \/ Cancel(c)
      PROVE  told' = told
  BY <1>2 DEF UploadFails, Cancel, history
<1>3. ASSUME (\E u \in ProofUrl : ServePut(u) \/ OthersPut(u)) \/ Tick \/ UNCHANGED vars
      PROVE  told' = told
  BY <1>3 DEF ServePut, OthersPut, Tick, vars, history
<1> QED
  BY <1>1, <1>2, <1>3, ArriveData DEF Next

(* What a client was told is not taken back. *)
LEMMA ToldGrows ==
  ASSUME DataTypeOK, [Next]_vars, NEW u, Told(u)
  PROVE  Told(u)'
<1>1. ASSUME NEW c \in Call, ReadStatus(c)
      PROVE  \A i \in RequestId : told[i] \subseteq told'[i]
  BY <1>1 DEF ReadStatus, DataTypeOK
<1> QED
  BY <1>1, ToldSteps DEF Told

(* The artifact store changes when an upload begins, a PUT of a proof is   *)
(* served or another client PUTs.                                          *)
LEMMA HttpSteps ==
  ASSUME CallsInv, DataTypeOK, [Next]_vars
  PROVE  \/ \E c \in Call : BeginUpload(c)
         \/ \E u \in ProofUrl : ServePut(u) \/ OthersPut(u)
         \/ UNCHANGED <<storage, conn>>
<1>1. ASSUME NEW c \in Call, Resume(c), ~BeginUpload(c)
      PROVE  UNCHANGED <<storage, conn>>
  BY <1>1
  DEF Resume, LookupProgram, InsertRequest, InsertProgram, ReadProgram,
      FinishFulfill, UploadRefused, LogRefusal, ApplyFail, RequestNotFound,
      ReadStatus, AnswerRequests, http
<1>2. ASSUME NEW c \in Call, UploadFails(c) \/ Cancel(c)
      PROVE  UNCHANGED <<storage, conn>>
  BY <1>2 DEF UploadFails, Cancel, http
<1>3. CASE Tick \/ UNCHANGED vars
  BY <1>3 DEF Tick, vars, http
<1> QED
  BY <1>1, <1>2, <1>3, ArriveData DEF Next

LEMMA BeginUploadSends ==
  ASSUME CallsInv, DataTypeOK, NEW c \in Call, BeginUpload(c)
  PROVE  /\ call[c].url \in ProofUrl /\ call[c].id \in RequestId
         /\ conn[call[c].url].state = "closed"
         /\ storage' = storage
         /\ conn' = [conn EXCEPT ![call[c].url] =
              [state |-> "sent", key |-> call[c].url, body |-> call[c].id]]
         /\ call' = call
         /\ pc' = [pc EXCEPT ![c] = "upload"]
BY DEF BeginUpload, HasRequests, Http!Send, CallsInv, FramesMatchProgress, Filled

LEMMA ServePutStores ==
  ASSUME DataTypeOK, PutsOK, NEW u \in ProofUrl, ServePut(u)
  PROVE  /\ conn[u].state = "sent"
         /\ conn' \in { [conn EXCEPT ![u].state = "stored"],
                       [conn EXCEPT ![u].state = "rejected"] }
         /\ conn'[u].state = "stored" => storage' = [storage EXCEPT ![u] = conn[u].body]
         /\ conn'[u].state # "stored" => storage' = storage
         /\ UNCHANGED <<pc, call, proof_requests, told>>
<1>1. conn[u].state = "sent"
  BY DEF ServePut, Http!UploadArtifact, Http!RejectUpload
<1>2. conn[u].key = u
  BY <1>1 DEF PutsOK
<1>3. UNCHANGED <<pc, call, proof_requests, told>>
  BY DEF ServePut, store, history
<1>4. CASE Http!UploadArtifact(u)
  <2>1. /\ storage' = [storage EXCEPT ![u] = conn[u].body]
        /\ conn' = [conn EXCEPT ![u].state = "stored"]
    BY <1>2, <1>4 DEF Http!UploadArtifact
  <2>2. conn'[u].state = "stored"
    BY <2>1 DEF DataTypeOK, Http!TypeOK
  <2> QED
    BY <1>1, <1>3, <2>1, <2>2
<1>5. CASE Http!RejectUpload(u)
  <2>1. storage' = storage /\ conn' = [conn EXCEPT ![u].state = "rejected"]
    BY <1>5 DEF Http!RejectUpload
  <2>2. conn'[u].state = "rejected"
    BY <2>1 DEF DataTypeOK, Http!TypeOK
  <2> QED
    BY <1>1, <1>3, <2>1, <2>2
<1> QED
  BY <1>4, <1>5 DEF ServePut

LEMMA OthersPutReplaces ==
  ASSUME NEW u \in ProofUrl, OthersPut(u)
  PROVE  /\ Told(u)
         /\ storage' = [storage EXCEPT ![u] = Foreign]
         /\ UNCHANGED <<conn, pc, call, proof_requests, told>>
BY DEF OthersPut, Http!Put, store, history

(* A PUT that was stored stays answered so. *)
LEMMA HoldsStable ==
  ASSUME CallsInv, DataTypeOK, PutsOK, [Next]_vars,
         NEW u \in ProofUrl, NEW i \in RequestId, Holds(u, i)
  PROVE  Holds(u, i)'
<1> USE DEF Holds
<1>1. ASSUME NEW c \in Call, BeginUpload(c) PROVE Holds(u, i)'
  BY <1>1, BeginUploadSends DEF DataTypeOK, Http!TypeOK
<1>2. ASSUME NEW v \in ProofUrl, ServePut(v) PROVE Holds(u, i)'
  BY <1>2, ServePutStores DEF DataTypeOK, Http!TypeOK
<1>3. ASSUME NEW v \in ProofUrl, OthersPut(v) PROVE Holds(u, i)'
  BY <1>3, OthersPutReplaces
<1> QED
  BY <1>1, <1>2, <1>3, HttpSteps

LEMMA PutsStep ==
  ASSUME CallsInv, DataTypeOK, PutsOK, [Next]_vars
  PROVE  PutsOK'
<1>0. \A u \in ProofUrl : Told(u) => Told(u)'
  BY ToldGrows
<1>1. ASSUME NEW c \in Call, BeginUpload(c) PROVE PutsOK'
  <2>1. \A u \in ProofUrl : u # call[c].url => conn'[u] = conn[u]
    BY <1>1, BeginUploadSends DEF DataTypeOK, Http!TypeOK
  <2>2. conn'[call[c].url] =
          [state |-> "sent", key |-> call[c].url, body |-> call[c].id]
    BY <1>1, BeginUploadSends DEF DataTypeOK, Http!TypeOK
  <2>3. storage' = storage /\ call[c].id \in RequestId
    BY <1>1, BeginUploadSends
  <2> QED
    BY <1>0, <2>1, <2>2, <2>3 DEF PutsOK
<1>2. ASSUME NEW v \in ProofUrl, ServePut(v) PROVE PutsOK'
  <2> SUFFICES ASSUME NEW u \in ProofUrl, conn'[u].state # "closed"
               PROVE  /\ conn'[u].key = u /\ conn'[u].body \in RequestId
                      /\ conn'[u].state = "stored" =>
                           \/ storage'[u] = conn'[u].body
                           \/ storage'[u] = Foreign /\ Told(u)'
    BY DEF PutsOK
  <2>1. CASE u = v
    BY <1>2, <2>1, ServePutStores DEF PutsOK, DataTypeOK, Http!TypeOK
  <2>2. CASE u # v
    <3>1. conn'[u] = conn[u]
      BY <1>2, <2>2, ServePutStores DEF DataTypeOK, Http!TypeOK
    <3>2. storage'[u] = storage[u]
      BY <1>2, <2>2, ServePutStores DEF DataTypeOK, Http!TypeOK
    <3> QED
      BY <1>0, <3>1, <3>2 DEF PutsOK
  <2> QED
    BY <2>1, <2>2
<1>3. ASSUME NEW v \in ProofUrl, OthersPut(v) PROVE PutsOK'
  <2>1. /\ conn' = conn /\ Told(v)'
        /\ \A u \in ProofUrl : storage'[u] = IF u = v THEN Foreign ELSE storage[u]
    BY <1>0, <1>3, OthersPutReplaces DEF DataTypeOK, Http!TypeOK
  <2> QED
    BY <1>0, <2>1 DEF PutsOK
<1>4. CASE UNCHANGED <<storage, conn>>
  BY <1>0, <1>4 DEF PutsOK
<1> QED
  BY <1>1, <1>2, <1>3, <1>4, HttpSteps

(* A working call keeps its frame until it returns. *)
LEMMA WorkingSteps ==
  ASSUME CallsInv, DataTypeOK, [Next]_vars, NEW c \in Call, WorksOnRequests(c)'
  PROVE  BeginUpload(c) \/ (WorksOnRequests(c) /\ call'[c] = call[c])
<1> USE DEF CallsInv, CallsTypeOK, WorksOnRequests
<1>1. ~Arrive(c)
  BY ArriveAwaits DEF Arrives, AwaitPrograms, AwaitRequests
<1>2. ASSUME Resume(c), ~BeginUpload(c)
      PROVE  WorksOnRequests(c) /\ call'[c] = call[c]
  BY <1>2
  DEF Resume, LookupProgram, InsertRequest, InsertProgram, ReadProgram,
      FinishFulfill, UploadRefused, LogRefusal, ApplyFail, RequestNotFound,
      ReadStatus, AnswerRequests, Return, ReturnFromPrograms, ReturnFromRequests
<1> QED
  BY <1>1, <1>2, CallSteps

LEMMA UploadsStep ==
  ASSUME CallsInv, DataTypeOK, PutsOK, UploadsOK, [Next]_vars
  PROVE  UploadsOK'
<1> SUFFICES ASSUME NEW c \in Call, WorksOnRequests(c)'
             PROVE  /\ conn'[call'[c].url].state # "closed"
                    /\ conn'[call'[c].url].body = call'[c].id
  BY DEF UploadsOK
<1>1. CASE BeginUpload(c)
  <2>1. call' = call /\ conn'[call[c].url] =
          [state |-> "sent", key |-> call[c].url, body |-> call[c].id]
    BY <1>1, BeginUploadSends DEF DataTypeOK, Http!TypeOK
  <2> QED
    BY <2>1
<1>2. CASE WorksOnRequests(c) /\ call'[c] = call[c]
  <2> DEFINE u == call[c].url
  <2>1. /\ u \in ProofUrl /\ conn[u].state # "closed"
        /\ conn[u].body = call[c].id
    BY <1>2 DEF CallsInv, FramesMatchProgress, Filled, UploadsOK
  <2> HIDE DEF u
  <2>2. conn'[u].state # "closed" /\ conn'[u].body = conn[u].body
    <3>1. ASSUME NEW d \in Call, BeginUpload(d)
          PROVE  conn'[u] = conn[u]
      BY <2>1, <3>1, BeginUploadSends DEF DataTypeOK, Http!TypeOK
    <3>2. ASSUME NEW v \in ProofUrl, ServePut(v)
          PROVE  conn'[u].state # "closed" /\ conn'[u].body = conn[u].body
      BY <2>1, <3>2, ServePutStores DEF DataTypeOK, Http!TypeOK
    <3>3. ASSUME NEW v \in ProofUrl, OthersPut(v)
          PROVE  conn'[u] = conn[u]
      BY <3>3, OthersPutReplaces
    <3> QED
      BY <2>1, <3>1, <3>2, <3>3, HttpSteps
  <2> QED
    BY <1>2, <2>1, <2>2 DEF u
<1> QED
  BY <1>1, <1>2, WorkingSteps

LEMMA ProofsStep ==
  ASSUME CallsInv, DataTypeOK, PutsOK, UploadsOK, ProofsOK, [Next]_vars
  PROVE  ProofsOK'
<1>1. ASSUME NEW i \in RequestId, NEW u \in ProofUrl, proof_requests'[i] # Nil,
             proof_requests'[i].status.proof_uri = u
      PROVE  Holds(u, i)'
  <2>1. ASSUME proof_requests[i] # Nil, proof_requests[i].status.proof_uri = u
        PROVE  Holds(u, i)
    BY <2>1, ConstantsAssumption DEF ProofsOK, Stored
  <2>2. ASSUME proof_requests'[i] = proof_requests[i] PROVE Holds(u, i)
    BY <1>1, <2>1, <2>2
  <2>3. ASSUME NEW c \in Call, Inserts(c, i) PROVE FALSE
    BY <1>1, <2>3, ConstantsAssumption DEF Inserts, NewEntry
  <2>4. ASSUME NEW c \in Call, Fulfills(c, i)
        PROVE  Holds(u, i)
    <3>1. u = call[c].url
      BY <1>1, <2>4, FulfilledUri DEF Fulfills
    <3>2. WorksOnRequests(c) /\ conn[u].state = "stored" /\ i = call[c].id
      BY <2>4, <3>1 DEF Fulfills, FinishFulfill, WorksOnRequests
    <3> QED
      BY <3>1, <3>2 DEF UploadsOK, Holds
  <2>5. ASSUME NEW c \in Call, Fails(c, i)
        PROVE  Holds(u, i)
    <3>1. /\ proof_requests'[i].status.proof_uri = proof_requests[i].status.proof_uri
          /\ proof_requests[i] # Nil
      BY <2>5, NilAssumption, FailedUri DEF Fails
    <3> QED
      BY <1>1, <2>1, <3>1
  <2>6. Holds(u, i)
    BY <2>2, <2>3, <2>4, <2>5, <1>1, <2>1, EntrySteps
  <2> QED
    BY <2>6, HoldsStable
<1>2. ASSUME NEW i \in RequestId, NEW u \in told'[i]
      PROVE  Holds(u, i)'
  <2>1. u \in ProofUrl
    BY NextTyped DEF DataTypeOK
  <2>2. ASSUME u \in told[i] PROVE Holds(u, i)'
    BY <2>1, <2>2, HoldsStable DEF ProofsOK
  <2>3. ASSUME u \notin told[i] PROVE Holds(u, i)
    <3>1. PICK c \in Call : ReadStatus(c)
      BY <2>3, ToldSteps
    <3>2. /\ i = call[c].id /\ i \in Stored
          /\ u = proof_requests[i].status.proof_uri /\ u # Nil
      BY <2>3, <3>1 DEF ReadStatus, DataTypeOK
    <3> QED
      BY <3>2 DEF ProofsOK
  <2> QED
    BY <2>1, <2>2, <2>3, HoldsStable
<1>3. DataTypeOK'
  BY NextTyped
<1>4. ASSUME NEW i \in RequestId, proof_requests'[i] # Nil,
             proof_requests'[i].status.proof_uri # Nil
      PROVE  proof_requests'[i].status.proof_uri \in ProofUrl
  BY <1>3, <1>4, ProofUriType DEF DataTypeOK
<1> QED
  BY <1>1, <1>2, <1>4 DEF ProofsOK, Stored, Holds

LEMMA ArtifactsInvariant == Spec => []ArtifactsInv
<1>1. Init => ArtifactsInv
  BY DEF Init, Http!Init, ArtifactsInv, PutsOK, UploadsOK, ProofsOK, Stored,
         WorksOnRequests
<1>2. CallsInv /\ DataTypeOK /\ ArtifactsInv /\ [Next]_vars => ArtifactsInv'
  BY PutsStep, UploadsStep, ProofsStep DEF ArtifactsInv
<1> QED
  BY <1>1, <1>2, Typed, PTL DEF Spec

LEMMA HoldsYields ==
  ASSUME PutsOK, NEW u \in ProofUrl, NEW i \in RequestId, Holds(u, i)
  PROVE  Yields(u, i)
BY DEF PutsOK, Holds, Yields, Http!Download

(* Whatever proof URI a status names, the artifact store has that request's *)
(* proof there, or what a client told the URI put in its place.             *)
THEOREM ProofAlwaysAvailable == Spec => []ProofAvailable
<1>1. DataTypeOK /\ ArtifactsInv => ProofAvailable
  <2> SUFFICES ASSUME DataTypeOK, ArtifactsInv, NEW i \in Stored,
                      proof_requests[i].status.proof_uri # Nil
               PROVE  Yields(proof_requests[i].status.proof_uri, i)
    BY DEF ProofAvailable
  <2>1. i \in RequestId /\ proof_requests[i] \in Entry
    BY DEF DataTypeOK, Stored
  <2>2. proof_requests[i].status.proof_uri \in ProofUrl
    BY <2>1, ProofUriType
  <2> QED
    BY <2>1, <2>2, HoldsYields DEF ArtifactsInv, ProofsOK
<1> QED
  BY <1>1, Typed, ArtifactsInvariant, PTL

(* A proof URI once returned to a client never answers 404 and never comes *)
(* to hold another request's proof, though every client told a URI may PUT *)
(* to it at any time.                                                      *)
THEOREM ToldProofsAlwaysDownloadable == Spec => []ToldProofsStayDownloadable
<1>1. DataTypeOK /\ ArtifactsInv => ToldProofsStayDownloadable
  BY HoldsYields
  DEF DataTypeOK, ArtifactsInv, ProofsOK, ToldProofsStayDownloadable
<1> QED
  BY <1>1, Typed, ArtifactsInvariant, PTL

---------------------------------------------------------------------------
(* Times *)

LEMMA NewEntryTimes ==
  ASSUME NEW f, f.now \in Nat, NEW now \in Nat, f.now <= now
  PROVE  TimesOf(NewEntry(f), now)
BY DEF NewEntry, TimesOf

LEMMA EntryTimesType ==
  ASSUME NEW e \in Entry
  PROVE  /\ e.request.created_at \in Nat
         /\ e.request.updated_at \in Nat
         /\ e.request.fulfilled_at # Nil => e.request.fulfilled_at \in Nat
BY DEF Entry, ProofRequest

LEMMA FulfilledEntryTimes ==
  ASSUME NEW e \in Entry, NEW now \in Nat, TimesOf(e, now), NEW f
  PROVE  TimesOf(FulfilledEntry(e, f, now), now)
<1> DEFINE g == FulfilledEntry(e, f, now)
<1>1. /\ g.request.created_at = e.request.created_at
      /\ g.request.updated_at = now
      /\ g.request.fulfilled_at = now
  BY DEF FulfilledEntry, Entry, ProofRequest
<1>2. e.request.created_at <= now
  BY EntryTimesType DEF TimesOf
<1> QED
  BY <1>1, <1>2 DEF TimesOf

LEMMA FailedEntryTimes ==
  ASSUME NEW e \in Entry, NEW now \in Nat, TimesOf(e, now), NEW f
  PROVE  TimesOf(FailedEntry(e, f, now), now)
<1> DEFINE g == FailedEntry(e, f, now)
<1>1. /\ g.request.created_at = e.request.created_at
      /\ g.request.updated_at = now
      /\ g.request.fulfilled_at = e.request.fulfilled_at
  BY DEF FailedEntry, Entry, ProofRequest
<1>2. /\ e.request.created_at <= now
      /\ e.request.fulfilled_at # Nil =>
           /\ e.request.created_at <= e.request.fulfilled_at
           /\ e.request.fulfilled_at <= now
  BY EntryTimesType DEF TimesOf
<1> QED
  BY <1>1, <1>2 DEF TimesOf

LEMMA LaterTimes ==
  ASSUME NEW e \in Entry, NEW now \in Nat, TimesOf(e, now),
         NEW later \in Nat, now <= later
  PROVE  TimesOf(e, later)
BY DEF TimesOf, Entry, ProofRequest

(* No call remembers a time that has not come. *)
FramesPast == \A c \in Call : call[c].now <= clock

TimesInv == FramesPast /\ TimestampsOrdered

LEMMA ClockSteps ==
  ASSUME CallsInv, DataTypeOK, [Next]_vars
  PROVE  /\ clock \in Nat /\ clock' \in Nat /\ clock <= clock'
         /\ \A c \in Call : Arrive(c) \/ Resume(c) => clock' = clock
<1>1. clock \in Nat /\ clock' \in Nat
  BY NextTyped DEF DataTypeOK
<1>2. \A c \in Call : Arrive(c) => clock' = clock
  BY ArriveData
<1>3. ASSUME NEW c \in Call, Resume(c)
      PROVE  clock' = clock
  BY <1>3
  DEF Resume, LookupProgram, InsertRequest, InsertProgram, ReadProgram,
      BeginUpload, FinishFulfill, UploadRefused, LogRefusal, ApplyFail,
      RequestNotFound, ReadStatus, AnswerRequests
<1>4. ASSUME NEW c \in Call, UploadFails(c) \/ Cancel(c)
      PROVE  clock' = clock
  BY <1>4 DEF UploadFails, Cancel
<1>5. ASSUME (\E u \in ProofUrl : ServePut(u) \/ OthersPut(u)) \/ UNCHANGED vars
      PROVE  clock' = clock
  BY <1>5 DEF ServePut, OthersPut, vars
<1>6. CASE Tick
  BY <1>1, <1>2, <1>3, <1>6 DEF Tick
<1> QED
  BY <1>1, <1>2, <1>3, <1>4, <1>5, <1>6 DEF Next

(* While its call runs, only the program of a frame changes. *)
LEMMA FrameSteps ==
  ASSUME CallsInv, DataTypeOK, [Next]_vars, NEW c \in Call
  PROVE  \/ Arrive(c)
         \/ call'[c] = NoFrame
         \/ /\ call'[c].method = call[c].method
            /\ call'[c].id = call[c].id /\ call'[c].addr = call[c].addr
            /\ call'[c].vk_hash = call[c].vk_hash
            /\ call'[c].now = call[c].now
<1> USE DEF CallsInv, CallsTypeOK
<1>1. ASSUME LookupProgram(c)
      PROVE  /\ call'[c].method = call[c].method
             /\ call'[c].id = call[c].id /\ call'[c].addr = call[c].addr
             /\ call'[c].vk_hash = call[c].vk_hash
             /\ call'[c].now = call[c].now
  BY <1>1 DEF LookupProgram, Frame
<1>2. ASSUME Resume(c), ~LookupProgram(c)
      PROVE  call'[c] = NoFrame \/ call'[c] = call[c]
  BY <1>2
  DEF Resume, InsertRequest, InsertProgram, ReadProgram, BeginUpload,
      FinishFulfill, UploadRefused, LogRefusal, ApplyFail, RequestNotFound,
      ReadStatus, AnswerRequests, Return, ReturnFromPrograms, ReturnFromRequests
<1> QED
  BY <1>1, <1>2, CallSteps

LEMMA FramesPastStep ==
  ASSUME CallsInv, DataTypeOK, FramesPast, [Next]_vars
  PROVE  FramesPast'
<1> SUFFICES ASSUME NEW c \in Call PROVE call'[c].now <= clock'
  BY DEF FramesPast
<1>1. CASE Arrive(c)
  <2>1. PICK frame \in Frame : Arrives(c, frame)
    BY <1>1, ArriveAwaits
  <2>2. call'[c] = frame
    BY <2>1 DEF Arrives, AwaitPrograms, AwaitRequests, CallsInv, CallsTypeOK
  <2> QED
    BY <1>1, <2>1, <2>2, ClockSteps DEF Arrives
<1>2. CASE call'[c] = NoFrame
  BY <1>2, ClockSteps DEF NoFrame
<1>3. CASE call'[c].now = call[c].now
  <2>1. call[c].now \in Nat /\ call[c].now <= clock
    BY DEF FramesPast, CallsInv, CallsTypeOK, Frame
  <2> QED
    BY <1>3, <2>1, ClockSteps
<1> QED
  BY <1>1, <1>2, <1>3, FrameSteps

LEMMA TimesStep ==
  ASSUME CallsInv, DataTypeOK, TimesInv, [Next]_vars
  PROVE  TimestampsOrdered'
<1> SUFFICES ASSUME NEW i \in RequestId, proof_requests'[i] # Nil
             PROVE  TimesOf(proof_requests'[i], clock')
  BY DEF TimestampsOrdered, Stored, TimesOf
<1>1. clock \in Nat /\ clock' \in Nat /\ clock <= clock'
  BY ClockSteps
<1>2. CASE proof_requests'[i] = proof_requests[i]
  BY <1>1, <1>2, LaterTimes DEF TimesInv, TimestampsOrdered, Stored, DataTypeOK
<1>3. ASSUME NEW c \in Call, Inserts(c, i)
      PROVE  TimesOf(proof_requests'[i], clock')
  <2>1. call[c].now \in Nat /\ call[c].now <= clock /\ clock' = clock
    BY <1>3, ClockSteps
    DEF Inserts, Resume, TimesInv, FramesPast, CallsInv, CallsTypeOK, Frame
  <2> QED
    BY <1>1, <1>3, <2>1, NewEntryTimes DEF Inserts
<1>4. ASSUME NEW c \in Call, Fulfills(c, i) \/ Fails(c, i)
      PROVE  TimesOf(proof_requests'[i], clock')
  <2>1. clock' = clock
    BY <1>4, ClockSteps DEF Fulfills, Fails, Resume
  <2>2. proof_requests[i] \in Entry /\ TimesOf(proof_requests[i], clock)
    BY <1>4, NilAssumption
    DEF Fulfills, Fails, TimesInv, TimestampsOrdered, Stored
  <2> QED
    BY <1>1, <1>4, <2>1, <2>2, FulfilledEntryTimes, FailedEntryTimes
    DEF Fulfills, Fails
<1> QED
  BY <1>2, <1>3, <1>4, EntrySteps

LEMMA TimesInvariant == Spec => []TimesInv
<1>1. Init => TimesInv
  BY DEF Init, TimesInv, FramesPast, TimestampsOrdered, Stored, NoFrame
<1>2. CallsInv /\ DataTypeOK /\ TimesInv /\ [Next]_vars => TimesInv'
  BY FramesPastStep, TimesStep DEF TimesInv
<1> QED
  BY <1>1, <1>2, Typed, PTL DEF Spec

(* Creation, fulfilment and last update are in order and not in the future. *)
THEOREM TimestampsAlwaysOrdered == Spec => []TimestampsOrdered
<1>1. TimesInv => TimestampsOrdered
  BY DEF TimesInv
<1> QED
  BY <1>1, TimesInvariant, PTL

---------------------------------------------------------------------------
(* Entries stay *)

(* Two calls never open the same request, nor one that is there already.   *)
OpensFresh ==
  \A c \in Call : call[c].method = "request_proof" =>
    /\ call[c].id \notin Stored
    /\ \A d \in Call \ {c} :
         call[d].method = "request_proof" => call[d].id # call[c].id

(* A request that was not there was inserted. *)
LEMMA StoredSteps ==
  ASSUME CallsInv, DataTypeOK, [Next]_vars, NEW i \in Stored', i \notin Stored
  PROVE  \E c \in Call : Inserts(c, i)
<1>1. i \in RequestId /\ proof_requests'[i] # proof_requests[i]
  BY DEF Stored
<1>2. \A c \in Call : ~Fulfills(c, i) /\ ~Fails(c, i)
  BY <1>1, NilAssumption DEF Fulfills, Fails, Stored
<1> QED
  BY <1>1, <1>2, EntrySteps

LEMMA OpensFreshStep ==
  ASSUME CallsInv, DataTypeOK, OpensFresh, [Next]_vars
  PROVE  OpensFresh'
<1> USE DEF CallsInv, CallsTypeOK
<1>1. ASSUME NEW c \in Call, call'[c].method = "request_proof",
             NEW d \in Call, d # c
      PROVE  call'[d].method = "request_proof" => call'[d].id # call'[c].id
  <2>1. ASSUME NEW x \in Call, NEW y \in Call, x # y, Arrive(x),
               call'[x].method = "request_proof"
        PROVE  call'[y] = call[y] /\ call[y].id # call'[x].id
    <3>1. PICK frame \in Frame : Arrives(x, frame)
      BY <2>1, ArriveAwaits
    <3>2. call' = [call EXCEPT ![x] = frame]
      BY <3>1 DEF Arrives, AwaitPrograms, AwaitRequests
    <3>3. FreshId(frame.id)
      BY <2>1, <3>1, <3>2 DEF Arrives
    <3> QED
      BY <2>1, <3>2, <3>3 DEF FreshId
  <2>2. CASE Arrive(c)
    BY <1>1, <2>1, <2>2
  <2>3. CASE Arrive(d) /\ call'[d].method = "request_proof"
    BY <1>1, <2>1, <2>3
  <2>4. CASE ~Arrive(c) /\ ~Arrive(d)
    <3>1. call[c].method = "request_proof" /\ call'[c].id = call[c].id
      BY <1>1, <2>4, FrameSteps DEF NoFrame
    <3>2. call'[d].method = "request_proof" =>
            call[d].method = "request_proof" /\ call'[d].id = call[d].id
      BY <2>4, FrameSteps DEF NoFrame
    <3> QED
      BY <1>1, <3>1, <3>2 DEF OpensFresh
  <2> QED
    BY <2>2, <2>3, <2>4
<1>2. ASSUME NEW c \in Call, call'[c].method = "request_proof"
      PROVE  call'[c].id \notin Stored'
  <2>1. CASE Arrive(c)
    <3>1. PICK frame \in Frame : Arrives(c, frame)
      BY <2>1, ArriveAwaits
    <3>2. call'[c] = frame
      BY <3>1 DEF Arrives, AwaitPrograms, AwaitRequests
    <3>3. frame.id \notin Stored
      BY <1>2, <3>1, <3>2 DEF Arrives, FreshId
    <3>4. Stored' = Stored
      BY <2>1, ArriveData DEF Stored
    <3> QED
      BY <3>2, <3>3, <3>4
  <2>2. CASE ~Arrive(c)
    <3>1. call[c].method = "request_proof" /\ call'[c].id = call[c].id
      BY <1>2, <2>2, FrameSteps DEF NoFrame
    <3>2. ASSUME call[c].id \in Stored' PROVE FALSE
      <4>1. call[c].id \notin Stored
        BY <3>1 DEF OpensFresh
      <4>2. PICK d \in Call : Inserts(d, call[c].id)
        BY <3>2, <4>1, StoredSteps
      <4>3. d = c
        BY <3>1, <4>2 DEF Inserts, InsertRequest, HasRequests, OpensFresh
      <4>4. call'[c] = NoFrame
        BY <4>2, <4>3 DEF Inserts, InsertRequest, Return
      <4> QED
        BY <1>2, <4>4 DEF NoFrame
    <3> QED
      BY <3>1, <3>2
  <2> QED
    BY <2>1, <2>2
<1> QED
  BY <1>1, <1>2 DEF OpensFresh

LEMMA OpensFreshInvariant == Spec => []OpensFresh
<1>1. Init => OpensFresh
  BY DEF Init, OpensFresh, NoFrame
<1>2. CallsInv /\ DataTypeOK /\ OpensFresh /\ [Next]_vars => OpensFresh'
  BY OpensFreshStep
<1> QED
  BY <1>1, <1>2, Typed, PTL DEF Spec

LEMMA FulfilledHasTime ==
  ASSUME NEW e \in Entry, RecordsOf(e), EvidenceOf(e), Fulfilled(e)
  PROVE  e.request.fulfilled_at \in Nat
BY EntryTimesType DEF RecordsOf, EvidenceOf, Fulfilled

LEMMA FulfilledEvolves ==
  ASSUME NEW e \in Entry, NEW now \in Nat, TimesOf(e, now), NEW f,
         RecordsOf(e), EvidenceOf(e), FulfilledEntry(e, f, now) \in Entry
  PROVE  EntryEvolves(e, FulfilledEntry(e, f, now))
<1> DEFINE g == FulfilledEntry(e, f, now)
<1>1. /\ g.request.requester = e.request.requester
      /\ g.request.program_uri = e.request.program_uri
      /\ g.request.created_at = e.request.created_at
      /\ g.request.updated_at = now
      /\ g.request.fulfilled_at = now
  BY DEF FulfilledEntry, Entry, ProofRequest
<1>2. e.request.updated_at <= now
  BY EntryTimesType DEF TimesOf
<1>3. Fulfilled(e) => e.request.fulfilled_at <= now
  BY <1>2, FulfilledHasTime, EntryTimesType, ConstantsAssumption DEF TimesOf
<1> QED
  BY <1>1, <1>2, <1>3, NilAssumption DEF EntryEvolves

LEMMA FailedEvolves ==
  ASSUME NEW e \in Entry, NEW now \in Nat, TimesOf(e, now), NEW f,
         FailedEntry(e, f, now) \in Entry
  PROVE  EntryEvolves(e, FailedEntry(e, f, now))
<1> DEFINE g == FailedEntry(e, f, now)
<1>1. /\ g.request.requester = e.request.requester
      /\ g.request.program_uri = e.request.program_uri
      /\ g.request.created_at = e.request.created_at
      /\ g.request.updated_at = now
      /\ ~Fulfilled(g)
  BY DEF FailedEntry, Entry, ProofRequest, Fulfilled
<1>2. e.request.updated_at <= now
  BY EntryTimesType DEF TimesOf
<1> QED
  BY <1>1, <1>2, NilAssumption DEF EntryEvolves

(* No step loses, replaces or turns back an entry. *)
THEOREM EntriesAlwaysEvolve == Spec => EntriesEvolve
<1>1. CallsInv /\ DataTypeOK /\ DataTypeOK' /\ EntriesOK /\ TimesInv /\ OpensFresh
      /\ [Next]_vars
        => [\A i \in Stored : EntryEvolves(proof_requests[i], proof_requests'[i])]_vars
  <2> SUFFICES ASSUME CallsInv, DataTypeOK, EntriesOK, TimesInv, OpensFresh,
                      [Next]_vars,
                      NEW i \in Stored
               PROVE  EntryEvolves(proof_requests[i], proof_requests'[i])
    OBVIOUS
  <2>1. /\ i \in RequestId /\ clock \in Nat /\ proof_requests[i] \in Entry
        /\ TimesOf(proof_requests[i], clock)
        /\ RecordsOf(proof_requests[i]) /\ EvidenceOf(proof_requests[i])
    BY DEF Stored, DataTypeOK, TimesInv, TimestampsOrdered, EntriesOK,
           RecordsAgree, EvidenceConsistent
  <2>2. CASE proof_requests'[i] = proof_requests[i]
    <3>1. proof_requests[i] # Nil
      BY DEF Stored
    <3> QED
      BY <2>1, <2>2, <3>1, EntryTimesType, FulfilledHasTime DEF EntryEvolves
  <2>3. ASSUME NEW c \in Call, Inserts(c, i) PROVE FALSE
    BY <2>3 DEF Inserts, InsertRequest, HasRequests, OpensFresh
  <2>4. ASSUME NEW c \in Call, Fulfills(c, i)
        PROVE  EntryEvolves(proof_requests[i], proof_requests'[i])
    BY <2>1, <2>4, FulfilledEvolves DEF Fulfills
  <2>5. ASSUME NEW c \in Call, Fails(c, i)
        PROVE  EntryEvolves(proof_requests[i], proof_requests'[i])
    BY <2>1, <2>5, FailedEvolves DEF Fails
  <2> QED
    BY <2>1, <2>2, <2>3, <2>4, <2>5, EntrySteps
<1> QED
  BY <1>1, Typed, EntriesOKInvariant, TimesInvariant, OpensFreshInvariant, PTL DEF Spec, EntriesEvolve

============================================================================
