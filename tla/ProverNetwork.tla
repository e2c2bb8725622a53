--------------------------- MODULE ProverNetwork ---------------------------
(***************************************************************************)
(* The ProverNetwork gRPC service (src/server/prover_network_service.rs):  *)
(* every handler is a future that tokio may suspend at each await and that *)
(* tonic drops at an await when its client goes away.  The handlers share  *)
(* two maps, each behind a tokio mutex:                                    *)
(*                                                                         *)
(*   programs        vk_hash -> program                                    *)
(*   proof_requests  request_id -> <<ProofRequest, status response>>       *)
(*                                                                         *)
(* request_proof takes both, programs first, and keeps both to its end.    *)
(* fulfill_proof keeps proof_requests while it uploads the proof to the    *)
(* artifact store, so the PUT is part of its critical section.             *)
(*                                                                         *)
(* What lies between two awaits is one step.  Random values (request ids,  *)
(* proof URLs) are drawn fresh from finite pools when the call starts; the *)
(* code draws a proof URL only when the upload begins (nobody sees it      *)
(* before), and drawing it early keeps a pool from running dry under the   *)
(* guard.                                                                  *)
(***************************************************************************)
EXTENDS Naturals, TokioMutex

CONSTANTS
  RequestId,      \* values of random::<[u8; 32]>() for request ids
  ProofUrl,       \* values of generate_proof_url()
  VkHash,         \* verification key hashes
  Uri,            \* program URIs
  Addr,           \* signer addresses
  Error,          \* ProofRequestError numbers
  PublicValues,   \* what a request body may carry as public_values_hash
  Foreign,        \* bytes a client of its own accord PUTs to the artifact store
  Nil,            \* Rust's None, and the empty program URI
  Methods,        \* the methods clients call in this instance
  MaxClock        \* bound on the wall clock, in seconds

ASSUME ConstantsAssumption ==
  /\ Nil \notin RequestId \cup ProofUrl \cup VkHash \cup Uri \cup Addr \cup Nat
  /\ Foreign \notin RequestId \cup {Nil}
  /\ 0 \in Error /\ Error \subseteq Nat
  /\ MaxClock \in Nat

(* Ids are arrays of 32 bytes. *)
ASSUME FiniteIdsAssumption == IsFiniteSet(RequestId)

VARIABLES
  programs,        \* the programs map, Nil where there is no entry
  proof_requests,  \* the proof_requests map, Nil where there is no entry
  programs_lock,   \* the mutex around programs
  requests_lock,   \* the mutex around proof_requests
  pc,              \* the await each call is suspended at
  call,            \* the values each call keeps across its awaits
  clock,           \* chrono::Utc::now().timestamp()
  storage, conn,   \* the artifact store's map and its PUT connections
  acked,           \* history: request ids returned to a client
  told             \* history: proof URIs returned to a client, by request

store == <<programs, proof_requests>>
locks == <<programs_lock, requests_lock>>
http == <<storage, conn>>
history == <<acked, told>>
vars == <<store, locks, pc, call, clock, http, history>>

Http == INSTANCE HttpServer
          WITH Conn <- ProofUrl, Key <- ProofUrl,
               Body <- RequestId \cup {Foreign}, NoBody <- Nil

---------------------------------------------------------------------------
(* Data *)

FulfillmentStatus == {"Assigned", "Fulfilled", "Unfulfillable"}
ExecutionStatus == {"Unexecuted", "Executed"}

Optional(S) == S \cup {Nil}

ProofRequest ==
  [vk_hash: VkHash, requester: Addr, fulfiller: Addr,
   program_uri: Optional(Uri), public_values_hash: Optional(PublicValues),
   fulfillment_status: FulfillmentStatus, execution_status: ExecutionStatus,
   created_at: Nat, updated_at: Nat, fulfilled_at: Optional(Nat), error: Error]

(* proof_uri stands for proof_uri, proof_public_uri and fulfill_tx_hash,   *)
(* which are None together and set together.                               *)
StatusResponse ==
  [fulfillment_status: FulfillmentStatus, execution_status: ExecutionStatus,
   proof_uri: Optional(ProofUrl)]

Entry == [request: ProofRequest, status: StatusResponse]

ASSUME NilAssumption == Nil \notin Entry

StateMethods ==
  {"request_proof", "fulfill_proof", "fail_fulfillment", "create_program"}
ReadMethods ==
  {"get_proof_request_status", "get_proof_request_details",
   "get_filtered_proof_requests", "get_program"}

(* What a handler keeps across its awaits: arguments, the recovered signer *)
(* (addr), values drawn or read on the way. Nil where a method has none.   *)
Frame ==
  [method: StateMethods \cup ReadMethods \cup {"none"},
   id: Optional(RequestId), vk_hash: Optional(VkHash), addr: Optional(Addr),
   program_uri: Optional(Uri), public_values_hash: Optional(PublicValues),
   error: Error, url: Optional(ProofUrl), now: Nat]

NoFrame ==
  [method |-> "none", id |-> Nil, vk_hash |-> Nil, addr |-> Nil,
   program_uri |-> Nil, public_values_hash |-> Nil, error |-> 0,
   url |-> Nil, now |-> 0]

Await == {"idle", "programs", "requests", "upload", "error_body"}

Stored == {i \in RequestId : proof_requests[i] # Nil}

FreshId(i) == i \notin Stored /\ \A d \in Call : call[d].id # i
FreshUrl(u) == conn[u].state = "closed" /\ \A d \in Call : call[d].url # u

TypeOK ==
  /\ programs \in [VkHash -> Optional(Uri)]
  /\ proof_requests \in [RequestId -> Optional(Entry)]
  /\ programs_lock \in Mutex
  /\ requests_lock \in Mutex
  /\ pc \in [Call -> Await]
  /\ call \in [Call -> Frame]
  /\ clock \in Nat
  /\ Http!TypeOK
  /\ acked \in SUBSET RequestId
  /\ told \in [RequestId -> SUBSET ProofUrl]

Init ==
  /\ programs = [v \in VkHash |-> Nil]
  /\ proof_requests = [i \in RequestId |-> Nil]
  /\ programs_lock = Unlocked
  /\ requests_lock = Unlocked
  /\ pc = [c \in Call |-> "idle"]
  /\ call = [c \in Call |-> NoFrame]
  /\ clock = 0
  /\ Http!Init
  /\ acked = {}
  /\ told = [i \in RequestId |-> {}]

---------------------------------------------------------------------------
(* How a handler starts, waits and ends *)

(* The handler runs up to its first await, the lock of one of the maps.    *)
(* Bodies that fail to decode or whose signature does not recover are      *)
(* answered before any await and change nothing: they are no steps here.   *)
AwaitPrograms(c, frame) ==
  /\ pc[c] = "idle"
  /\ frame.method \in Methods
  /\ call' = [call EXCEPT ![c] = frame]
  /\ pc' = [pc EXCEPT ![c] = "programs"]
  /\ programs_lock' = Acquire(programs_lock, c)
  /\ UNCHANGED <<store, requests_lock, clock, http, history>>

AwaitRequests(c, frame) ==
  /\ pc[c] = "idle"
  /\ frame.method \in Methods
  /\ call' = [call EXCEPT ![c] = frame]
  /\ pc' = [pc EXCEPT ![c] = "requests"]
  /\ requests_lock' = Acquire(requests_lock, c)
  /\ UNCHANGED <<store, programs_lock, clock, http, history>>

(* c was granted the map it waits for and runs on from the await. *)
HasPrograms(c, method) ==
  pc[c] = "programs" /\ programs_lock.owner = c /\ call[c].method = method
HasRequests(c, method) ==
  pc[c] = "requests" /\ requests_lock.owner = c /\ call[c].method = method

(* The handler returns: its frame is gone and its guards are dropped. *)
Return(c) ==
  /\ pc' = [pc EXCEPT ![c] = "idle"]
  /\ call' = [call EXCEPT ![c] = NoFrame]
ReturnFromPrograms(c) ==
  Return(c) /\ programs_lock' = Release(programs_lock) /\ UNCHANGED requests_lock
ReturnFromRequests(c) ==
  Return(c) /\ requests_lock' = Release(requests_lock) /\ UNCHANGED programs_lock

---------------------------------------------------------------------------
(* request_proof *)

(* The id is drawn, the signer recovered and the clock read before any     *)
(* lock is asked for.                                                      *)
RequestProof(c) ==
  \E i \in RequestId, v \in VkHash, a \in Addr, p \in Optional(PublicValues) :
    /\ FreshId(i)
    /\ AwaitPrograms(c, [NoFrame EXCEPT !.method = "request_proof", !.id = i,
                           !.vk_hash = v, !.addr = a,
                           !.public_values_hash = p, !.now = clock])

(* Mutant: the programs guard is dropped once the program is cloned.       *)
LookupProgramDropsGuard(c) ==
  /\ HasPrograms(c, "request_proof")
  /\ call' = [call EXCEPT ![c].program_uri = programs[call[c].vk_hash]]
  /\ pc' = [pc EXCEPT ![c] = "requests"]
  /\ programs_lock' = Release(programs_lock)
  /\ requests_lock' = Acquire(requests_lock, c)
  /\ UNCHANGED <<store, clock, http, history>>

(* Mutant: the client is answered before the request is inserted.          *)
LookupProgramAnswers(c) ==
  /\ HasPrograms(c, "request_proof")
  /\ call' = [call EXCEPT ![c].program_uri = programs[call[c].vk_hash]]
  /\ pc' = [pc EXCEPT ![c] = "requests"]
  /\ requests_lock' = Acquire(requests_lock, c)
  /\ acked' = acked \cup {call[c].id}
  /\ UNCHANGED <<store, programs_lock, clock, http, told>>

(* The program is looked up; the programs guard stays with the handler     *)
(* while it waits for proof_requests.                                      *)
LookupProgram(c) ==
  /\ HasPrograms(c, "request_proof")
  /\ call' = [call EXCEPT ![c].program_uri = programs[call[c].vk_hash]]
  /\ pc' = [pc EXCEPT ![c] = "requests"]
  /\ requests_lock' = Acquire(requests_lock, c)
  /\ UNCHANGED <<store, programs_lock, clock, http, history>>

(* Mutant: fulfillment_status is left to ..Default::default().             *)
NewEntryDefaultStatus(f) ==
  [request |-> [vk_hash |-> f.vk_hash, requester |-> f.addr, fulfiller |-> f.addr,
                program_uri |-> f.program_uri,
                public_values_hash |-> f.public_values_hash,
                fulfillment_status |-> "UnspecifiedFulfillmentStatus",
                execution_status |-> "Unexecuted",
                created_at |-> f.now, updated_at |-> f.now,
                fulfilled_at |-> Nil, error |-> 0],
   status  |-> [fulfillment_status |-> "Assigned",
                execution_status |-> "Unexecuted", proof_uri |-> Nil]]

(* Mutant: created_at is stamped under the lock, updated_at before it.     *)
NewEntryTwoClocks(f) ==
  [request |-> [vk_hash |-> f.vk_hash, requester |-> f.addr, fulfiller |-> f.addr,
                program_uri |-> f.program_uri,
                public_values_hash |-> f.public_values_hash,
                fulfillment_status |-> "Assigned",
                execution_status |-> "Unexecuted",
                created_at |-> clock, updated_at |-> f.now,
                fulfilled_at |-> Nil, error |-> 0],
   status  |-> [fulfillment_status |-> "Assigned",
                execution_status |-> "Unexecuted", proof_uri |-> Nil]]

(* The entry a request starts with: assigned, and to its own requester. *)
NewEntry(f) ==
  [request |-> [vk_hash |-> f.vk_hash, requester |-> f.addr, fulfiller |-> f.addr,
                program_uri |-> f.program_uri,
                public_values_hash |-> f.public_values_hash,
                fulfillment_status |-> "Assigned",
                execution_status |-> "Unexecuted",
                created_at |-> f.now, updated_at |-> f.now,
                fulfilled_at |-> Nil, error |-> 0],
   status  |-> [fulfillment_status |-> "Assigned",
                execution_status |-> "Unexecuted", proof_uri |-> Nil]]

InsertRequest(c) ==
  /\ HasRequests(c, "request_proof")
  /\ proof_requests' = [proof_requests EXCEPT ![call[c].id] = NewEntry(call[c])]
  /\ acked' = acked \cup {call[c].id}
  /\ Return(c)
  /\ requests_lock' = Release(requests_lock)
  /\ programs_lock' = Release(programs_lock)
  /\ UNCHANGED <<programs, clock, http, told>>

---------------------------------------------------------------------------
(* create_program, get_program *)

CreateProgram(c) ==
  \E v \in VkHash, u \in Uri :
    AwaitPrograms(c, [NoFrame EXCEPT !.method = "create_program",
                                     !.vk_hash = v, !.program_uri = u])

(* An insert: a program registered before under this hash is replaced. *)
InsertProgram(c) ==
  /\ HasPrograms(c, "create_program")
  /\ programs' = [programs EXCEPT ![call[c].vk_hash] = call[c].program_uri]
  /\ ReturnFromPrograms(c)
  /\ UNCHANGED <<proof_requests, clock, http, history>>

GetProgram(c) ==
  \E v \in VkHash :
    AwaitPrograms(c, [NoFrame EXCEPT !.method = "get_program", !.vk_hash = v])

ReadProgram(c) ==
  /\ HasPrograms(c, "get_program")
  /\ ReturnFromPrograms(c)
  /\ UNCHANGED <<store, clock, http, history>>

---------------------------------------------------------------------------
(* fulfill_proof *)

FulfillProof(c) ==
  \E i \in RequestId, a \in Addr, u \in ProofUrl :
    /\ FreshUrl(u)
    /\ AwaitRequests(c, [NoFrame EXCEPT !.method = "fulfill_proof",
                                        !.id = i, !.addr = a, !.url = u])

(* Mutant: the proof URI is recorded when the upload begins.               *)
BeginUploadRecordsUri(c) ==
  /\ HasRequests(c, "fulfill_proof")
  /\ call[c].id \in Stored
  /\ Http!Send(call[c].url, call[c].url, call[c].id)
  /\ pc' = [pc EXCEPT ![c] = "upload"]
  /\ proof_requests' = [proof_requests EXCEPT
                          ![call[c].id].status.proof_uri = call[c].url]
  /\ UNCHANGED <<programs, locks, call, clock, history>>

(* The request is known: its proof is sent to the artifact store, and the  *)
(* handler waits for the answer with the proof_requests guard in hand.     *)
BeginUpload(c) ==
  /\ HasRequests(c, "fulfill_proof")
  /\ call[c].id \in Stored
  /\ Http!Send(call[c].url, call[c].url, call[c].id)
  /\ pc' = [pc EXCEPT ![c] = "upload"]
  /\ UNCHANGED <<store, locks, call, clock, history>>

(* Mutant: only proof_request learns that the proof was executed.          *)
FulfilledEntryHalfExecuted(e, f, now) ==
  [request |-> [e.request EXCEPT !.fulfillment_status = "Fulfilled",
                                 !.execution_status = "Executed",
                                 !.updated_at = now, !.fulfilled_at = now,
                                 !.fulfiller = f.addr],
   status  |-> [e.status EXCEPT !.fulfillment_status = "Fulfilled",
                                !.proof_uri = f.url]]

(* Mutant: neither record learns that the proof was executed.              *)
FulfilledEntryUnexecuted(e, f, now) ==
  [request |-> [e.request EXCEPT !.fulfillment_status = "Fulfilled",
                                 !.updated_at = now, !.fulfilled_at = now,
                                 !.fulfiller = f.addr],
   status  |-> [e.status EXCEPT !.fulfillment_status = "Fulfilled",
                                !.proof_uri = f.url]]

(* Mutant: the program is looked up again when the proof arrives.          *)
FulfilledEntryRefreshesProgram(e, f, now) ==
  [request |-> [e.request EXCEPT !.fulfillment_status = "Fulfilled",
                                 !.execution_status = "Executed",
                                 !.program_uri = programs[e.request.vk_hash],
                                 !.updated_at = now, !.fulfilled_at = now,
                                 !.fulfiller = f.addr],
   status  |-> [e.status EXCEPT !.fulfillment_status = "Fulfilled",
                                !.execution_status = "Executed",
                                !.proof_uri = f.url]]

(* Both records of the pair, after the proof is stored. *)
FulfilledEntry(e, f, now) ==
  [request |-> [e.request EXCEPT !.fulfillment_status = "Fulfilled",
                                 !.execution_status = "Executed",
                                 !.updated_at = now, !.fulfilled_at = now,
                                 !.fulfiller = f.addr],
   status  |-> [e.status EXCEPT !.fulfillment_status = "Fulfilled",
                                !.execution_status = "Executed",
                                !.proof_uri = f.url]]

(* Mutant: any answer of the artifact store counts as a success.           *)
FinishFulfillUnchecked(c) ==
  LET i == call[c].id IN
  /\ pc[c] = "upload"
  /\ conn[call[c].url].state \in {"stored", "rejected"}
  /\ proof_requests' = [proof_requests EXCEPT
                          ![i] = FulfilledEntry(@, call[c], clock)]
  /\ ReturnFromRequests(c)
  /\ UNCHANGED <<programs, clock, http, history>>

FinishFulfill(c) ==
  LET i == call[c].id IN
  /\ pc[c] = "upload"
  /\ conn[call[c].url].state = "stored"
  /\ proof_requests' = [proof_requests EXCEPT
                          ![i] = FulfilledEntry(@, call[c], clock)]
  /\ ReturnFromRequests(c)
  /\ UNCHANGED <<programs, clock, http, history>>

(* send() fails. The bytes may have left: the store may yet keep them. *)
UploadFails(c) ==
  /\ pc[c] = "upload"
  /\ ReturnFromRequests(c)
  /\ UNCHANGED <<store, clock, http, history>>

(* Mutant: a refused upload is sent again, for as long as it is refused.   *)
UploadRefusedRetries(c) ==
  /\ pc[c] = "upload"
  /\ conn[call[c].url].state = "rejected"
  /\ conn' = [conn EXCEPT ![call[c].url].state = "sent"]
  /\ UNCHANGED <<store, locks, pc, call, clock, storage, history>>

(* Any answer but a success: its text is awaited for the log, still with   *)
(* the guard in hand, and the call is answered with an error.              *)
UploadRefused(c) ==
  /\ pc[c] = "upload"
  /\ conn[call[c].url].state = "rejected"
  /\ pc' = [pc EXCEPT ![c] = "error_body"]
  /\ UNCHANGED <<store, locks, call, clock, http, history>>

LogRefusal(c) ==
  /\ pc[c] = "error_body"
  /\ ReturnFromRequests(c)
  /\ UNCHANGED <<store, clock, http, history>>

---------------------------------------------------------------------------
(* fail_fulfillment *)

FailFulfillment(c) ==
  \E i \in RequestId, e \in Error :
    AwaitRequests(c, [NoFrame EXCEPT !.method = "fail_fulfillment",
                                     !.id = i, !.error = e])

(* Mutant: the failed request is put back for another prover.              *)
FailedEntryReassigns(e, f, now) ==
  [request |-> [e.request EXCEPT !.fulfillment_status = "Assigned",
                                 !.updated_at = now, !.error = f.error],
   status  |-> [e.status EXCEPT !.fulfillment_status = "Assigned"]]

(* Whatever the request's status was, it becomes Unfulfillable. *)
FailedEntry(e, f, now) ==
  [request |-> [e.request EXCEPT !.fulfillment_status = "Unfulfillable",
                                 !.updated_at = now, !.error = f.error],
   status  |-> [e.status EXCEPT !.fulfillment_status = "Unfulfillable"]]

(* Mutant: programs is locked, too, with proof_requests in hand.           *)
ApplyFailLooksUp(c) ==
  /\ HasRequests(c, "fail_fulfillment")
  /\ pc' = [pc EXCEPT ![c] = "programs"]
  /\ programs_lock' = Acquire(programs_lock, c)
  /\ UNCHANGED <<store, requests_lock, call, clock, http, history>>

ApplyFail(c) ==
  LET i == call[c].id IN
  /\ HasRequests(c, "fail_fulfillment")
  /\ i \in Stored
  /\ proof_requests' = [proof_requests EXCEPT
                          ![i] = FailedEntry(@, call[c], clock)]
  /\ ReturnFromRequests(c)
  /\ UNCHANGED <<programs, clock, http, history>>

(* fulfill_proof and fail_fulfillment answer NotFound for an unknown id. *)
RequestNotFound(c) ==
  /\ \E m \in {"fulfill_proof", "fail_fulfillment"} : HasRequests(c, m)
  /\ call[c].id \notin Stored
  /\ ReturnFromRequests(c)
  /\ UNCHANGED <<store, clock, http, history>>

---------------------------------------------------------------------------
(* The reads of proof_requests *)

GetProofRequestStatus(c) ==
  \E i \in RequestId :
    AwaitRequests(c, [NoFrame EXCEPT !.method = "get_proof_request_status",
                                     !.id = i])

(* The stored status is answered, with the proof URI it names, or NotFound *)
ReadStatus(c) ==
  LET i == call[c].id IN
  /\ HasRequests(c, "get_proof_request_status")
  /\ told' = IF i \in Stored /\ proof_requests[i].status.proof_uri # Nil
             THEN [told EXCEPT ![i] = @ \cup {proof_requests[i].status.proof_uri}]
             ELSE told
  /\ ReturnFromRequests(c)
  /\ UNCHANGED <<store, clock, http, acked>>

ReadRequest(c) ==
  AwaitRequests(c, [NoFrame EXCEPT !.method = "get_proof_request_details"])

ReadRequests(c) ==
  AwaitRequests(c, [NoFrame EXCEPT !.method = "get_filtered_proof_requests"])

(* Details and filtered requests are cloned under the guard and returned;  *)
(* they carry no proof URI.                                                *)
AnswerRequests(c) ==
  /\ \E m \in {"get_proof_request_details", "get_filtered_proof_requests"} :
       HasRequests(c, m)
  /\ ReturnFromRequests(c)
  /\ UNCHANGED <<store, clock, http, history>>

---------------------------------------------------------------------------
(* The environment *)

(* The client of c goes away and tonic drops the handler at its await.     *)
Cancel(c) ==
  /\ pc[c] # "idle"
  /\ Return(c)
  /\ programs_lock' = Leave(programs_lock, c)
  /\ requests_lock' = Leave(requests_lock, c)
  /\ UNCHANGED <<store, clock, http, history>>

(* The artifact store handles a PUT, with its client or without. *)
ServePut(u) ==
  /\ Http!UploadArtifact(u) \/ Http!RejectUpload(u)
  /\ UNCHANGED <<store, locks, pc, call, clock, history>>

(* Somebody was told the URL u by get_proof_request_status. *)
Told(u) == \E i \in RequestId : u \in told[i]

(* Any client PUTs what it likes under a proof URL it was told. (A URL     *)
(* nobody was told holds 128 random bits: it is not hit by chance.)        *)
OthersPut(u) ==
  /\ Told(u)
  /\ Http!Put(u, Foreign)
  /\ UNCHANGED <<store, locks, pc, call, clock, history>>

Tick ==
  /\ clock < MaxClock
  /\ clock' = clock + 1
  /\ UNCHANGED <<store, locks, pc, call, http, history>>

---------------------------------------------------------------------------
Arrive(c) ==
  \/ RequestProof(c) \/ CreateProgram(c) \/ GetProgram(c)
  \/ FulfillProof(c) \/ FailFulfillment(c)
  \/ GetProofRequestStatus(c) \/ ReadRequest(c) \/ ReadRequests(c)

(* The steps a handler takes by itself once an await is over. *)
Resume(c) ==
  \/ LookupProgram(c) \/ InsertRequest(c)
  \/ InsertProgram(c) \/ ReadProgram(c)
  \/ BeginUpload(c) \/ FinishFulfill(c) \/ UploadRefused(c) \/ LogRefusal(c)
  \/ ApplyFail(c) \/ RequestNotFound(c)
  \/ ReadStatus(c) \/ AnswerRequests(c)

Next ==
  \/ \E c \in Call : Arrive(c) \/ Resume(c) \/ UploadFails(c) \/ Cancel(c)
  \/ \E u \in ProofUrl : ServePut(u) \/ OthersPut(u)
  \/ Tick

Spec == Init /\ [][Next]_vars

(* tokio polls every future that is ready, and the artifact store, a task  *)
(* of the same process, handles every PUT it received.  Nothing is assumed *)
(* of clients: they need not call, cancel, stay or PUT.                    *)
Fairness ==
  /\ \A c \in Call : WF_vars(Resume(c))
  /\ \A u \in ProofUrl : WF_vars(ServePut(u))

FairSpec == Spec /\ Fairness

---------------------------------------------------------------------------
(* Safety *)

(* A mutex is claimed by exactly the calls that wait for it or work under  *)
(* it: no guard is lost or leaked when a handler returns, fails or is      *)
(* dropped at any of its awaits, a free mutex has no waiter, and a call    *)
(* that waits for proof_requests with programs in hand really owns         *)
(* programs. No call waits for programs with proof_requests in hand, which *)
(* is why the two mutexes cannot deadlock.                                 *)
WorksOnRequests(c) == pc[c] \in {"upload", "error_body"}
HoldsLookup(c) == pc[c] = "requests" /\ call[c].method = "request_proof"

GuardsMatchProgress ==
  /\ Orderly(programs_lock) /\ Orderly(requests_lock)
  /\ \A c \in Call :
       /\ Claims(programs_lock, c) <=> pc[c] = "programs" \/ HoldsLookup(c)
       /\ Claims(requests_lock, c) <=> pc[c] = "requests" \/ WorksOnRequests(c)
       /\ WorksOnRequests(c) => requests_lock.owner = c
       /\ HoldsLookup(c) => programs_lock.owner = c

(* A call that waits for a mutex waits for a call that waits for no mutex, *)
(* or is itself one that does: whoever holds proof_requests can go on, and *)
(* whoever holds programs can, or is queued for proof_requests. So no      *)
(* calls wait for each other in a circle, in whatever order they arrive,   *)
(* fail or are dropped.                                                    *)
Runs(c) ==
  \/ pc[c] = "programs" /\ programs_lock.owner = c
  \/ pc[c] = "requests" /\ requests_lock.owner = c
  \/ WorksOnRequests(c)

RequestsHolderRuns == \E d \in Call : requests_lock.owner = d /\ Runs(d)

NoCircularWait ==
  \A c \in Call :
    /\ pc[c] = "requests" => RequestsHolderRuns
    /\ pc[c] = "programs" =>
         \E d \in Call : /\ programs_lock.owner = d
                         /\ Runs(d) \/ (pc[d] = "requests" /\ RequestsHolderRuns)

(* The program a request_proof call looked up is still the registered one  *)
(* when it comes to insert its request, however long it waited for         *)
(* proof_requests and whatever create_program calls arrived meanwhile.     *)
LookupStaysCurrent ==
  \A c \in Call : HoldsLookup(c) =>
    call[c].program_uri = programs[call[c].vk_hash]

(* get_proof_request_status answers from one record of the pair, details   *)
(* and filters from the other: the two never disagree, not even after an   *)
(* upload that failed or a handler dropped half way.                       *)
RecordsOf(e) ==
  /\ e.request.fulfillment_status = e.status.fulfillment_status
  /\ e.request.execution_status = e.status.execution_status
  /\ e.request.fulfilled_at # Nil <=> e.status.proof_uri # Nil

RecordsAgree == \A i \in Stored : RecordsOf(proof_requests[i])

(* What a status claims is backed by the rest of the entry, in whatever    *)
(* order fulfil and fail calls came, were repeated or gave up: Executed    *)
(* and a proof URI come together, Fulfilled needs both, and a request that *)
(* is still Assigned was never touched and is assigned to its requester.   *)
EvidenceOf(e) ==
  /\ e.status.execution_status = "Executed" <=> e.status.proof_uri # Nil
  /\ e.status.fulfillment_status = "Fulfilled" => e.status.proof_uri # Nil
  /\ e.status.fulfillment_status = "Assigned" =>
       /\ e.status.proof_uri = Nil
       /\ e.request.error = 0
       /\ e.request.updated_at = e.request.created_at
       /\ e.request.fulfiller = e.request.requester

EvidenceConsistent == \A i \in Stored : EvidenceOf(proof_requests[i])

(* A GET of u yields the proof of request i, or what a client put in its   *)
(* place after it was told u.                                              *)
Yields(u, i) ==
  Http!Download(u) = i \/ (Told(u) /\ Http!Download(u) = Foreign)

(* The proof URI of a status can be downloaded: it yields the proof of     *)
(* that very request, unless a client that was told the URI replaced it.   *)
ProofAvailable ==
  \A i \in Stored :
    LET u == proof_requests[i].status.proof_uri
    IN u # Nil => Yields(u, i)

(* A URI once returned to a client stays good, although fulfil and fail    *)
(* calls change the entry after it was read and proofs are uploaded again: *)
(* it never answers 404 and never comes to hold another request's proof.   *)
(* Only a client's own PUT to it can replace the bytes.                    *)
ToldProofsStayDownloadable ==
  \A i \in RequestId : \A u \in told[i] : Yields(u, i)

(* A client that got a request id from request_proof never gets NotFound   *)
(* for it.                                                                 *)
AckedRequestsKnown == acked \subseteq Stored

(* Creation, fulfilment and last update of a request are in order, though  *)
(* request_proof reads the clock before it queues for the maps.            *)
TimesOf(e, now) ==
  /\ e.request.created_at <= e.request.updated_at
  /\ e.request.updated_at <= now
  /\ e.request.fulfilled_at # Nil =>
       /\ e.request.created_at <= e.request.fulfilled_at
       /\ e.request.fulfilled_at <= e.request.updated_at

TimestampsOrdered == \A i \in Stored : TimesOf(proof_requests[i], clock)

---------------------------------------------------------------------------
(* Action properties *)

(* An entry is never lost or replaced and keeps its requester, its program *)
(* and its creation time; neither its last update nor, from one fulfilment *)
(* to the next, its fulfilment time moves back.                            *)
Fulfilled(e) == e.request.fulfillment_status = "Fulfilled"

EntryEvolves(e, f) ==
  /\ f # Nil
  /\ f.request.requester = e.request.requester
  /\ f.request.program_uri = e.request.program_uri
  /\ f.request.created_at = e.request.created_at
  /\ e.request.updated_at <= f.request.updated_at
  /\ Fulfilled(e) /\ Fulfilled(f) =>
       e.request.fulfilled_at <= f.request.fulfilled_at

EntriesEvolve ==
  [][\A i \in Stored : EntryEvolves(proof_requests[i], proof_requests'[i])]_vars

---------------------------------------------------------------------------
(* Refinement *)

(* The ledger an entry of the map stands for; proof is not read off the   *)
(* status but off the artifact store the proof URI points into.            *)
LedgerOf(i) ==
  LET e == proof_requests[i]
      u == e.status.proof_uri
  IN IF e = Nil THEN Nil
     ELSE [vk_hash |-> e.request.vk_hash, program |-> e.request.program_uri,
           requester |-> e.request.requester,
           outcome |-> e.status.fulfillment_status,
           proof |-> IF u # Nil /\ Yields(u, i) THEN "available" ELSE "none"]

Ledger == INSTANCE ProofLedger
            WITH registry <- programs,
                 ledger <- [i \in RequestId |-> LedgerOf(i)]

ASSUME LedgerNilAssumption == Nil \notin Ledger!LedgerEntry

(* Locks, uploads and dropped calls are invisible: the service behaves as  *)
(* the ledger, each operation taking effect in one step.                   *)
ImplementsLedger == Ledger!Spec

(* The service as a filter sees it. Of a request's body only vk_hash is   *)
(* kept here, so version, mode and deadline are the same for all, and the  *)
(* order in which the hash map is iterated stays whatever it is.           *)
QueryBody(v) == [vk_hash |-> v, version |-> Nil, mode |-> Nil, deadline |-> 0]

Filterable(r) ==
  [vk_hash |-> r.vk_hash, version |-> Nil, mode |-> Nil, deadline |-> 0,
   requester |-> r.requester, fulfiller |-> r.fulfiller,
   fulfillment_status |-> r.fulfillment_status,
   execution_status |-> r.execution_status,
   execute_fail_cause |-> "Unspecified", settlement_status |-> "Unspecified",
   error |-> r.error, created_at |-> r.created_at]

QueryOf(i) ==
  IF proof_requests[i] = Nil THEN Nil ELSE Filterable(proof_requests[i].request)

(* A request_proof call on its way to the insert, at either of its awaits. *)
Opening == {c \in Call : call[c].method = "request_proof"}

WaitingCall(f) ==
  [id |-> f.id, requester |-> f.addr, body |-> QueryBody(f.vk_hash),
   created_at |-> f.now]

Query == INSTANCE ProofQuery
           WITH Version <- {Nil}, Mode <- {Nil}, Queries <- {}, Empty <- Nil,
                Bodies <- {QueryBody(v) : v \in VkHash},
                requests <- [i \in RequestId |-> QueryOf(i)],
                place <- CHOOSE p \in Injection(RequestId, 1 .. Cardinality(RequestId)) : TRUE,
                waiting <- {WaitingCall(call[c]) : c \in Opening}

ASSUME QueryNilAssumption == Nil \notin Query!ProofRequest

(* To a query every handler takes effect in one step, but for the time a   *)
(* request is stamped with, which its call reads before it waits for the   *)
(* two maps: the service is the one ProofQuery describes.                  *)
ImplementsQueries == Query!QuerySpec

---------------------------------------------------------------------------
(* Liveness *)

(* Every call is answered or dropped: the FIFO mutexes starve nobody, and  *)
(* an upload ends for every waiter behind it, provided the artifact store  *)
(* answers.                                                                *)
EveryCallReturns == \A c \in Call : pc[c] # "idle" ~> pc[c] = "idle"

---------------------------------------------------------------------------
(* What the interface says, and the code does not keep *)

(* proto/types.proto: fulfilled_at and proof_uri are "Only included if the *)
(* request has a fulfillment status of FULFILLED."                         *)
EvidenceOnlyWhenFulfilled ==
  \A i \in Stored :
    proof_requests[i].request.fulfillment_status # "Fulfilled" =>
      /\ proof_requests[i].status.proof_uri = Nil
      /\ proof_requests[i].request.fulfilled_at = Nil

===========================================================================
