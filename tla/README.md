# A formal model of the SPN coordinator

The coordinator lets SP1 provers work without the Succinct network: it accepts
proof requests over gRPC, hands them to provers that poll for them, and takes
the proofs back. This directory holds TLA+ specifications of it, the TLC
configurations that model-check them, and TLAPS proofs of what matters most.
Source paths below are relative to the root of the repository.

## 1. Inventory

| Component | Source | State it keeps | Operations |
|---|---|---|---|
| ProverNetwork service | `src/server/prover_network_service.rs` | `programs`: vk hash -> program; `proof_requests`: id -> (ProofRequest, status response), each map behind a tokio mutex | `request_proof`, `fulfill_proof`, `fail_fulfillment`, `create_program`; reads `get_proof_request_status`, `get_proof_request_details`, `get_filtered_proof_requests`, `get_program` |
| HTTP artifact server | `src/server/http_server.rs` | `storage`: "type/id" -> bytes, behind a tokio mutex | PUT `upload_artifact`, GET `download_artifact`, `/health` |
| ArtifactStore service | `src/server/artifacts_service.rs` | `artifacts`: uri -> (type, URL), written and never read | `create_artifact` |
| Onboarding client | `src/client/client.rs` | none between runs | `run_client`: create artifact, upload the aggregation program, register it |
| Process lifecycle | `src/bin/main.rs`, `src/server/server.rs` | three tasks, a shutdown channel of capacity 1, the HTTP task's handle | start, wait for client, wait for signal, drain gRPC, abort HTTP |
| grpcclient | `tools/grpcclient` | none; one process per command | `proof-request-details`, `proof-request-status`, `get-program`: ask, print, exit; `verify-proof`: load, check, exit |
| RPC types | `proto/`, `crates/types/rpc` | none | generated |
| Logger | `crates/logger` | none | set up once |

How they interact:

- A *requester* calls `request_proof`; the service looks the program up in
  `programs` and puts the request into `proof_requests`.
- A *prover* polls `get_filtered_proof_requests`, and answers with
  `fulfill_proof` (which carries the proof) or `fail_fulfillment`.
- `fulfill_proof` PUTs the proof to the HTTP server of the same process, at a URL
  the service draws itself, and records that URL in the status. Clients read it
  with `get_proof_request_status` and download the proof from the HTTP server.
- `run_client` puts the aggregation program into the HTTP server and registers
  its URL with `create_program`.
- `main` starts the servers, the client and the signal handler as tasks;
  `run_server` ends the HTTP server after the gRPC server has drained.

What is hard here, and what makes each component correct:

- *ProverNetwork service.* Handlers run concurrently and are suspended at
  awaits; tonic drops a handler at its await when its client goes away.
  `request_proof` works under two mutexes taken one after the other;
  `fulfill_proof` keeps a mutex while it talks to another server; neither
  `fulfill_proof` nor `fail_fulfillment` looks at the present status. Correct
  means: guards are neither lost nor leaked nor taken in a deadlocking order; a
  request gets the program registered when it is opened; the two records of a
  request agree; a status is backed by evidence; what a client was told stays
  true; times are in order; every call returns.
- *HTTP artifact server.* A PUT may be refused before it reaches its handler, or
  be handled although its client is gone; any client may PUT, and an insert
  replaces what was there. Correct means: an address that was given out for a proof
  is found, and holds that proof as long as no client that knows it puts something
  else there. The code promises no more: neither the service nor the store protects
  the bytes.
- *Filtered queries.* Paging over a result that changes, sorted by a key with
  ties, out of a hash map. Correct means: the page is the right slice of the
  matching requests, and a prover that pages through finds its requests.
- *grpcclient.* It prints times that are any `u64` the service sends, and compares
  them with a clock it reads twice. Correct means: it ends, a panic has a cause, and
  exit code 0 means that all was shown.
- *ArtifactStore, onboarding client.* Several steps any of which may fail.
  Correct means: a registered program can be downloaded.
- *Lifecycle.* A signal at any time, a call that does not return, a server task
  that ended. Correct means: after a signal the process ends, with every
  answered call's effect made, and uploads still served while calls drain.

`PROJECT.json` lists the hazards at their lines.

## 2. Modules

| Module | What it is |
|---|---|
| `TokioMutex` | `tokio::sync::Mutex` as a value: an owner and a FIFO queue. A library, modelled from its use: a dropped guard passes to the first waiter, a dropped future gives up its claim. |
| `HttpServer` | `storage` and the PUT connections; the two handlers and the router's refusals as actions. |
| `ProverNetwork` | The service, composed with two `TokioMutex` values and an instance of `HttpServer`. The core of the project. |
| `ProofLedger` | The abstract specification: what the service promises its clients, each operation atomic. |
| `MCProverNetwork` | `ProverNetwork` with a symmetry set, for TLC. |
| `Coordinator` | The process: `main`, the shutdown, both servers' start and end, the onboarding client and the artifact service; composed with an instance of `HttpServer`. |
| `DrainingServer` | The abstract specification of the process: a server that takes calls, drains and exits. |
| `ProofQuery` | `get_filtered_proof_requests`: the filter, the sort and the pages, over a service whose writing handlers are atomic. |
| `ProofSweep` | `ProofQuery` with a client that reads all pages of one filter while others write. |
| `ProverPolling` | `ProofQuery` with provers that poll, conclude what they find, crash and lose calls. |
| `MCProofQuery`, `MCProofSweep`, `MCProverPolling` | Bodies, queries and addresses for TLC. |
| `GrpcClient` | One run of the command line tool, with the clock of its machine. |
| `ProverNetworkProofs` | Lemmas about the mutex operators; type correctness and the ownership of the mutexes, and that calls never wait in a circle. |
| `ProverNetworkSafetyProofs` | The safety invariants and the action property. |
| `ProverNetworkRefinementProofs` | `ProverNetwork` implements `ProofLedger`, and the service of `ProofQuery`. |
| `CoordinatorProofs` | The safety of the process, and that it implements `DrainingServer`. |
| `ProofQueryProofs` | Filtering, sorting and slicing give the pages; pages partition what matches. |
| `ProofSweepProofs` | What a reader of all pages may miss or get twice. |
| `ProverPollingProofs` | What a prover holds is its own; what it is served, and that nobody gets in front. |
| `GrpcClientProofs` | What a panic of an asking command and an exit code of 0 of the tool mean. |

`ProverNetwork` and `Coordinator` look at one process from two sides. The first
has every call in all its steps and servers that are up; the second has the
servers come and go, and a call of others that is open or not. They meet in two
places: `HttpServer` is instantiated by both, and the property
`EveryCallReturns` of the first is the fairness of `Answer` in the second.

`ProofQuery` looks at the same maps as `ProverNetwork`, with each writing handler
in one step. That this is allowed is `ImplementsQueries`: `ProverNetwork`, with its
mutexes, uploads, refusals and dropped handlers, implements `QuerySpec`. The one
thing of the handlers that is *not* atomic and that a query can see, the creation
time read before the insert, is a step of its own in `ProofQuery`. The mapping
(`QueryOf`, `WaitingCall`) keeps the fields of a request that both modules have and
gives the rest of a body (version, mode, deadline), which no handler changes, one
value; the order of the map's iteration, which `ProverNetwork` does not have, is
one of those that `ProofQuery` allows. `program_uri` is not among the common fields:
what becomes of it is `ImplementsLedger`. So what is checked and proved of
`ProofQuery`'s service, its readers and its provers is true of the handlers.
`ProofSweep` and `ProverPolling` EXTEND it with the two kinds of clients that the
handler has.

### How ProverNetwork corresponds to the code

A *call* is one request a client makes. `pc[c]` is the await its handler is
suspended at, and `call[c]` what the handler keeps across awaits (arguments, the
signer recovered from the signature, the id or URL drawn, the time read, the
program found). What a handler does between two awaits is one step. That is
sound for a multi-threaded tokio because everything shared that such a stretch
reads or writes lies under a mutex it owns throughout.

| Code | Actions |
|---|---|
| `request_proof` | `RequestProof` (id, signer, time, queue for `programs`), `LookupProgram` (program found or not, queue for `proof_requests` with the first guard kept), `InsertRequest` (insert, answer, both guards dropped) |
| `create_program` | `CreateProgram`, `InsertProgram` (replaces what was there) |
| `get_program` | `GetProgram`, `ReadProgram` |
| `fulfill_proof` | `FulfillProof`, `BeginUpload` (request found, PUT sent, guard kept), `FinishFulfill` (2xx: both records updated), `UploadRefused` then `LogRefusal` (any other answer, its text awaited), `UploadFails` (`send()` fails), `RequestNotFound` |
| `fail_fulfillment` | `FailFulfillment`, `ApplyFail`, `RequestNotFound` |
| `get_proof_request_status` | `GetProofRequestStatus`, `ReadStatus` |
| `get_proof_request_details`, `get_filtered_proof_requests` | `ReadRequest`, `ReadRequests`, `AnswerRequests` |
| the dropped handler | `Cancel`, at any await |
| PUT on the HTTP server, of `fulfill_proof` | `ServePut`: `UploadArtifact` or `RejectUpload`, with its client still there or not |
| PUT on the HTTP server, of any other client | `OthersPut` |
| the wall clock | `Tick` |

Abstractions:

- An *entry* keeps the fields of the two records that a handler changes or a
  property speaks of. `proof_uri` stands also for `proof_public_uri` and
  `fulfill_tx_hash`, which are `None` together and set together.
- A program is its URI; name, owner and creation time are not kept.
- Random ids and URLs are drawn fresh: collisions of 128 or 256 random bits are
  left out. A proof URL is drawn when the call starts and not when its upload
  begins, which nobody can tell apart; it keeps a finite pool from running dry
  inside the critical section.
- Other clients PUT at any moment, but only to proof URLs that somebody was told by
  `get_proof_request_status`. A URL nobody was told holds 128 random bits, and that it
  is hit by chance is left out like a collision. What they put is the one value
  `Foreign`. PUTs to keys that are no proof URLs change nothing a property looks at.
- A proof is identified with the request it is for, so that `ProofAvailable` can
  tell a right proof from a wrong one. The service does not verify proofs.
- Bodies that do not decode, or whose signature does not recover, are answered
  before the first await and change nothing: no step.
- `acked` and `told` are history variables: what clients were answered.
- `fail_fulfillment` keeps a proof and its times, here and in `ProofLedger`, because the
  code does. `proto/types.proto` (305, 367) says otherwise: see Findings. No property
  relies on it.
- The definitions marked *Mutant* are never used by the specification. Each is a
  plausible bug in the definition that follows it; with the bug in place TLC
  finds the property `PROJECT.json` names violated, which shows that the property
  depends on the code and that its run is large enough to tell.

### How Coordinator corresponds to the code

`main` and `client` are the awaits the two functions are suspended at, `channel`
the shutdown channel, `grpc` and `http` how far the servers have come, `rpc` the
gRPC call that `run_client` has under way.

| Code | Actions |
|---|---|
| `main` | `ClientJoined`, `SignalJoined`, `GraceOver`, `ServerJoined`, in this order only |
| `shutdown_signal` and its task | `Signal`, `SendShutdown` |
| `run_server` | `SpawnHttp`, then `StartGrpc` or `GrpcBindFails`, `Shutdown` (the message is received), `Drained` (the last call has ended, the HTTP task is aborted) |
| `HttpServer::start` | `HttpBinds`, with both outcomes, before or after the gRPC server takes its port or fails to |
| tonic, for other clients | `Accept`, `Answer` |
| `create_artifact`, `create_program` | `CreateArtifact`, `CreateProgram`; `DropCall` when the caller has gone |
| PUT on port 8082 | `ServePut`, or `ForeignAnswer` when another program has the port |
| `run_client` | `Wake`, `Connect` (twice), `SendRpc`, `ArtifactCreated`, `SendProgram`, `UploadAnswered`, `ProgramCreated`, `Settle`; and its errors `GrpcError`, `UploadUnreachable`, `UploadBreaks` |

Abstractions:

- Times are left out: the half second before the client starts, the 100 ms before
  `main` joins the server and the 15 seconds after which a gRPC await gives up
  end at any moment, so every order that a slow machine may show is in the model.
- When the gRPC port is taken the client is assumed to find nobody to talk to.
- `abort` ends the task that accepts connections. Connections it has accepted
  run in tasks of their own, so `ServePut` stays possible until the process ends.
- `run_client` runs once; only its program is registered. Programs of other
  clients are in `ProverNetwork`.
- A signal before the handlers are installed kills the process at once, and a
  second signal is swallowed by the handler: neither is a step.
- The two artifact fields that are written and never read are not kept.

The refinement to `DrainingServer` reads the stage off `main` and `grpc`
(`LifeStage`): starting, serving and draining are the gRPC server's, over is that
it has ended or failed, exited is `main`'s. Callers are the other clients and
`run_client`. The abstract `kept` is that the HTTP server is not aborted.

### How ProofQuery, ProofSweep and ProverPolling correspond to the code

| Code | Definitions |
|---|---|
| `GetFilteredProofRequestsRequest` | `Query`, `NoQuery` |
| the closure of `filter` | `Matches`: `Blankable` fields, whose empty value is no filter; `Exact` fields, whose empty value is one (`fulfiller` among them); `minimum_deadline`, strictly below the deadline. `from`, `to` and `not_bid_by` are not looked at |
| `sort_by` on `created_at`, stable | `Before`: older, or tied and met earlier in the map (`place`) |
| `skip`, `take` | `Slice`, `Page`: the requests whose `Position` is in the slice |
| the handler as it is written, on a Vec | `Values`, `Keep`, `Collected`, `Insert`, `SortedByAge`, `Answer`: the reference definition, which `PagesAreSlices` compares with `Page` |
| `request_proof` | `RequestProof` (the clock is read), `InsertRequest` (the insert, which may change the iteration order of the whole map), `DropRequest` |
| `fulfill_proof`, `fail_fulfillment` | `FulfillProof`, `FailFulfillment` |

A page is a set of positions rather than a sequence because the theorems are about
which requests are on it; the order on it is `Before`. `place` is any injection and
changes with any insert, which is all a Rust `HashMap` promises.

The reader and the provers are not in the repository. The reader is the plainest
use of `page` and `limit`: page 0 onwards, to the first page that is not full. The
provers come from `diagram` (32-60): each polls by `{Assigned, fulfiller}`, deals with
its page, and concludes a request by `fulfill_proof` or `fail_fulfillment`. `Skip`
leaves a request whose deadline has passed, which "should be ignored", as
`proto/types.proto` (359) says. `LoseCall`, `LoseAnswer` and `Crash` are the faults.

The poll of the diagram names no deadline; the interface takes a `minimum_deadline`,
and a prover may give the current time for it. `PollDeadline` says whether it does.
It matters for liveness: with the deadline a page of one request is enough for
every request to get its turn (run `polling`); without it the page has to be as
large as the number of requests of the prover (run `polling_as_drawn`), because a
request that nobody concluded in time stays Assigned and keeps its place on the page.

`request_proof` makes the requester the fulfiller (`prover_network_service.rs`, 83),
so a prover's poll finds the requests that were signed with the prover's own key, and
those only. All that is said of provers is said of those requests. A request of
another key is on no such page; nothing in the repository promises that it is.

Only provers at work on their pages call `fulfill_proof` and `fail_fulfillment` here.
The service takes these calls from anybody, for any request, and then
`HeldIsAssigned` says nothing of what a prover holds; `ProofQuery`, `ProofSweep` and
`ProverNetwork` have such calls.

### How GrpcClient corresponds to the code

| Code | Actions |
|---|---|
| `run_client`, up to the match; the start of `run_verify_proof` | `Wake` |
| `ProverNetworkClient::new` | `Connect` |
| the id decoded, the call | `Answered` with the times of the answer by name, or `AskFails` |
| the lines that print a time, in their order | `Unprinted`, `Above`, `Current`, `Value`, `Say` |
| `format_timestamp` | `Overflows`, `FormatFuture`, or `FormatPast` then `FormatAgo`: two reads of the clock |
| `println!` whose reader has gone | `PrintFails` |
| end of the printing, the pause of `proof-request-details` | `Printed`, `PauseOver` |
| `verify-proof` | `Download` or `ReadFile`, then `Check` |
| the machine's clock; the reader of the output | `Tick`, `SetBack`; `HangUp` |

The times of an answer are any `u64`s, each independent of the others: the tool
trusts no order among them, and the service's own answers have none (a request that
failed after it was fulfilled was updated later than it was fulfilled). `status` gives
the deadline; `details` gives three times and, for some requests, `fulfilled_at`, or no
request at all. The u64 and i64 bounds are the constants `MaxStamp` and
`MaxSystemTime`. Fields that are printed as they are, and the parsing of the command
line, are left out. That the tool exits with 0 after a proof was found bad
(`verify_proof.rs`, 44) is in the model: `verdict` is then "bad" and the exit "ok".

`verify-proof` calls three functions of sp1, which is not in the repository. They are
modelled by what they may do: `setup_logger` (10) may panic, since `main` has set a
global subscriber already (whether it does, for every `verify-proof`, depends on the
version of sp1); `ProverClient::from_env` and `verify` (41, 42) may panic, over the
environment for instance, or give a verdict. So nothing is said of when
`verify-proof` panics: `PanicsExplained` is about the commands that ask.

## 3. Runs

| Run | Checks | States | What it shows |
|---|---|---|---|
| `records` | `TypeOK`, `GuardsMatchProgress`, `LookupStaysCurrent`, `RecordsAgree`, `EvidenceConsistent`, `TimestampsOrdered`, `NoCircularWait`, `EntriesEvolve`, `ImplementsLedger`, `ImplementsQueries` | 639 thousand | Two calls of the writing methods, two signers, two URIs, two error codes, two uploads, three clock values |
| `artifacts` | `ProofAvailable`, `ToldProofsStayDownloadable`, `AckedRequestsKnown` | 298 thousand | Three calls, two requests, three uploads, status reads in between, PUTs of other clients |
| `returns` | `EveryCallReturns` | 23 thousand | Three calls on both mutexes, under fairness |
| `shutdown` | `TypeOK`, `StoreOutlivesCalls`, `ExitIsClean`, `RegisteredAfterUpload`, `ImplementsDraining`, `SignalEndsProcess` | 3700 | Signal, failing ports, calls of others and the onboarding in every order, under fairness |
| `pages` | `QueryTypeOK`, `PagesAreSlices`, `PagesPartition` | 11 thousand, with 64 queries in each | Three requests of two bodies in every state, under every iteration order |
| `sweep` | `SweepComplete`, `SweptOnce` | 1.5 million | A reader of pages of one or two requests, among writers of three |
| `polling` | `HeldIsAssigned`, `PollServesOldest`, `NoneCutsIn`, `AssignedIsConcluded` | 104 thousand | Three provers, two of them with one address, that poll with a deadline and a limit of 1; two faults, deadlines that pass |
| `polling_as_drawn` | `AssignedIsConcluded` | 97 thousand | Two provers that poll without a deadline and with a page for all requests |
| `tool` | `TypeOK`, `PanicsExplained`, `SuccessIsWhole`, `CommandEnds` | 570 thousand | Every command and answer, a clock of three values, set back at any moment, a reader that goes |
| `evidence_after_failure` | `EvidenceOnlyWhenFulfilled` | violated | see Findings |
| `onboarding` | `RegisteredProgramDownloadable` | violated | see Findings |
| `timestamps` | `FormatsEveryTimestamp` | violated | see Findings |

Bounds. Two concurrent calls are enough for one to be suspended under a guard
while the other queues; three give a queue with two waiters, of which the first
may be dropped. Calls return to `idle` and are reused, so histories are of any
length. One request shows every sequence of fulfil and fail on it; two show that
an operation on one leaves the other alone. Each upload uses up a URL, so the
number of URLs bounds the uploads: two allow a repeated fulfil, three a repeated
fulfil of one request next to the other's. Two program URIs and one hash allow a
replacement. Three clock values tell creation, fulfilment and last update apart.
`MaxClock` bounds the clock and nothing else is bounded. Calls, ids and URLs are
interchangeable, so the safety runs use them as a symmetry set; the runs with a
liveness property do not.

For `Coordinator`, three calls of others are more than the drain can tell apart, and
one URL is all that a client that runs once can be given; no counter needs a bound.

For queries, three requests and two clock values give ties, orders and late inserts
(a request stamped at 0 and inserted when others stamped at 1 are there); `limit`
0, 1, 2 and absent, with pages absent and 1, put the border of a page before, between
and after them. The reader needs two pages and a request on each side of the
border, which three requests and a limit of 1 give. For the provers, a limit of 1
is what makes an old or expired request able to keep another off the page; deadlines
of 1 and 2 under a clock that ends at 2 let one, both or none expire. With
`PollDeadline` FALSE and a limit of 1, TLC finds `AssignedIsConcluded` violated by an
expired request that fills the page; `polling_as_drawn` has a limit of 2 for its two
requests. `MaxClock`
and `MaxFaults` are the bounds. For `GrpcClient`, one second more than
`MaxSystemTime` stands for all that a `SystemTime` cannot hold, and the times below lie
before, at and after each value of the clock.

`CHECK_DEADLOCK` stays on where no run has a state without a next step. It is off
for `Coordinator` and `GrpcClient`: a process ends, and has no step then.

Fairness of `ProverNetwork`. `Fairness` is weak fairness of `Resume(c)`, for each call, and of
`ServePut(u)`, for each upload. tokio polls every future that was woken, and the
HTTP server is a task of the same process that handles what it received. A call
that queues is woken when the mutex is handed to it, and stays the owner until it
runs, so weak fairness is enough. Nothing is assumed of clients (they need not
call or go away) and nothing of `UploadFails`. What the code does *not* guarantee
is that the store answers at all: the upload has no timeout, so
`EveryCallReturns` is as good as the HTTP server.

Fairness of `Coordinator`. Tasks that can run are run, one weak fairness per task
and per connection. Calls of others end: that is `EveryCallReturns`, together with
clients that go away or take their answer. Whoever holds the HTTP port answers
what is sent to it. Nothing is assumed of signals, of the time the servers take
to come up compared with the client, or of connections that break.
`SignalEndsProcess` needs the assumption that calls end: one call that never returns keeps
the gRPC server draining, and the process alive, for ever.

Fairness of `ProverPolling`. Each prover polls again once its page is dealt with,
and deals with its page (`WF` of `Poll(p)` and `Work(p)`): that is what a prover is,
and it is assumed of it rather than justified by code. The choice of `FulfillProof` or
`FailFulfillment`, the order of its page, the clients and the clock are free, and
of `DropRequest` or `InsertRequest` nothing is assumed. Faults are
bounded by `MaxFaults`; without a bound a prover that crashes for ever concludes
nothing. The clock may stop: then a request is still concluded, which is the stronger
claim, since its deadline does not end the matter.

Fairness of `GrpcClient`. `WF` of `Run`, the tool's own steps: connecting and
asking end after fifteen seconds at the latest (`client.rs`, 17-18), which is
`AskFails` or the error of `Connect`. Nothing is assumed of `Download`, because
`reqwest::get` has no timeout, nor of the clock or the reader. `CommandEnds` excepts
only the command that waits for its download for ever: a download that returns, with
bytes or an error, is followed by an end.

## 4. Proofs

All theorems hold for any number of calls, requests, URLs, programs and signers
and for a clock of any length. They assume what the modules state by `ASSUME`:
`Nil`, `NoCall` and `Foreign` are values of their own (`ConstantsAssumption`,
`NilAssumption`, `LedgerNilAssumption`, `NoCallAssumption`, `ElfAssumption`,
`NilIsNoStatus`, `NilIsNoRequest`, `QueryNilAssumption`, `ClientIsNoStream`), 0 is
an error number, `MaxClock` is a number, `RequestId` is finite (an id is 32 bytes;
`FiniteIdsAssumption`, `QueryConstants`), queries are queries
(`QueriesAssumption`), provers have addresses and a limit (`ProverAssumption`), and
the bounds of the tool are in the order that u64 and `SystemTime` are
(`ToolConstants`). TLC evaluates these in the runs.

| Theorem | States |
|---|---|
| `TypeCorrect` | `Spec => []TypeOK` |
| `GuardsCorrect` | `Spec => []GuardsMatchProgress` |
| `NeverCircularWait` | `Spec => []NoCircularWait` |
| `LookupAlwaysCurrent` | `Spec => []LookupStaysCurrent` |
| `RecordsAlwaysAgree`, `EvidenceAlwaysConsistent`, `TimestampsAlwaysOrdered` | the invariants of an entry |
| `ProofAlwaysAvailable`, `ToldProofsAlwaysDownloadable`, `AckedAlwaysKnown` | what clients rely on |
| `EntriesAlwaysEvolve` | `Spec => EntriesEvolve` |
| `Refines` | `Spec => ImplementsLedger` |
| `ShowsAsQueries` | `Spec => ImplementsQueries` |
| `CoordinatorTyped`, `StoreAlwaysOutlivesCalls`, `ExitAlwaysClean`, `AlwaysRegisteredAfterUpload` | the invariants of `Coordinator` |
| `AlwaysDrains` | `Spec => ImplementsDraining` |
| `QueryTyped`, `PagesAlwaysSlices`, `PagesAlwaysPartition` | the invariants of `ProofQuery` |
| `SweepAlwaysComplete`, `AlwaysSweptOnce` | the invariants of `ProofSweep` |
| `HeldAlwaysAssigned`, `PollsAlwaysServeOldest` | the invariants of `ProverPolling` |
| `NobodyCutsIn` | `PollingSpec => NoneCutsIn` |
| `ToolTypes`, `PanicsAreExplained`, `SuccessIsAlwaysWhole` | the invariants of `GrpcClient` |

The argument:

1. *Mutex operators.* `Acquire`, `Release` and `Leave` keep a mutex `Orderly` (a
   free mutex has no waiter, nobody claims it twice) and change the claims of no
   call but the one they are about. `Leave` removes a waiter from the middle of
   the queue; that this keeps the queue injective is the one lemma about
   sequences.
2. *Typing* needs to know which fields of a frame are filled at which await: an
   owner of `proof_requests` that is to insert must have an id. So `TypeOK` is
   proved together with `CallsInv`, which ties method, await and frame, and with
   the ownership of both mutexes: a call at `upload` owns `proof_requests`, one
   that waits with its lookup done owns `programs`.
3. *LookupStaysCurrent* follows: only the owner of `programs` writes it, and a
   call that holds its lookup is the owner.
4. *Entries.* The steps that change `proof_requests` write one entry, by
   `NewEntry`, `FulfilledEntry` or `FailedEntry` (lemma `EntrySteps`). `RecordsOf`,
   `EvidenceOf`, `TimesOf` and `EntryEvolves` are stated of one entry, so each is
   proved for the three operators and lifted to the map. The times need also that
   the time a waiting `request_proof` carries is not in the future.
5. *Artifacts.* `ProofAvailable` is not inductive: that a stored PUT holds the
   right proof needs that URLs are used once, that a PUT that is under way
   carries the proof of the request of the call that waits for it, and that
   nothing is stored under a URL that no PUT used. `ArtifactsInv` says so. A PUT of
   another client puts `Foreign` under a URL that was told, which stays told, so what
   `Yields` allows of it does not change (`OthersPutReplaces`, `HoldsYields`).
6. *Refinement.* The mapping reads `proof` off the artifact store. With
   `ProofAvailable` it equals a function of the entry alone (`Abstract`), and then
   the four steps that write an entry or a program map to the four actions of the
   ledger, and all others to stuttering.

7. *Coordinator.* `ServersOK` says what the states of the two servers, the calls
   and `main` say about each other (a call is open only while the gRPC server
   serves or drains; one server is over exactly when the other is), `ClientOK`
   what `run_client` knows of its artifact at each await and of the call it has
   under way. With `TypeOK` and `RegisteredAfterUpload` they are inductive.

8. *Draining.* With the same invariant each step of the process maps to one step of
   `DrainingServer` or to stuttering; that the server is over only when no call is
   open, and that the store is kept until then, is `ServersOK`.
9. *Pages.* `Before` is a strict linear order on the requests, because `place` is an
   injection. From that, `Position` numbers the matching requests without gaps and
   without repetition: the lemmas count `Ahead` sets, each of which is one larger
   than the one before it. Slices of equal length tile the numbers, so pages tile
   the matching requests.
10. *Sweep.* `SweepInv` says of the reader at page n: a request that matched all
   along, is in no tie, and has no older one in `left`, is in `seen` or has a
   position of at least n pages; and one in `seen` with no tie and no older one in
   `joined` has a position below n pages. Each step of the service moves positions only
   by requests that join or leave, which is where `left` and `joined` come from. A
   page that is not full ends the numbering, which turns the first half into
   `SweepComplete`.
11. *Polling.* `PollingInv` adds that an Assigned request has its requester as
    fulfiller, and that what a prover holds was requested with its address. A step of
    another prover on the same request would need to hold it too, and so to have
    the same address.
12. *Waiting.* `NoCircularWait` is drawn from `GuardsMatchProgress` alone. The call that
    owns `proof_requests` works on requests or is about to; it may own `programs` as
    well, but it waits for nothing. The call that owns `programs` runs or waits for
    `proof_requests`, and so for a call that runs: the order of the two mutexes in
    `request_proof` is the whole reason, and the mutant that makes
    `fail_fulfillment` look a program up under its guard breaks it.
13. *The service that queries see.* A step of a handler shows as a step of `ProofQuery`
    by what it does to the entry and to the set of waiting calls: `RequestProof`
    joins it, `LookupProgram` leaves it alone, `InsertRequest` and `Cancel` leave it. The
    proof needs to know that an idle call keeps nothing (`IdleFrames`), so that two
    waiting calls are never taken for one, and that an id that is being opened is
    neither stored nor opened twice (`OpensFresh`, as for the ledger).
14. *The head of the queue.* `PollServesOldest` puts the lemmas on `Position` to use:
    the page is the requests of a position below the limit, so whoever matches and is
    not on it has as many before it as the page holds, and each of these is older or
    tied. That exactly the pending requests of the prover match is the filter with
    `PollingInv`. `NoneCutsIn` goes over the steps: only an insert adds to the
    requests in front, and what it inserts was in front as a waiting call; a call that
    reads the clock now reads a second that is not over; and no step makes a
    request pending again. The two together are the safety behind
    `AssignedIsConcluded`: the set in front of a request shrinks, and a page begins
    with it.
15. *The tool.* `ToolInv` says that what was printed is from the answer, each time under
    its name (`ShownIsGiven`), and that between the two reads of the clock the timestamp
    in hand is older than the first read, which the clock has not fallen behind unless it
    was set back (`BetweenReads`). `SuccessIsWhole` and `PanicsExplained` are inductive
    with them. That the lines come to an end only with the last time of the answer is
    `CurrentIsNext`: whatever is left has a first line. That a timestamp which is past is never beyond a
    `SystemTime` is where `ToolConstants` enters.
16. *Filter and sort.* `Keep` and `SortedByAge` are recursive functions over the
    positions of a sequence. `Recursion` shows, once and for sets and functions, that
    such a function exists, `Induction` that a set with 0 and all successors is `Nat`
    (from the well-foundedness of `<`), since the provers cannot use a theorem about
    an operator. With these, `KeepSublist`: a filter keeps the elements in `A` and
    their order; `InsertSorts`: a value that the iteration met later than all others
    is put where `Before` has it, which is the stability of the sort; `SortSorts`: the
    whole sequence is in the order `Before`. In a sequence in that order the k-th
    request has position k - 1 (`PositionInSorted`, by counting those before it), so
    what skip and take leave is the slice. Any iteration order is covered: that the
    values of the map can be listed by `place` at all is `Enumeration`.

Every invariant and action property of the passing runs is proved. Only model-checked:

- `EveryCallReturns`, `SignalEndsProcess`, `AssignedIsConcluded` and `CommandEnds`, because liveness under fairness is out of reach of the prover.

The three findings are runs.

## 5. Findings

- *Evidence outlives the fulfilment.* `fail_fulfillment` accepts a request of any
  status, and leaves `proof_uri`, `fulfill_tx_hash` and `fulfilled_at` in place.
  `proto/types.proto` (305, 367) includes them only for FULFILLED requests. Run
  `evidence_after_failure`: request, fulfil, fail.
- *A registered program that nobody can download.* `run_client` logs an upload
  that was refused and registers its URL all the same; `run_server` only logs
  that the HTTP server could not take its port. `diagram` (12, 13, 44) has the
  prover GET the program at the registered URI. Run `onboarding`: the HTTP port is
  taken by another program, which refuses the PUT.
- *A deadline that cannot be shown.* `format_timestamp` (`utils.rs`, 5) adds a
  `u64` to `UNIX_EPOCH` and panics above `i64::MAX` seconds, and the deadline of a
  request is any `u64`. Run `timestamps`.

Met while modelling, plain to see in one line of code each, and so without a run:

- `page` defaults to 0 and pages count from 0 (324), `limit` to 50 without a maximum
  (325); `proto/types.proto` (407-411) says that the default page is 1, the default
  limit 10 and its maximum 100. In the model these are `PageNumber` and `DefaultLimit`.
- `from` and `to` are logged as not implemented and ignored (283-291);
  `proto/types.proto` (403-406) describes them as filters. In the model `Matches`
  does not look at them.
- `request_proof` stores the `public_values_hash` of the request's body at once (78);
  `proto/types.proto` (313) includes it only for EXECUTED requests.
- `request_proof` accepts a request for a program that was never created, and stores
  it with an empty URI for good (84); `proto/network.proto` (84) says that
  `CreateProgram` "Must be called before requesting proofs". In the model
  `LookupProgram` finds `Nil`.

## 6. Not modelled

- The handlers that answer `unimplemented` (about a hundred), `get_nonce`,
  `get_owner`, `health_check`, the reflection service and logging: they keep no state
  and a model of them would say nothing.
- The code that prost and tonic generate (`crates/types/rpc/src/generated`, some
  15,800 of the repository's 18,000 lines of Rust): of it, the messages that the
  handlers and filters use are in the models. What remains has no behaviour of its
  own, so the share of all lines that the models stand for stays small although
  every hand-written operation that changes state is an action of some module.
- `execute_proof` and the polls for Unexecutable requests (`diagram`, 36, 47-50):
  the handler answers `unimplemented`, and no handler sets that status.
- Cryptography and encoding: a signature yields an address or an error; a proof
  that is verified gets a verdict.
- A retried `request_proof` opens a second request, and `create_program` may store
  a `created_at` that was read before that of the program it replaces: neither is
  ruled out by code or documentation, and nothing reads the latter but `get_program`.
- Crashes of the coordinator: nothing is persistent, so a restart is a new behaviour
  from `Init`. Crashes of provers are in `ProverPolling`.
- A wall clock of the service that is set back: `TimestampsOrdered` would not hold
  of it.
- PUTs of other clients to URLs that nobody was told, and to artifacts that are no proofs.

## 7. Plan

Done, in this order: `TokioMutex`, `HttpServer`, `ProverNetwork` with its runs,
`ProofLedger` and the refinement, their proofs, `Coordinator` and its proofs,
`ProofQuery`, `ProofSweep` and `ProverPolling` with their proofs, `DrainingServer`
and the refinement, `GrpcClient`, the safety of `GrpcClient`, the refinement of
`ProofQuery`'s service by `ProverNetwork`, the safety behind the provers' liveness, and
the stable sort of the pages.

Possible next steps:

1. What `create_program` promises of the times it stores.
2. The safety behind the liveness of `ProverNetwork`: the queue of a mutex is served in
   order, as an action property.
