----------------------------- MODULE ProofQuery -----------------------------
(***************************************************************************)
(* get_filtered_proof_requests (src/server/prover_network_service.rs): the *)
(* requests that match a filter, oldest first, cut into pages.             *)
(*                                                                         *)
(* The handler reads proof_requests under its mutex and module             *)
(* ProverNetwork shows that the handlers that write it take effect in one  *)
(* step each, so here they are steps.  Two things of theirs matter to a    *)
(* query: a request is stamped with a time read before it is inserted, and *)
(* an insert may change the order in which the hash map is iterated, which *)
(* is the order of requests created in the same second.                    *)
(***************************************************************************)
EXTENDS Naturals, FiniteSets, SequencesExt

CONSTANTS
  RequestId,    \* request ids
  Addr,         \* signer addresses
  VkHash, Version, Mode,
  Bodies,       \* the bodies clients send in this instance
  Error,        \* ProofRequestError numbers
  Queries,      \* the filters clients send in this instance
  Empty,        \* an empty byte string
  Nil,          \* Rust's None
  MaxClock      \* bound on the wall clock, in seconds

Body == [vk_hash: VkHash, version: Version, mode: Mode, deadline: Nat]

ASSUME QueryConstants ==
  /\ IsFiniteSet(RequestId)
  /\ Bodies \subseteq Body
  /\ Error \subseteq Nat /\ 0 \in Error
  /\ MaxClock \in Nat
  /\ Nil \notin Nat \cup Addr

VARIABLES
  requests,   \* the proof_requests map, Nil where there is no entry
  place,      \* where the iteration over the map meets each id
  waiting,    \* request_proof calls that have read the clock, and wait
  clock       \* chrono::Utc::now().timestamp()

queryVars == <<requests, place, waiting, clock>>

FulfillmentStatus == {"Assigned", "Fulfilled", "Unfulfillable"}
ExecutionStatus == {"Unexecuted", "Executed"}

ASSUME NilIsNoStatus == Nil \notin FulfillmentStatus

(* The fields a filter looks at. *)
ProofRequest ==
  [vk_hash: VkHash, version: Version, mode: Mode, deadline: Nat,
   requester: Addr, fulfiller: Addr,
   fulfillment_status: FulfillmentStatus, execution_status: ExecutionStatus,
   execute_fail_cause: {"Unspecified"}, settlement_status: {"Unspecified"},
   error: Error, created_at: Nat]

ASSUME NilIsNoRequest == Nil \notin ProofRequest

OpenCall == [id: RequestId, requester: Addr, body: Bodies, created_at: Nat]

Placement == Injection(RequestId, 1 .. Cardinality(RequestId))

QueryTypeOK ==
  /\ requests \in [RequestId -> ProofRequest \cup {Nil}]
  /\ place \in Placement
  /\ waiting \in SUBSET OpenCall
  /\ clock \in Nat

Stored == {i \in RequestId : requests[i] # Nil}

QueryInit ==
  /\ requests = [i \in RequestId |-> Nil]
  /\ place \in Placement
  /\ waiting = {}
  /\ clock = 0

---------------------------------------------------------------------------
(* The query *)

(* A filter: every field may be None. The last five say nothing about      *)
(* which requests match; from, to and not_bid_by should.                   *)
NoQuery ==
  [requester |-> Nil, vk_hash |-> Nil, version |-> Nil,
   fulfillment_status |-> Nil, execution_status |-> Nil, mode |-> Nil,
   execute_fail_cause |-> Nil, settlement_status |-> Nil, error |-> Nil,
   fulfiller |-> Nil, minimum_deadline |-> Nil,
   from |-> Nil, to |-> Nil, not_bid_by |-> Nil, page |-> Nil, limit |-> Nil]

Query ==
  [requester: Addr \cup {Empty, Nil}, vk_hash: VkHash \cup {Empty, Nil},
   version: Version \cup {Empty, Nil},
   fulfillment_status: FulfillmentStatus \cup {Nil},
   execution_status: ExecutionStatus \cup {Nil}, mode: Mode \cup {Nil},
   execute_fail_cause: {"Unspecified", Nil}, settlement_status: {"Unspecified", Nil},
   error: Error \cup {Nil}, fulfiller: Addr \cup {Empty, Nil},
   minimum_deadline: Nat \cup {Nil}, from: Nat \cup {Nil}, to: Nat \cup {Nil},
   not_bid_by: {Nil}, page: Nat \cup {Nil}, limit: Nat \cup {Nil}]

ASSUME QueriesAssumption == Queries \subseteq Query

(* An empty value of these is as good as none. *)
Blankable == {"requester", "vk_hash", "version"}

Exact == {"fulfillment_status", "execution_status", "mode", "execute_fail_cause",
          "settlement_status", "error", "fulfiller"}

(* Mutant: a request is still found at its deadline.                       *)
MatchesAtDeadline(q, r) ==
  /\ \A f \in Blankable : q[f] \in {Nil, Empty} \/ r[f] = q[f]
  /\ \A f \in Exact : q[f] = Nil \/ r[f] = q[f]
  /\ q.minimum_deadline = Nil \/ r.deadline >= q.minimum_deadline

(* Mutant: fulfiller is ignored, as from and to are.                       *)
MatchesAnyFulfiller(q, r) ==
  /\ \A f \in Blankable : q[f] \in {Nil, Empty} \/ r[f] = q[f]
  /\ \A f \in Exact \ {"fulfiller"} : q[f] = Nil \/ r[f] = q[f]
  /\ q.minimum_deadline = Nil \/ r.deadline > q.minimum_deadline

Matches(q, r) ==
  /\ \A f \in Blankable : q[f] \in {Nil, Empty} \/ r[f] = q[f]
  /\ \A f \in Exact : q[f] = Nil \/ r[f] = q[f]
  /\ q.minimum_deadline = Nil \/ r.deadline > q.minimum_deadline

Matching(q) == {i \in Stored : Matches(q, requests[i])}

Older(j, i) == requests[j].created_at < requests[i].created_at
Tied(j, i) == requests[j].created_at = requests[i].created_at

(* Mutant: the newest requests come first.                                 *)
BeforeNewestFirst(j, i) == Older(i, j) \/ (Tied(j, i) /\ place[j] < place[i])

(* Mutant: they are left in the order of the iteration.                    *)
BeforeUnsorted(j, i) == place[j] < place[i]

(* The sort is stable: ties keep the order of the map's iteration. *)
Before(j, i) == Older(j, i) \/ (Tied(j, i) /\ place[j] < place[i])

(* How many of the matching requests the sort puts before i. *)
Ahead(q, i) == {j \in Matching(q) : Before(j, i)}
Position(q, i) == Cardinality(Ahead(q, i))

DefaultLimit == 50
PageNumber(q) == IF q.page = Nil THEN 0 ELSE q.page
PageLimit(q) == IF q.limit = Nil THEN DefaultLimit ELSE q.limit

(* Mutant: the skip is one short.                                          *)
SliceOverlapping(q) ==
  LET first == PageNumber(q) * PageLimit(q)
  IN (IF first = 0 THEN 0 ELSE first - 1) .. first + PageLimit(q) - 1

(* skip(page * limit), take(limit). page and limit are u32 and the product *)
(* is a usize of 64 bits, so it cannot overflow.                           *)
Slice(q) ==
  LET first == PageNumber(q) * PageLimit(q)
  IN first .. first + PageLimit(q) - 1

(* What the handler answers, as a set; Before is its order. *)
Page(q) == {i \in Matching(q) : Position(q, i) \in Slice(q)}

---------------------------------------------------------------------------
(* The steps of the service *)

(* request_proof up to its first await: the clock is read. *)
RequestProof(i, a, b) ==
  /\ i \notin Stored
  /\ \A w \in waiting : w.id # i
  /\ waiting' = waiting \cup {[id |-> i, requester |-> a, body |-> b,
                               created_at |-> clock]}
  /\ UNCHANGED <<requests, place, clock>>

(* Mutant: created_at is left to ..Default::default().                     *)
NewRequestUnstamped(w) ==
  [vk_hash |-> w.body.vk_hash, version |-> w.body.version, mode |-> w.body.mode,
   deadline |-> w.body.deadline,
   requester |-> w.requester, fulfiller |-> w.requester,
   fulfillment_status |-> "Assigned", execution_status |-> "Unexecuted",
   execute_fail_cause |-> "Unspecified", settlement_status |-> "Unspecified",
   error |-> 0, created_at |-> 0]

(* Mutant: fulfillment_status is left to ..Default::default().             *)
NewRequestDefaultStatus(w) ==
  [vk_hash |-> w.body.vk_hash, version |-> w.body.version, mode |-> w.body.mode,
   deadline |-> w.body.deadline,
   requester |-> w.requester, fulfiller |-> w.requester,
   fulfillment_status |-> "UnspecifiedFulfillmentStatus",
   execution_status |-> "Unexecuted",
   execute_fail_cause |-> "Unspecified", settlement_status |-> "Unspecified",
   error |-> 0, created_at |-> w.created_at]

(* Settlement status and cause of failure are left to their defaults, and  *)
(* no handler writes them later.                                           *)
NewRequest(w) ==
  [vk_hash |-> w.body.vk_hash, version |-> w.body.version, mode |-> w.body.mode,
   deadline |-> w.body.deadline,
   requester |-> w.requester, fulfiller |-> w.requester,
   fulfillment_status |-> "Assigned", execution_status |-> "Unexecuted",
   execute_fail_cause |-> "Unspecified", settlement_status |-> "Unspecified",
   error |-> 0, created_at |-> w.created_at]

(* Its insert: the table may grow, and then be iterated in another order. *)
InsertRequest(w) ==
  /\ w \in waiting
  /\ waiting' = waiting \ {w}
  /\ requests' = [requests EXCEPT ![w.id] = NewRequest(w)]
  /\ place' \in Placement
  /\ UNCHANGED clock

(* The handler is dropped with its client. *)
DropRequest(w) ==
  /\ w \in waiting
  /\ waiting' = waiting \ {w}
  /\ UNCHANGED <<requests, place, clock>>

Fulfilled(r, a) ==
  [r EXCEPT !.fulfillment_status = "Fulfilled", !.execution_status = "Executed",
            !.fulfiller = a]

(* Mutant: a failed request goes back to the queue.                        *)
FailedReassigned(r, e) ==
  [r EXCEPT !.fulfillment_status = "Assigned", !.error = e]

(* An error that is not given is 0. *)
Failed(r, e) == [r EXCEPT !.fulfillment_status = "Unfulfillable", !.error = e]

FulfillProof(i, a) ==
  /\ i \in Stored
  /\ requests' = [requests EXCEPT ![i] = Fulfilled(@, a)]
  /\ UNCHANGED <<place, waiting, clock>>

FailFulfillment(i, e) ==
  /\ i \in Stored
  /\ requests' = [requests EXCEPT ![i] = Failed(@, e)]
  /\ UNCHANGED <<place, waiting, clock>>

Tick ==
  /\ clock < MaxClock
  /\ clock' = clock + 1
  /\ UNCHANGED <<requests, place, waiting>>

Requesting ==
  \/ \E i \in RequestId, a \in Addr, b \in Bodies : RequestProof(i, a, b)
  \/ \E w \in waiting : InsertRequest(w) \/ DropRequest(w)

Concluding ==
  \E i \in RequestId : \/ \E a \in Addr : FulfillProof(i, a)
                       \/ \E e \in Error : FailFulfillment(i, e)

ServiceNext == Requesting \/ Concluding \/ Tick

QuerySpec == QueryInit /\ [][ServiceNext]_queryVars

---------------------------------------------------------------------------
(* Reference definition: the handler's steps on a Vec *)

(* requests.values(), in the order of the iteration. *)
Values ==
  CHOOSE s \in SetToSeqs(Stored) :
    \A m, n \in DOMAIN s : m < n => place[s[m]] < place[s[n]]

(* filter: one value after the other. *)
Keep(s, A) ==
  LET kept[n \in 0 .. Len(s)] ==
        IF n = 0 THEN <<>>
        ELSE IF s[n] \in A THEN Append(kept[n - 1], s[n]) ELSE kept[n - 1]
  IN kept[Len(s)]

Collected(q) == Keep(Values, Matching(q))

(* Mutant: among ties the last comes first.                                *)
InsertUnstable(s, i) ==
  Keep(s, {j \in Stored : Older(j, i)})
    \o <<i>> \o Keep(s, {j \in Stored : ~Older(j, i)})

(* After those that are as old, before those that are younger. *)
Insert(s, i) ==
  Keep(s, {j \in Stored : ~Older(i, j)})
    \o <<i>> \o Keep(s, {j \in Stored : Older(i, j)})

(* sort_by created_at, a stable sort. *)
SortedByAge(s) ==
  LET sorted[n \in 0 .. Len(s)] ==
        IF n = 0 THEN <<>> ELSE Insert(sorted[n - 1], s[n])
  IN sorted[Len(s)]

(* skip, then take: a slice that stops at the end of the Vec. *)
Answer(q) ==
  LET sorted == SortedByAge(Collected(q))
      first == PageNumber(q) * PageLimit(q)
  IN SubSeq(sorted, first + 1,
            IF first + PageLimit(q) < Len(sorted) THEN first + PageLimit(q)
            ELSE Len(sorted))

(* The definition by positions, which the other modules and the proofs     *)
(* use, gives what filtering, sorting and slicing the values of the hash   *)
(* map gives, whatever the order of its iteration: no slot of the page is  *)
(* lost or shared among ties, at its borders or past the end.              *)
PagesAreSlices ==
  \A q \in Queries :
    LET answer == Answer(q) IN
    /\ ToSet(answer) = Page(q)
    /\ Len(answer) = Cardinality(Page(q))
    /\ \A m, n \in DOMAIN answer : m < n => Before(answer[m], answer[n])

(* A client that reads all pages of one state of the map gets each         *)
(* matching request once.                                                  *)
PagesPartition ==
  \A q \in Queries :
    LET pages == [n \in 0 .. Cardinality(Stored) |-> Page([q EXCEPT !.page = n])] IN
    /\ PageLimit(q) > 0 => UNION Range(pages) = Matching(q)
    /\ \A m, n \in DOMAIN pages : m # n => pages[m] \cap pages[n] = {}
    /\ \A n \in DOMAIN pages : Cardinality(pages[n]) <= PageLimit(q)

============================================================================
