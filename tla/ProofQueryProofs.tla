-------------------------- MODULE ProofQueryProofs --------------------------
(***************************************************************************)
(* What pages are, for any number of requests, any filter and any order of *)
(* the hash map's iteration: positions number the matching requests        *)
(* without a gap, oldest first, so that the pages of one state of the map  *)
(* are disjoint, full but for the last, and leave nothing out; and the     *)
(* filter, the stable sort, the skip and the take of the handler give      *)
(* these positions.                                                        *)
(***************************************************************************)
EXTENDS ProofQuery, FiniteSetTheorems, SequenceTheorems, WellFoundedInduction,
        TLAPS

(* A call that has read the clock has an id that is not yet in the map, so *)
(* no entry is ever replaced by a new one.                                 *)
WaitingFresh ==
  /\ \A w \in waiting : w.id \notin Stored
  /\ \A w, x \in waiting : w.id = x.id => w = x

QueryInv == QueryTypeOK /\ WaitingFresh

---------------------------------------------------------------------------
(* Types *)

LEMMA NewRequestTyped ==
  ASSUME NEW w \in OpenCall
  PROVE  NewRequest(w) \in ProofRequest /\ NewRequest(w) # Nil
<1>1. w.body \in Body
  BY QueryConstants DEF OpenCall
<1>2. NewRequest(w) \in ProofRequest
  BY <1>1, QueryConstants
  DEF NewRequest, ProofRequest, OpenCall, Body, FulfillmentStatus, ExecutionStatus
<1> QED
  BY <1>2, NilIsNoRequest

LEMMA ConcludedTyped ==
  ASSUME NEW r \in ProofRequest
  PROVE  /\ \A a \in Addr : Fulfilled(r, a) \in ProofRequest
         /\ \A e \in Error : Failed(r, e) \in ProofRequest
BY DEF Fulfilled, Failed, ProofRequest, FulfillmentStatus, ExecutionStatus

(* Each step of the service writes at most one entry, and either it is new *)
(* or it keeps what identifies the request, its creation time included.    *)
Written(i, r) ==
  /\ i \in RequestId /\ r \in ProofRequest /\ r # Nil
  /\ requests' = [requests EXCEPT ![i] = r]

LEMMA InsertWrites ==
  ASSUME QueryInv, NEW w \in waiting, InsertRequest(w)
  PROVE  /\ w \in OpenCall /\ w.id \notin Stored
         /\ Written(w.id, NewRequest(w))
<1>1. w \in OpenCall /\ w.id \in RequestId
  BY DEF QueryInv, QueryTypeOK, OpenCall
<1> QED
  BY <1>1, NewRequestTyped DEF QueryInv, InsertRequest, Written, WaitingFresh

SameIdentity(r, s) ==
  /\ s.created_at = r.created_at
  /\ s.requester = r.requester
  /\ s.vk_hash = r.vk_hash

LEMMA ConcludingWrites ==
  ASSUME QueryInv, NEW i \in RequestId,
         \/ \E a \in Addr : FulfillProof(i, a)
         \/ \E e \in Error : FailFulfillment(i, e)
  PROVE  /\ UNCHANGED <<place, waiting>>
         /\ i \in Stored
         /\ \E r \in ProofRequest :
              Written(i, r) /\ SameIdentity(requests[i], r)
<1>1. i \in Stored
  BY DEF FulfillProof, FailFulfillment
<1>2. requests[i] \in ProofRequest
  BY <1>1 DEF QueryInv, QueryTypeOK, Stored
<1>3. ASSUME NEW a \in Addr, FulfillProof(i, a)
      PROVE  \E r \in ProofRequest : Written(i, r) /\ SameIdentity(requests[i], r)
  <2>1. Written(i, Fulfilled(requests[i], a))
    BY <1>2, <1>3, ConcludedTyped, NilIsNoRequest DEF FulfillProof, Written
  <2>2. SameIdentity(requests[i], Fulfilled(requests[i], a))
    BY <1>2 DEF SameIdentity, Fulfilled, ProofRequest
  <2> QED
    BY <2>1, <2>2 DEF Written
<1>4. ASSUME NEW e \in Error, FailFulfillment(i, e)
      PROVE  \E r \in ProofRequest : Written(i, r) /\ SameIdentity(requests[i], r)
  <2>1. Written(i, Failed(requests[i], e))
    BY <1>2, <1>4, ConcludedTyped, NilIsNoRequest DEF FailFulfillment, Written
  <2>2. SameIdentity(requests[i], Failed(requests[i], e))
    BY <1>2 DEF SameIdentity, Failed, ProofRequest
  <2> QED
    BY <2>1, <2>2 DEF Written
<1> QED
  BY <1>1, <1>3, <1>4 DEF FulfillProof, FailFulfillment

(* Every other step leaves the map alone. *)
LEMMA OthersWriteNothing ==
  ASSUME [ServiceNext]_queryVars, ~Concluding, \A w \in waiting : ~InsertRequest(w)
  PROVE  UNCHANGED <<requests, place>>
BY DEF ServiceNext, Requesting, RequestProof, DropRequest, Tick, queryVars

(* No entry is dropped, and none changes its creation time. *)
LEMMA EntriesStay ==
  ASSUME QueryInv, [ServiceNext]_queryVars
  PROVE  /\ requests' \in [RequestId -> ProofRequest \cup {Nil}]
         /\ Stored \subseteq Stored'
         /\ \A i \in Stored : SameIdentity(requests[i], requests'[i])
<1> USE DEF QueryInv, QueryTypeOK, Stored
<1>1. ASSUME NEW w \in waiting, InsertRequest(w)
      PROVE  /\ requests' \in [RequestId -> ProofRequest \cup {Nil}]
             /\ Stored \subseteq Stored'
             /\ \A i \in Stored : SameIdentity(requests[i], requests'[i])
  BY <1>1, InsertWrites DEF Written, SameIdentity
<1>2. ASSUME Concluding
      PROVE  /\ requests' \in [RequestId -> ProofRequest \cup {Nil}]
             /\ Stored \subseteq Stored'
             /\ \A i \in Stored : SameIdentity(requests[i], requests'[i])
  <2>1. PICK i \in RequestId : \/ \E a \in Addr : FulfillProof(i, a)
                               \/ \E e \in Error : FailFulfillment(i, e)
    BY <1>2 DEF Concluding
  <2> QED
    BY <2>1, ConcludingWrites DEF Written, SameIdentity
<1> QED
  BY <1>1, <1>2, OthersWriteNothing DEF SameIdentity

LEMMA QueryInvInit == QueryInit => QueryInv
BY DEF QueryInit, QueryInv, QueryTypeOK, WaitingFresh

LEMMA QueryInvNext ==
  ASSUME QueryInv, [ServiceNext]_queryVars
  PROVE  QueryInv'
<1> USE DEF QueryInv, QueryTypeOK
<1>1. requests' \in [RequestId -> ProofRequest \cup {Nil}]
  BY EntriesStay
<1>2. place' \in Placement /\ clock' \in Nat
  BY QueryConstants
  DEF ServiceNext, Requesting, Concluding, RequestProof, InsertRequest, DropRequest,
      FulfillProof, FailFulfillment, Tick, queryVars
<1>3. waiting' \in SUBSET OpenCall /\ WaitingFresh'
  <2>1. ASSUME NEW i \in RequestId, NEW a \in Addr, NEW b \in Bodies, RequestProof(i, a, b)
        PROVE  waiting' \in SUBSET OpenCall /\ WaitingFresh'
    BY <2>1 DEF RequestProof, OpenCall, WaitingFresh, Stored
  <2>2. ASSUME NEW w \in waiting, InsertRequest(w)
        PROVE  waiting' \in SUBSET OpenCall /\ WaitingFresh'
    <3>1. w.id \in RequestId
      BY DEF OpenCall
    <3>2. \A i \in RequestId \ {w.id} : requests'[i] = requests[i]
      BY <2>2, <3>1 DEF InsertRequest
    <3> QED
      BY <2>2, <3>2 DEF InsertRequest, WaitingFresh, Stored
  <2>3. ASSUME NEW w \in waiting, DropRequest(w)
        PROVE  waiting' \in SUBSET OpenCall /\ WaitingFresh'
    BY <2>3 DEF DropRequest, WaitingFresh, Stored
  <2>4. CASE Concluding
    <3>1. PICK i \in RequestId : \/ \E a \in Addr : FulfillProof(i, a)
                                 \/ \E e \in Error : FailFulfillment(i, e)
      BY <2>4 DEF Concluding
    <3>2. waiting' = waiting /\ Stored' = Stored
      BY <3>1, ConcludingWrites DEF Written, Stored
    <3> QED
      BY <3>2 DEF WaitingFresh
  <2>5. CASE Tick \/ UNCHANGED queryVars
    BY <2>5 DEF Tick, queryVars, WaitingFresh, Stored
  <2> QED
    BY <2>1, <2>2, <2>3, <2>4, <2>5 DEF ServiceNext, Requesting
<1> QED
  BY <1>1, <1>2, <1>3

LEMMA QueryInvHolds == QuerySpec => []QueryInv
BY QueryInvInit, QueryInvNext, PTL DEF QuerySpec

(* Type correctness of the map, the waiting calls and the clock.           *)
THEOREM QueryTyped == QuerySpec => []QueryTypeOK
<1>1. QueryInv => QueryTypeOK
  BY DEF QueryInv
<1> QED
  BY <1>1, QueryInvHolds, PTL

---------------------------------------------------------------------------
(* Positions *)

LEMMA PlaceType == \A f \in Placement : \A i \in RequestId : f[i] \in Nat
<1>1. Cardinality(RequestId) \in Nat
  BY QueryConstants, FS_CardinalityType
<1>2. Placement \subseteq [RequestId -> 1 .. Cardinality(RequestId)]
  BY DEF Placement, Injection
<1> QED
  BY <1>1, <1>2

(* The sort is a strict total order of the stored requests: creation times *)
(* first, and the places of the iteration, which differ, among ties.       *)
LEMMA BeforeIsOrder ==
  ASSUME QueryTypeOK
  PROVE  /\ \A i \in Stored : requests[i].created_at \in Nat /\ place[i] \in Nat
         /\ \A i \in Stored : ~Before(i, i)
         /\ \A i, j, k \in Stored : Before(i, j) /\ Before(j, k) => Before(i, k)
         /\ \A i, j \in Stored : i # j => Before(i, j) \/ Before(j, i)
<1>1. \A i \in Stored : requests[i].created_at \in Nat
  BY DEF QueryTypeOK, Stored, ProofRequest
<1>2. \A i \in Stored : place[i] \in Nat
  BY PlaceType DEF QueryTypeOK, Stored
<1>3. \A i, j \in Stored : place[i] = place[j] => i = j
  BY DEF QueryTypeOK, Placement, Injection, IsInjective, Stored
<1>4. \A i \in Stored : ~Before(i, i)
  BY <1>1, <1>2 DEF Before, Older, Tied
<1>5. \A i, j, k \in Stored : Before(i, j) /\ Before(j, k) => Before(i, k)
  BY <1>1, <1>2 DEF Before, Older, Tied
<1>6. \A i, j \in Stored : i # j => Before(i, j) \/ Before(j, i)
  BY <1>1, <1>2, <1>3 DEF Before, Older, Tied
<1> QED
  BY <1>1, <1>2, <1>4, <1>5, <1>6

LEMMA MatchingFinite ==
  ASSUME NEW q
  PROVE  /\ IsFiniteSet(Matching(q)) /\ Cardinality(Matching(q)) \in Nat
         /\ IsFiniteSet(Stored) /\ Cardinality(Stored) \in Nat
         /\ Cardinality(Matching(q)) <= Cardinality(Stored)
         /\ \A i : IsFiniteSet(Ahead(q, i)) /\ Position(q, i) \in Nat
<1>1. IsFiniteSet(Stored) /\ Cardinality(Stored) \in Nat
  <2>1. Stored \in SUBSET RequestId
    BY DEF Stored
  <2> QED
    BY <2>1, QueryConstants, FS_Subset, FS_CardinalityType
<1>2. /\ IsFiniteSet(Matching(q)) /\ Cardinality(Matching(q)) \in Nat
      /\ Cardinality(Matching(q)) <= Cardinality(Stored)
  <2>1. Matching(q) \in SUBSET Stored
    BY DEF Matching
  <2> QED
    BY <1>1, <2>1, FS_Subset, FS_CardinalityType
<1>3. ASSUME NEW i
      PROVE  IsFiniteSet(Ahead(q, i)) /\ Position(q, i) \in Nat
  <2>1. Ahead(q, i) \in SUBSET Matching(q)
    BY DEF Ahead
  <2> QED
    BY <1>2, <2>1, FS_Subset, FS_CardinalityType DEF Position
<1> QED
  BY <1>1, <1>2, <1>3

(* Who is sorted before another has the lower position. *)
LEMMA PositionOrdered ==
  ASSUME QueryTypeOK, NEW q, NEW i \in Matching(q), NEW j \in Matching(q), Before(j, i)
  PROVE  Position(q, j) < Position(q, i)
<1>1. i \in Stored /\ j \in Stored
  BY DEF Matching
<1>2. Ahead(q, j) \subseteq Ahead(q, i)
  BY <1>1, BeforeIsOrder DEF Ahead, Matching
<1>3. j \in Ahead(q, i) /\ j \notin Ahead(q, j)
  BY <1>1, BeforeIsOrder DEF Ahead
<1>4. /\ Cardinality(Ahead(q, j)) <= Cardinality(Ahead(q, i))
      /\ Cardinality(Ahead(q, i)) # Cardinality(Ahead(q, j))
  BY <1>2, <1>3, MatchingFinite, FS_Subset
<1> QED
  BY <1>4, MatchingFinite DEF Position

LEMMA PositionBelow ==
  ASSUME QueryTypeOK, NEW q, NEW i \in Matching(q)
  PROVE  Position(q, i) < Cardinality(Matching(q))
<1>1. Ahead(q, i) \in SUBSET Matching(q) /\ i \notin Ahead(q, i)
  BY BeforeIsOrder DEF Ahead, Matching
<1>2. /\ Cardinality(Ahead(q, i)) <= Cardinality(Matching(q))
      /\ Cardinality(Matching(q)) # Cardinality(Ahead(q, i))
  BY <1>1, MatchingFinite, FS_Subset
<1> QED
  BY <1>2, MatchingFinite DEF Position

LEMMA PositionInjective ==
  ASSUME QueryTypeOK, NEW q, NEW i \in Matching(q), NEW j \in Matching(q), i # j
  PROVE  Position(q, i) # Position(q, j)
<1>1. Before(i, j) \/ Before(j, i)
  BY BeforeIsOrder DEF Matching
<1> QED
  BY <1>1, PositionOrdered, MatchingFinite

(* No position is left out. *)
LEMMA PositionSurjective ==
  ASSUME QueryTypeOK, NEW q, NEW n \in 0 .. Cardinality(Matching(q)) - 1
  PROVE  \E i \in Matching(q) : Position(q, i) = n
<1> DEFINE m == Cardinality(Matching(q))
           T == 0 .. m - 1
           f == [i \in Matching(q) |-> Position(q, i)]
<1>1. m \in Nat /\ IsFiniteSet(Matching(q))
  BY MatchingFinite
<1>2. IsFiniteSet(T) /\ Cardinality(T) = m
  BY <1>1, FS_Interval
<1>3. f \in Injection(Matching(q), T)
  <2>1. \A i \in Matching(q) : Position(q, i) \in T
    BY <1>1, PositionBelow, MatchingFinite
  <2>2. f \in [Matching(q) -> T]
    BY <2>1
  <2>3. IsInjective(f)
    BY PositionInjective DEF IsInjective
  <2> QED
    BY <2>2, <2>3 DEF Injection
<1>4. f \in Surjection(Matching(q), T)
  <2> HIDE DEF f, T
  <2> QED
    BY <1>2, <1>3, FS_Injection
<1> QED
  BY <1>4 DEF Surjection

---------------------------------------------------------------------------
(* Pages *)

Numbers(q) == PageNumber(q) \in Nat /\ PageLimit(q) \in Nat

LEMMA SliceSize ==
  ASSUME NEW q, Numbers(q)
  PROVE  /\ PageNumber(q) * PageLimit(q) \in Nat
         /\ IsFiniteSet(Slice(q)) /\ Slice(q) \subseteq Nat
         /\ Cardinality(Slice(q)) = PageLimit(q)
<1> DEFINE first == PageNumber(q) * PageLimit(q)
           last == first + PageLimit(q) - 1
<1>1. first \in Nat /\ PageLimit(q) \in Nat
  BY DEF Numbers
<1>2. Slice(q) = first .. last
  BY DEF Slice
<1> HIDE DEF first
<1>3. first \in Int /\ last \in Int /\ last - first + 1 = PageLimit(q)
      /\ (first > last <=> PageLimit(q) = 0)
  BY <1>1
<1> HIDE DEF last
<1>4. IsFiniteSet(first .. last) /\ Cardinality(first .. last) = PageLimit(q)
  BY <1>1, <1>3, FS_Interval
<1>5. first .. last \subseteq Nat
  BY <1>1, <1>3
<1> QED
  BY <1>1, <1>2, <1>4, <1>5 DEF first

(* A page holds no more than its limit. *)
LEMMA PageSize ==
  ASSUME QueryTypeOK, NEW q, Numbers(q)
  PROVE  /\ IsFiniteSet(Page(q)) /\ Cardinality(Page(q)) \in Nat
         /\ Cardinality(Page(q)) <= PageLimit(q)
<1> DEFINE f == [i \in Page(q) |-> Position(q, i)]
<1>1. f \in [Page(q) -> Slice(q)]
  BY DEF Page
<1>2. IsInjective(f)
  BY PositionInjective DEF IsInjective, Page
<1>3. f \in Injection(Page(q), Slice(q))
  BY <1>1, <1>2 DEF Injection
<1> HIDE DEF f
<1>4. IsFiniteSet(Page(q)) /\ Cardinality(Page(q)) <= Cardinality(Slice(q))
  BY <1>3, SliceSize, FS_Injection
<1> QED
  BY <1>4, SliceSize, FS_CardinalityType

(* A page that others follow is full. *)
LEMMA FullPage ==
  ASSUME QueryTypeOK, NEW q, Numbers(q), NEW i \in Matching(q),
         Position(q, i) >= PageNumber(q) * PageLimit(q) + PageLimit(q)
  PROVE  Cardinality(Page(q)) = PageLimit(q)
<1> DEFINE f == [j \in Page(q) |-> Position(q, j)]
<1>1. f \in [Page(q) -> Slice(q)]
  BY DEF Page
<1>2. ASSUME NEW n \in Slice(q)
      PROVE  \E j \in Page(q) : f[j] = n
  <2>1. n \in Nat /\ n < Position(q, i)
    BY SliceSize, MatchingFinite DEF Slice, Numbers
  <2>2. n \in 0 .. Cardinality(Matching(q)) - 1
    BY <2>1, PositionBelow, MatchingFinite
  <2>3. PICK j \in Matching(q) : Position(q, j) = n
    BY <2>2, PositionSurjective
  <2> QED
    BY <2>3 DEF Page
<1>3. f \in Surjection(Page(q), Slice(q))
  BY <1>1, <1>2 DEF Surjection
<1> HIDE DEF f
<1>4. Cardinality(Slice(q)) <= Cardinality(Page(q))
  BY <1>3, PageSize, FS_Surjection
<1> QED
  BY <1>4, SliceSize, PageSize DEF Numbers

---------------------------------------------------------------------------
(* What a reader of all pages of one state gets *)

Numbered(q, n) == [q EXCEPT !.page = n]

(* The page number is no part of what matches. *)
LEMMA NumberedMatches ==
  ASSUME NEW q \in Query, NEW n \in Nat
  PROVE  /\ Numbered(q, n) \in Query
         /\ PageNumber(Numbered(q, n)) = n
         /\ PageLimit(Numbered(q, n)) = PageLimit(q)
         /\ PageLimit(q) \in Nat
         /\ Numbers(Numbered(q, n))
         /\ Matching(Numbered(q, n)) = Matching(q)
         /\ \A i : Position(Numbered(q, n), i) = Position(q, i)
<1> DEFINE p == Numbered(q, n)
<1>1. p \in Query /\ p.page = n /\ p.limit = q.limit
  BY DEF Numbered, Query
<1>2. /\ \A f \in Blankable \cup Exact : p[f] = q[f]
      /\ p.minimum_deadline = q.minimum_deadline
  BY DEF Numbered, Query, Blankable, Exact
<1> HIDE DEF p
<1>3. \A r : Matches(p, r) <=> Matches(q, r)
  BY <1>2 DEF Matches
<1>4. Matching(p) = Matching(q)
  BY <1>3 DEF Matching
<1>5. \A i : Position(p, i) = Position(q, i)
  BY <1>4 DEF Position, Ahead
<1>6. PageNumber(p) = n /\ PageLimit(p) = PageLimit(q)
  BY <1>1, QueryConstants DEF PageNumber, PageLimit
<1>7. PageLimit(q) \in Nat
  BY DEF Query, PageLimit, DefaultLimit
<1> QED
  BY <1>1, <1>4, <1>5, <1>6, <1>7 DEF p, Numbers

LEMMA NumberedPage ==
  ASSUME NEW q \in Query, NEW n \in Nat
  PROVE  Page(Numbered(q, n)) =
           {i \in Matching(q) : /\ n * PageLimit(q) <= Position(q, i)
                                /\ Position(q, i) < n * PageLimit(q) + PageLimit(q)}
<1>1. \A i \in Matching(q) : Position(q, i) \in Nat
  BY MatchingFinite
<1>2. Slice(Numbered(q, n)) = n * PageLimit(q) .. n * PageLimit(q) + PageLimit(q) - 1
  BY NumberedMatches DEF Slice
<1>3. n * PageLimit(q) \in Nat /\ PageLimit(q) \in Nat
  BY NumberedMatches
<1> QED
  BY <1>1, <1>2, <1>3, NumberedMatches DEF Page

(* Of two page numbers, the higher one starts where the lower one has ended. *)
LEMMA PagesApart ==
  ASSUME NEW m \in Nat, NEW n \in Nat, m < n, NEW l \in Nat
  PROVE  m * l + l <= n * l
<1>1. PICK d \in Nat : n = m + 1 + d
  <2>1. n - m - 1 \in Nat
    OBVIOUS
  <2> QED
    BY <2>1
<1>2. n * l = m * l + l + d * l
  BY <1>1
<1>3. d * l \in Nat /\ m * l \in Nat
  OBVIOUS
<1> QED
  BY <1>2, <1>3

LEMMA PageOf ==
  ASSUME NEW k \in Nat, NEW l \in Nat \ {0}
  PROVE  \E n \in 0 .. k : n * l <= k /\ k < n * l + l
<1> DEFINE n == k \div l
           r == k % l
<1>1. n \in Int /\ r \in 0 .. l - 1 /\ k = l * n + r
  OBVIOUS
<1> HIDE DEF n, r
<1>2. n \in Nat
  <2>1. ASSUME n < 0
        PROVE  l * n <= -l
    <3>1. PICK d \in Nat : n = -1 - d
      <4>1. -1 - n \in Nat
        BY <1>1, <2>1
      <4> QED
        BY <1>1, <4>1
    <3>2. l * n = -l - l * d /\ l * d \in Nat
      BY <3>1
    <3> QED
      BY <3>2
  <2>2. l * n \in Int
    BY <1>1
  <2> QED
    BY <1>1, <2>1, <2>2
<1>3. n * l = l * n /\ l * n \in Nat
  BY <1>2
<1>4. n <= l * n
  <2>1. PICK d \in Nat : l = 1 + d
    <3>1. l - 1 \in Nat
      OBVIOUS
    <3> QED
      BY <3>1
  <2>2. l * n = n + d * n /\ d * n \in Nat
    BY <1>2, <2>1
  <2> QED
    BY <1>2, <2>2
<1> QED
  BY <1>1, <1>2, <1>3, <1>4

LEMMA PagesPartitionStored == QueryTypeOK => PagesPartition
<1> SUFFICES ASSUME QueryTypeOK, NEW q \in Queries
             PROVE  LET pages == [n \in 0 .. Cardinality(Stored) |-> Page(Numbered(q, n))] IN
                    /\ PageLimit(q) > 0 => UNION Range(pages) = Matching(q)
                    /\ \A m, n \in DOMAIN pages : m # n => pages[m] \cap pages[n] = {}
                    /\ \A n \in DOMAIN pages : Cardinality(pages[n]) <= PageLimit(q)
  BY DEF PagesPartition, Numbered
<1> DEFINE N == 0 .. Cardinality(Stored)
           pages == [n \in N |-> Page(Numbered(q, n))]
<1>1. q \in Query
  BY QueriesAssumption
<1>2. N \subseteq Nat /\ DOMAIN pages = N
  OBVIOUS
<1>3. ASSUME NEW m \in N, NEW n \in N, m < n
      PROVE  pages[m] \cap pages[n] = {}
  <2>1. m * PageLimit(q) + PageLimit(q) <= n * PageLimit(q)
    BY <1>1, <1>3, PagesApart, NumberedMatches
  <2>2. m * PageLimit(q) \in Nat /\ n * PageLimit(q) \in Nat /\ PageLimit(q) \in Nat
    BY <1>1, NumberedMatches
  <2> QED
    BY <1>1, <2>1, <2>2, NumberedPage, MatchingFinite
<1>4. \A m, n \in N : m # n => pages[m] \cap pages[n] = {}
  <2> HIDE DEF pages
  <2> QED
    BY <1>2, <1>3
<1>5. \A n \in N : Cardinality(pages[n]) <= PageLimit(q)
  BY <1>1, <1>2, PageSize, NumberedMatches
<1>6. ASSUME PageLimit(q) > 0, NEW i \in Matching(q)
      PROVE  \E n \in N : i \in pages[n]
  <2>1. PageLimit(q) \in Nat \ {0} /\ Position(q, i) \in Nat
    BY <1>1, <1>6, NumberedMatches, MatchingFinite
  <2>2. Position(q, i) <= Cardinality(Stored)
    BY PositionBelow, MatchingFinite
  <2>3. PICK n \in 0 .. Position(q, i) : /\ n * PageLimit(q) <= Position(q, i)
                                         /\ Position(q, i) < n * PageLimit(q) + PageLimit(q)
    BY <2>1, PageOf
  <2>4. n \in N
    BY <2>1, <2>2, <2>3, MatchingFinite
  <2> QED
    BY <1>1, <2>3, <2>4, NumberedPage
<1>7. PageLimit(q) > 0 => UNION Range(pages) = Matching(q)
  <2>1. \A n \in N : pages[n] \subseteq Matching(q)
    BY <1>1, NumberedMatches DEF Page
  <2> QED
    BY <1>6, <2>1 DEF Range
<1> QED
  BY <1>2, <1>4, <1>5, <1>7

(* The pages of one state of the map split what matches among them.        *)
THEOREM PagesAlwaysPartition == QuerySpec => []PagesPartition
BY QueryTyped, PagesPartitionStored, PTL

---------------------------------------------------------------------------
(* Induction and recursion. The provers take no theorem about an operator, *)
(* so both are stated of sets and functions.                               *)

LEMMA Induction ==
  ASSUME NEW T \in SUBSET Nat, 0 \in T, \A n \in T : n + 1 \in T
  PROVE  T = Nat
<1> SUFFICES ASSUME Nat \ T # {} PROVE FALSE
  OBVIOUS
<1> DEFINE Less == OpToRel(<, Nat)
           Rest == Nat \ T
<1>1. \A x, y \in Nat : <<y, x>> \in Less <=> y < x
  BY DEF OpToRel
<1>2. IsWellFoundedOn(Less, Nat)
  BY NatLessThanWellFounded
<1>3. Rest \subseteq Nat /\ Rest # {}
  OBVIOUS
<1> HIDE DEF Less, Rest
<1>4. PICK n \in Rest : \A m \in Rest : <<m, n>> \notin Less
  BY <1>2, <1>3, WFMin
<1>5. n \in Nat /\ n \notin T /\ \A m \in Nat : m < n => m \in T
  BY <1>1, <1>3, <1>4 DEF Rest
<1>6. n # 0 /\ n - 1 \in Nat /\ n - 1 < n
  BY <1>5
<1>7. (n - 1) + 1 \in T
  BY <1>5, <1>6
<1> QED
  BY <1>5, <1>6, <1>7

(* A function on 0 .. N is given by its first value and by each next one.  *)
RunsFrom(b, G, f, N) == f[0] = b /\ \A n \in 1 .. N : f[n] = G[<<n, f[n - 1]>>]

LEMMA Recursion ==
  ASSUME NEW V, NEW b \in V, NEW N \in Nat, NEW G \in [(1 .. N) \X V -> V]
  PROVE  \E f \in [0 .. N -> V] : RunsFrom(b, G, f, N)
<1> DEFINE Runs(f, n) == f[0] = b /\ \A k \in 1 .. n : f[k] = G[<<k, f[k - 1]>>]
           T == {n \in Nat : n <= N => \E f \in [0 .. n -> V] : Runs(f, n)}
<1>1. 0 \in T
  <2> DEFINE f == [k \in 0 .. 0 |-> b]
  <2>1. f \in [0 .. 0 -> V] /\ Runs(f, 0)
    OBVIOUS
  <2> QED
    BY <2>1
<1>2. ASSUME NEW n \in T PROVE n + 1 \in T
  <2> SUFFICES ASSUME n + 1 <= N
               PROVE  \E f \in [0 .. n + 1 -> V] : Runs(f, n + 1)
    OBVIOUS
  <2>1. PICK f \in [0 .. n -> V] : Runs(f, n)
    OBVIOUS
  <2> DEFINE g == [k \in 0 .. n + 1 |-> IF k = n + 1 THEN G[<<k, f[n]>>] ELSE f[k]]
  <2>2. G[<<n + 1, f[n]>>] \in V
    OBVIOUS
  <2>3. g \in [0 .. n + 1 -> V]
    BY <2>2
  <2>4. g[0] = b
    BY <2>1
  <2>5. ASSUME NEW k \in 1 .. n + 1 PROVE g[k] = G[<<k, g[k - 1]>>]
    <3>1. k - 1 \in 0 .. n /\ g[k - 1] = f[k - 1]
      OBVIOUS
    <3>2. CASE k = n + 1
      BY <3>1, <3>2
    <3>3. CASE k # n + 1
      <4>1. k \in 1 .. n
        BY <3>3
      <4> QED
        BY <2>1, <3>1, <4>1
    <3> QED
      BY <3>2, <3>3
  <2> QED
    BY <2>3, <2>4, <2>5
<1>3. T = Nat
  <2> HIDE DEF T
  <2>1. T \in SUBSET Nat
    BY DEF T
  <2> QED
    BY <1>1, <1>2, <2>1, Induction
<1>4. N \in T
  BY <1>3
<1> QED
  BY <1>4 DEF RunsFrom

---------------------------------------------------------------------------
(* Sequences in an order, given as a set of pairs *)

InOrder(s, R) == \A m, n \in 1 .. Len(s) : m < n => <<s[m], s[n]>> \in R

LEMMA ToSetOf ==
  ASSUME NEW U, NEW s \in Seq(U)
  PROVE  ToSet(s) = {s[k] : k \in 1 .. Len(s)} /\ ToSet(s) \subseteq U
BY LenProperties DEF ToSet

(* One more element at the end. *)
LEMMA AppendInOrder ==
  ASSUME NEW U, NEW s \in Seq(U), NEW x \in U, NEW R,
         InOrder(s, R), \A y \in ToSet(s) : <<y, x>> \in R
  PROVE  /\ Append(s, x) \in Seq(U)
         /\ ToSet(Append(s, x)) = ToSet(s) \cup {x}
         /\ InOrder(Append(s, x), R)
<1> DEFINE t == Append(s, x)
<1>1. /\ t \in Seq(U) /\ Len(t) = Len(s) + 1 /\ Len(s) \in Nat
      /\ \A k \in 1 .. Len(s) : t[k] = s[k]
      /\ t[Len(s) + 1] = x
  BY AppendProperties, LenProperties
<1> HIDE DEF t
<1>2. ToSet(t) = ToSet(s) \cup {x}
  <2>1. ASSUME NEW y \in ToSet(t) PROVE y \in ToSet(s) \cup {x}
    <3>1. PICK k \in 1 .. Len(t) : y = t[k]
      BY <1>1, ToSetOf
    <3>2. k \in 1 .. Len(s) \/ k = Len(s) + 1
      BY <1>1
    <3> QED
      BY <1>1, <3>1, <3>2, ToSetOf
  <2>2. ASSUME NEW y \in ToSet(s) PROVE y \in ToSet(t)
    <3>1. PICK k \in 1 .. Len(s) : y = s[k]
      BY ToSetOf
    <3>2. k \in 1 .. Len(t) /\ t[k] = y
      BY <1>1, <3>1
    <3> QED
      BY <1>1, <3>2, ToSetOf
  <2>3. x \in ToSet(t)
    <3>1. Len(s) + 1 \in 1 .. Len(t)
      BY <1>1
    <3> QED
      BY <1>1, <3>1, ToSetOf
  <2> QED
    BY <2>1, <2>2, <2>3
<1>3. InOrder(t, R)
  <2> SUFFICES ASSUME NEW m \in 1 .. Len(t), NEW n \in 1 .. Len(t), m < n
               PROVE  <<t[m], t[n]>> \in R
    BY DEF InOrder
  <2>1. m \in 1 .. Len(s) /\ t[m] = s[m]
    BY <1>1
  <2>2. CASE n \in 1 .. Len(s)
    BY <1>1, <2>1, <2>2 DEF InOrder
  <2>3. CASE n = Len(s) + 1
    BY <1>1, <2>1, <2>3, ToSetOf
  <2> QED
    BY <1>1, <2>2, <2>3
<1> QED
  BY <1>1, <1>2, <1>3 DEF t

(* Two sequences one after the other. *)
LEMMA ConcatInOrder ==
  ASSUME NEW U, NEW s \in Seq(U), NEW t \in Seq(U), NEW R,
         InOrder(s, R), InOrder(t, R),
         \A x \in ToSet(s), y \in ToSet(t) : <<x, y>> \in R
  PROVE  /\ s \o t \in Seq(U)
         /\ ToSet(s \o t) = ToSet(s) \cup ToSet(t)
         /\ InOrder(s \o t, R)
<1> DEFINE u == s \o t
<1>1. /\ u \in Seq(U) /\ Len(u) = Len(s) + Len(t)
      /\ Len(s) \in Nat /\ Len(t) \in Nat
      /\ \A k \in 1 .. Len(u) : u[k] = IF k <= Len(s) THEN s[k] ELSE t[k - Len(s)]
  BY ConcatProperties, LenProperties
<1> HIDE DEF u
<1>0. /\ ToSet(s) = {s[k] : k \in 1 .. Len(s)}
      /\ ToSet(t) = {t[k] : k \in 1 .. Len(t)}
      /\ ToSet(u) = {u[k] : k \in 1 .. Len(u)}
  BY <1>1, ToSetOf
<1>2. ASSUME NEW k \in 1 .. Len(u)
      PROVE  \/ k \in 1 .. Len(s) /\ u[k] = s[k]
             \/ k > Len(s) /\ k - Len(s) \in 1 .. Len(t) /\ u[k] = t[k - Len(s)]
  BY <1>1
<1>3. ToSet(u) = ToSet(s) \cup ToSet(t)
  <2>1. ASSUME NEW y \in ToSet(u) PROVE y \in ToSet(s) \cup ToSet(t)
    <3>1. PICK k \in 1 .. Len(u) : y = u[k]
      BY <1>0
    <3> QED
      BY <1>0, <1>2, <3>1
  <2>2. ASSUME NEW y \in ToSet(s) PROVE y \in ToSet(u)
    <3>1. PICK k \in 1 .. Len(s) : y = s[k]
      BY <1>0
    <3>2. k \in 1 .. Len(u) /\ u[k] = y
      BY <1>1, <3>1
    <3> QED
      BY <1>0, <3>2
  <2>3. ASSUME NEW y \in ToSet(t) PROVE y \in ToSet(u)
    <3>1. PICK k \in 1 .. Len(t) : y = t[k]
      BY <1>0
    <3>2. /\ Len(s) + k \in 1 .. Len(u) /\ ~(Len(s) + k <= Len(s))
          /\ (Len(s) + k) - Len(s) = k
      BY <1>1
    <3>3. u[Len(s) + k] = y
      BY <1>1, <3>1, <3>2
    <3> QED
      BY <1>0, <3>2, <3>3
  <2> QED
    BY <2>1, <2>2, <2>3
<1>4. InOrder(u, R)
  <2> SUFFICES ASSUME NEW m \in 1 .. Len(u), NEW n \in 1 .. Len(u), m < n
               PROVE  <<u[m], u[n]>> \in R
    BY DEF InOrder
  <2>1. CASE n \in 1 .. Len(s)
    BY <1>1, <1>2, <2>1 DEF InOrder
  <2>2. CASE m > Len(s)
    <3>1. /\ m - Len(s) \in 1 .. Len(t) /\ u[m] = t[m - Len(s)]
          /\ n - Len(s) \in 1 .. Len(t) /\ u[n] = t[n - Len(s)]
          /\ m - Len(s) < n - Len(s)
      BY <1>1, <2>2
    <3> QED
      BY <3>1 DEF InOrder
  <2>3. CASE m \in 1 .. Len(s) /\ n > Len(s)
    <3>1. u[m] = s[m]
      BY <1>1, <2>3
    <3>2. n - Len(s) \in 1 .. Len(t) /\ u[n] = t[n - Len(s)]
      BY <1>1, <2>3
    <3>3. u[m] \in ToSet(s)
      BY <1>0, <2>3, <3>1
    <3>4. u[n] \in ToSet(t)
      <4>1. t[n - Len(s)] \in {t[k] : k \in 1 .. Len(t)}
        BY <3>2
      <4> QED
        BY <1>0, <3>2, <4>1
    <3> QED
      BY <3>3, <3>4
  <2> QED
    BY <1>1, <2>1, <2>2, <2>3
<1> QED
  BY <1>1, <1>3, <1>4 DEF u

(* A filter, element by element. *)
KeepStep(s, A, f, n) ==
  f[n] = IF s[n] \in A THEN Append(f[n - 1], s[n]) ELSE f[n - 1]

LEMMA KeepUnfolds ==
  ASSUME NEW U, NEW s \in Seq(U), NEW A
  PROVE  \E f : /\ f[0] = <<>>
                /\ \A n \in 1 .. Len(s) : KeepStep(s, A, f, n)
                /\ Keep(s, A) = f[Len(s)]
<1> DEFINE Kept(f) ==
             f = [n \in 0 .. Len(s) |->
                   IF n = 0 THEN <<>>
                   ELSE IF s[n] \in A THEN Append(f[n - 1], s[n]) ELSE f[n - 1]]
           G == [p \in (1 .. Len(s)) \X Seq(U) |->
                   IF s[p[1]] \in A THEN Append(p[2], s[p[1]]) ELSE p[2]]
<1>1. Len(s) \in Nat /\ \A n \in 1 .. Len(s) : s[n] \in U
  BY LenProperties
<1>2. G \in [(1 .. Len(s)) \X Seq(U) -> Seq(U)]
  <2>1. ASSUME NEW n \in 1 .. Len(s), NEW t \in Seq(U)
        PROVE  Append(t, s[n]) \in Seq(U)
    BY <1>1, AppendProperties
  <2> QED
    BY <2>1
<1>3. <<>> \in Seq(U)
  OBVIOUS
<1>4. PICK g \in [0 .. Len(s) -> Seq(U)] : RunsFrom(<<>>, G, g, Len(s))
  <2> HIDE DEF G
  <2> QED
    BY <1>1, <1>2, <1>3, Recursion
<1>5. \A n \in 1 .. Len(s) : KeepStep(s, A, g, n)
  <2> TAKE n \in 1 .. Len(s)
  <2>1. n - 1 \in 0 .. Len(s)
    BY <1>1
  <2>2. g[n - 1] \in Seq(U)
    BY <2>1
  <2> QED
    BY <1>4, <2>2 DEF KeepStep, RunsFrom
<1>6. Kept(g)
  <2>1. \A n \in 0 .. Len(s) : n # 0 => n \in 1 .. Len(s)
    BY <1>1
  <2> QED
    BY <1>4, <1>5, <2>1 DEF KeepStep, RunsFrom
<1> DEFINE f == CHOOSE h : Kept(h)
<1>7. Kept(f)
  BY <1>6
<1>8. Keep(s, A) = f[Len(s)]
  BY Zenon DEF Keep
<1> HIDE DEF f
<1>9. f[0] = <<>> /\ \A n \in 1 .. Len(s) : KeepStep(s, A, f, n)
  <2>1. f[0] = <<>>
    <3>1. 0 \in 0 .. Len(s)
      BY <1>1
    <3> QED
      BY <1>7, <3>1
  <2>2. ASSUME NEW n \in 1 .. Len(s) PROVE KeepStep(s, A, f, n)
    <3>1. n \in 0 .. Len(s) /\ n # 0
      BY <1>1
    <3> QED
      BY <1>7, <3>1 DEF KeepStep
  <2> QED
    BY <2>1, <2>2
<1> QED
  BY <1>8, <1>9

(* It keeps the elements that are in A, in their order. *)
LEMMA KeepSublist ==
  ASSUME NEW U, NEW s \in Seq(U), NEW A, NEW R, InOrder(s, R)
  PROVE  /\ Keep(s, A) \in Seq(U)
         /\ ToSet(Keep(s, A)) = ToSet(s) \cap A
         /\ InOrder(Keep(s, A), R)
<1>1. PICK f : /\ f[0] = <<>>
               /\ \A n \in 1 .. Len(s) : KeepStep(s, A, f, n)
               /\ Keep(s, A) = f[Len(s)]
  BY KeepUnfolds
<1>2. Len(s) \in Nat /\ \A k \in 1 .. Len(s) : s[k] \in U
  BY LenProperties
<1> DEFINE First(n) == {s[k] : k \in 1 .. n} \cap A
           Good(n) == f[n] \in Seq(U) /\ ToSet(f[n]) = First(n) /\ InOrder(f[n], R)
           T == {n \in Nat : n <= Len(s) => Good(n)}
<1>3. 0 \in T
  <2>1. <<>> \in Seq(U) /\ Len(<<>>) = 0
    OBVIOUS
  <2>2. ToSet(<<>>) = {} /\ InOrder(<<>>, R)
    <3>1. 1 .. Len(<<>>) = {}
      BY <2>1
    <3> QED
      BY <2>1, <3>1 DEF InOrder, ToSet
  <2>3. First(0) = {}
    OBVIOUS
  <2> QED
    BY <1>1, <2>1, <2>2, <2>3
<1>4. ASSUME NEW m \in T PROVE m + 1 \in T
  <2> SUFFICES ASSUME m + 1 <= Len(s) PROVE Good(m + 1)
    OBVIOUS
  <2> DEFINE n == m + 1
  <2>1. n \in 1 .. Len(s) /\ n - 1 = m /\ m <= Len(s) /\ m \in Nat
    BY <1>2
  <2>2. f[m] \in Seq(U) /\ ToSet(f[m]) = First(m) /\ InOrder(f[m], R)
    BY <2>1
  <2>3. \A k \in 1 .. n : k \in 1 .. m \/ k = n
    BY <2>1
  <2>4. First(n) = First(m) \cup ({s[n]} \cap A)
    <3>1. {s[k] : k \in 1 .. n} = {s[k] : k \in 1 .. m} \cup {s[n]}
      BY <2>1, <2>3
    <3> QED
      BY <3>1
  <2>5. CASE s[n] \in A
    <3>1. f[n] = Append(f[m], s[n])
      BY <1>1, <2>1, <2>5 DEF KeepStep
    <3>2. \A y \in ToSet(f[m]) : <<y, s[n]>> \in R
      <4> TAKE y \in ToSet(f[m])
      <4>1. PICK k \in 1 .. m : y = s[k]
        BY <2>2
      <4>2. k \in 1 .. Len(s) /\ k < n
        BY <1>2, <2>1
      <4> QED
        BY <2>1, <4>1, <4>2 DEF InOrder
    <3>3. /\ Append(f[m], s[n]) \in Seq(U)
          /\ ToSet(Append(f[m], s[n])) = ToSet(f[m]) \cup {s[n]}
          /\ InOrder(Append(f[m], s[n]), R)
      BY <1>2, <2>1, <2>2, <3>2, AppendInOrder
    <3> HIDE DEF First
    <3> QED
      BY <2>2, <2>4, <2>5, <3>1, <3>3
  <2>6. CASE s[n] \notin A
    <3>1. f[n] = f[m]
      BY <1>1, <2>1, <2>6 DEF KeepStep
    <3> HIDE DEF First
    <3> QED
      BY <2>2, <2>4, <2>6, <3>1
  <2> QED
    BY <2>5, <2>6
<1>5. T = Nat
  <2> HIDE DEF T
  <2>1. T \in SUBSET Nat
    BY DEF T
  <2> QED
    BY <1>3, <1>4, <2>1, Induction
<1>6. Good(Len(s))
  <2>1. Len(s) \in T
    BY <1>2, <1>5
  <2> HIDE DEF Good
  <2> QED
    BY <1>2, <2>1
<1>7. First(Len(s)) = ToSet(s) \cap A
  BY ToSetOf
<1> QED
  BY <1>1, <1>6, <1>7

---------------------------------------------------------------------------
(* The handler's steps on a Vec *)

PlaceOrder == {p \in Stored \X Stored : place[p[1]] < place[p[2]]}
AgeOrder == {p \in Stored \X Stored : Before(p[1], p[2])}

LEMMA InsertTyped ==
  ASSUME NEW s \in Seq(Stored), NEW i \in Stored
  PROVE  Insert(s, i) \in Seq(Stored)
<1> DEFINE All == Stored \X Stored
<1>1. InOrder(s, All)
  BY LenProperties DEF InOrder
<1>2. \A A : Keep(s, A) \in Seq(Stored)
  BY <1>1, KeepSublist
<1>3. <<i>> \in Seq(Stored)
  OBVIOUS
<1>4. Keep(s, {j \in Stored : ~Older(i, j)}) \o <<i>> \in Seq(Stored)
  BY <1>2, <1>3, ConcatProperties
<1> QED
  BY <1>2, <1>4, ConcatProperties DEF Insert

(* Inserting one that the iteration met later than all the others keeps    *)
(* them sorted, and the ties in the order of the iteration.                *)
LEMMA InsertSorts ==
  ASSUME QueryTypeOK, NEW s \in Seq(Stored), InOrder(s, AgeOrder),
         NEW i \in Stored, \A j \in ToSet(s) : <<j, i>> \in PlaceOrder
  PROVE  /\ Insert(s, i) \in Seq(Stored)
         /\ ToSet(Insert(s, i)) = ToSet(s) \cup {i}
         /\ InOrder(Insert(s, i), AgeOrder)
<1> DEFINE Old == {j \in Stored : ~Older(i, j)}
           Young == {j \in Stored : Older(i, j)}
           old == Keep(s, Old)
           young == Keep(s, Young)
           left == Append(old, i)
<1>1. /\ old \in Seq(Stored) /\ ToSet(old) = ToSet(s) \cap Old
      /\ InOrder(old, AgeOrder)
  BY KeepSublist
<1>2. /\ young \in Seq(Stored) /\ ToSet(young) = ToSet(s) \cap Young
      /\ InOrder(young, AgeOrder)
  BY KeepSublist
<1>3. ToSet(s) \subseteq Stored
  BY ToSetOf
<1>4. \A j \in ToSet(s) \cap Old : <<j, i>> \in AgeOrder
  <2> TAKE j \in ToSet(s) \cap Old
  <2>1. j \in Stored /\ ~Older(i, j) /\ place[j] < place[i]
    BY <1>3 DEF PlaceOrder
  <2>2. Before(j, i)
    BY <2>1, BeforeIsOrder DEF Before, Older, Tied
  <2> QED
    BY <2>1, <2>2 DEF AgeOrder
<1>5. \A j \in ToSet(s) \cap Young : <<i, j>> \in AgeOrder
  BY <1>3 DEF AgeOrder, Before
<1>6. \A j \in ToSet(s) \cap Old, k \in ToSet(s) \cap Young : <<j, k>> \in AgeOrder
  BY <1>3, <1>4, <1>5, BeforeIsOrder DEF AgeOrder
<1> HIDE DEF old, young, Old, Young
<1>7. /\ left \in Seq(Stored) /\ ToSet(left) = (ToSet(s) \cap Old) \cup {i}
      /\ InOrder(left, AgeOrder)
  <2>1. \A j \in ToSet(old) : <<j, i>> \in AgeOrder
    BY <1>1, <1>4
  <2> QED
    BY <1>1, <2>1, AppendInOrder
<1>8. left = old \o <<i>>
  BY <1>1
<1>9. \A j \in ToSet(left), k \in ToSet(young) : <<j, k>> \in AgeOrder
  BY <1>2, <1>5, <1>6, <1>7
<1>10. /\ left \o young \in Seq(Stored)
       /\ ToSet(left \o young) = ToSet(left) \cup ToSet(young)
       /\ InOrder(left \o young, AgeOrder)
  <2> HIDE DEF left
  <2> QED
    BY <1>2, <1>7, <1>9, ConcatInOrder
<1>11. Insert(s, i) = left \o young
  BY <1>8 DEF Insert, old, young, Old, Young
<1>12. ToSet(s) = (ToSet(s) \cap Old) \cup (ToSet(s) \cap Young)
  BY <1>3 DEF Old, Young
<1> QED
  BY <1>2, <1>7, <1>10, <1>11, <1>12

(* The sort, value by value. *)
LEMMA SortUnfolds ==
  ASSUME QueryTypeOK, NEW s \in Seq(Stored)
  PROVE  \E f : /\ f[0] = <<>>
                /\ \A n \in 1 .. Len(s) : f[n] = Insert(f[n - 1], s[n])
                /\ SortedByAge(s) = f[Len(s)]
<1> DEFINE Sorted(f) ==
             f = [n \in 0 .. Len(s) |->
                   IF n = 0 THEN <<>> ELSE Insert(f[n - 1], s[n])]
           G == [p \in (1 .. Len(s)) \X Seq(Stored) |-> Insert(p[2], s[p[1]])]
<1>1. Len(s) \in Nat /\ \A n \in 1 .. Len(s) : s[n] \in Stored
  BY LenProperties
<1>2. G \in [(1 .. Len(s)) \X Seq(Stored) -> Seq(Stored)]
  <2>1. ASSUME NEW n \in 1 .. Len(s), NEW t \in Seq(Stored)
        PROVE  Insert(t, s[n]) \in Seq(Stored)
    BY <1>1, InsertTyped
  <2> QED
    BY <2>1
<1>3. <<>> \in Seq(Stored)
  OBVIOUS
<1>4. PICK g \in [0 .. Len(s) -> Seq(Stored)] : RunsFrom(<<>>, G, g, Len(s))
  <2> HIDE DEF G
  <2> QED
    BY <1>1, <1>2, <1>3, Recursion
<1>5. \A n \in 1 .. Len(s) : g[n] = Insert(g[n - 1], s[n])
  <2> TAKE n \in 1 .. Len(s)
  <2>1. n - 1 \in 0 .. Len(s)
    BY <1>1
  <2>2. g[n - 1] \in Seq(Stored)
    BY <2>1
  <2> QED
    BY <1>4, <2>2 DEF RunsFrom
<1>6. Sorted(g)
  <2>1. \A n \in 0 .. Len(s) : n # 0 => n \in 1 .. Len(s)
    BY <1>1
  <2> QED
    BY <1>4, <1>5, <2>1 DEF RunsFrom
<1> DEFINE f == CHOOSE h : Sorted(h)
<1>7. Sorted(f)
  BY <1>6
<1>8. SortedByAge(s) = f[Len(s)]
  BY Zenon DEF SortedByAge
<1> HIDE DEF f
<1>9. f[0] = <<>> /\ \A n \in 1 .. Len(s) : f[n] = Insert(f[n - 1], s[n])
  <2>1. f[0] = <<>>
    <3>1. 0 \in 0 .. Len(s)
      BY <1>1
    <3> QED
      BY <1>7, <3>1
  <2>2. ASSUME NEW n \in 1 .. Len(s) PROVE f[n] = Insert(f[n - 1], s[n])
    <3>1. n \in 0 .. Len(s) /\ n # 0
      BY <1>1
    <3> QED
      BY <1>7, <3>1
  <2> QED
    BY <2>1, <2>2
<1> QED
  BY <1>8, <1>9

(* It sorts what comes in the order of the iteration, and is stable. *)
LEMMA SortSorts ==
  ASSUME QueryTypeOK, NEW s \in Seq(Stored), InOrder(s, PlaceOrder)
  PROVE  /\ SortedByAge(s) \in Seq(Stored)
         /\ ToSet(SortedByAge(s)) = ToSet(s)
         /\ InOrder(SortedByAge(s), AgeOrder)
<1>1. PICK f : /\ f[0] = <<>>
               /\ \A n \in 1 .. Len(s) : f[n] = Insert(f[n - 1], s[n])
               /\ SortedByAge(s) = f[Len(s)]
  BY SortUnfolds
<1>2. Len(s) \in Nat /\ \A k \in 1 .. Len(s) : s[k] \in Stored
  BY LenProperties
<1> DEFINE First(n) == {s[k] : k \in 1 .. n}
           Good(n) == /\ f[n] \in Seq(Stored) /\ ToSet(f[n]) = First(n)
                      /\ InOrder(f[n], AgeOrder)
           T == {n \in Nat : n <= Len(s) => Good(n)}
<1>3. 0 \in T
  <2>1. <<>> \in Seq(Stored) /\ 1 .. Len(<<>>) = {}
    OBVIOUS
  <2>2. ToSet(<<>>) = {} /\ InOrder(<<>>, AgeOrder)
    BY <2>1 DEF InOrder, ToSet
  <2>3. First(0) = {}
    OBVIOUS
  <2> QED
    BY <1>1, <2>1, <2>2, <2>3
<1>4. ASSUME NEW m \in T PROVE m + 1 \in T
  <2> SUFFICES ASSUME m + 1 <= Len(s) PROVE Good(m + 1)
    OBVIOUS
  <2> DEFINE n == m + 1
  <2>1. n \in 1 .. Len(s) /\ n - 1 = m /\ m <= Len(s) /\ m \in Nat
    BY <1>2
  <2>2. /\ f[m] \in Seq(Stored) /\ ToSet(f[m]) = First(m)
        /\ InOrder(f[m], AgeOrder)
    BY <2>1
  <2>3. \A k \in 1 .. n : k \in 1 .. m \/ k = n
    BY <2>1
  <2>4. First(n) = First(m) \cup {s[n]}
    BY <2>1, <2>3
  <2>5. \A j \in ToSet(f[m]) : <<j, s[n]>> \in PlaceOrder
    <3> TAKE j \in ToSet(f[m])
    <3>1. PICK k \in 1 .. m : j = s[k]
      BY <2>2
    <3>2. k \in 1 .. Len(s) /\ k < n
      BY <1>2, <2>1
    <3> QED
      BY <2>1, <3>1, <3>2 DEF InOrder
  <2>6. f[n] = Insert(f[m], s[n])
    BY <1>1, <2>1
  <2>7. /\ Insert(f[m], s[n]) \in Seq(Stored)
        /\ ToSet(Insert(f[m], s[n])) = ToSet(f[m]) \cup {s[n]}
        /\ InOrder(Insert(f[m], s[n]), AgeOrder)
    BY <1>2, <2>1, <2>2, <2>5, InsertSorts
  <2> HIDE DEF First
  <2> QED
    BY <2>2, <2>4, <2>6, <2>7
<1>5. T = Nat
  <2> HIDE DEF T
  <2>1. T \in SUBSET Nat
    BY DEF T
  <2> QED
    BY <1>3, <1>4, <2>1, Induction
<1>6. Good(Len(s))
  <2>1. Len(s) \in T
    BY <1>2, <1>5
  <2> HIDE DEF Good
  <2> QED
    BY <1>2, <2>1
<1>7. First(Len(s)) = ToSet(s)
  BY ToSetOf
<1> QED
  BY <1>1, <1>6, <1>7

(* A finite set whose elements have different numbers can be listed by them. *)
LEMMA Enumeration ==
  ASSUME NEW S, IsFiniteSet(S), NEW p, \A i \in S : p[i] \in Nat,
         \A i, j \in S : p[i] = p[j] => i = j
  PROVE  \E s \in [1 .. Cardinality(S) -> S] :
           \A m, n \in 1 .. Cardinality(S) : m < n => p[s[m]] < p[s[n]]
<1> DEFINE N == Cardinality(S)
           Lower(i) == {j \in S : p[j] < p[i]}
           low(i) == Cardinality(Lower(i))
           rank == [i \in S |-> low(i) + 1]
<1>1. N \in Nat
  BY FS_CardinalityType
<1>2. ASSUME NEW i \in S
      PROVE  IsFiniteSet(Lower(i)) /\ Cardinality(Lower(i)) \in 0 .. N - 1
  <2>1. Lower(i) \in SUBSET S /\ i \notin Lower(i)
    OBVIOUS
  <2>2. IsFiniteSet(Lower(i)) /\ Cardinality(Lower(i)) <= N /\ Cardinality(Lower(i)) # N
    BY <2>1, FS_Subset
  <2>3. Cardinality(Lower(i)) \in Nat
    BY <2>2, FS_CardinalityType
  <2> QED
    BY <1>1, <2>2, <2>3
<1>3. ASSUME NEW i \in S, NEW j \in S, p[i] < p[j]
      PROVE  Cardinality(Lower(i)) < Cardinality(Lower(j))
  <2>1. Lower(i) \in SUBSET Lower(j) /\ i \in Lower(j) /\ i \notin Lower(i)
    BY <1>3
  <2>2. /\ Cardinality(Lower(i)) <= Cardinality(Lower(j))
        /\ Cardinality(Lower(i)) # Cardinality(Lower(j))
    <3> HIDE DEF Lower
    <3> QED
      BY <1>2, <2>1, FS_Subset
  <2> HIDE DEF Lower
  <2>3. Cardinality(Lower(i)) \in Nat /\ Cardinality(Lower(j)) \in Nat
    BY <1>2, FS_CardinalityType
  <2> QED
    BY <2>2, <2>3
<1>a. \A i \in S : low(i) \in 0 .. N - 1
  BY <1>2
<1>b. \A i, j \in S : p[i] < p[j] => low(i) < low(j)
  BY <1>3
<1>c. \A i \in S : rank[i] = low(i) + 1
  OBVIOUS
<1> HIDE DEF Lower, low
<1>4. rank \in Injection(S, 1 .. N)
  <2>1. rank \in [S -> 1 .. N]
    <3>1. \A i \in S : low(i) + 1 \in 1 .. N
      BY <1>1, <1>a
    <3> QED
      BY <3>1
  <2> HIDE DEF rank
  <2>2. ASSUME NEW i \in S, NEW j \in S, rank[i] = rank[j] PROVE i = j
    <3>1. low(i) = low(j) /\ low(i) \in Nat
      BY <1>1, <1>a, <1>c, <2>2
    <3>2. ~(p[i] < p[j]) /\ ~(p[j] < p[i])
      BY <1>b, <3>1
    <3>3. p[i] \in Nat /\ p[j] \in Nat
      OBVIOUS
    <3> QED
      BY <3>2, <3>3
  <2> QED
    BY <2>1, <2>2 DEF Injection, IsInjective
<1>5. IsFiniteSet(1 .. N) /\ Cardinality(1 .. N) = N
  <2> HIDE DEF N
  <2> QED
    BY <1>1, FS_Interval
<1>6. \A k \in 1 .. N : \E i \in S : rank[i] = k
  <2> HIDE DEF rank, N
  <2>1. rank \in Surjection(S, 1 .. N)
    BY <1>4, <1>5, FS_Injection DEF N
  <2> QED
    BY <2>1 DEF Surjection
<1> DEFINE s == [k \in 1 .. N |-> CHOOSE i \in S : rank[i] = k]
<1>7. \A k \in 1 .. N : s[k] \in S /\ rank[s[k]] = k
  <2> HIDE DEF rank
  <2> QED
    BY <1>6
<1>8. ASSUME NEW m \in 1 .. N, NEW n \in 1 .. N, m < n PROVE p[s[m]] < p[s[n]]
  <2> HIDE DEF s, rank
  <2>1. s[m] \in S /\ s[n] \in S /\ rank[s[m]] = m /\ rank[s[n]] = n
    BY <1>7
  <2>2. low(s[m]) < low(s[n]) /\ low(s[m]) \in Nat /\ low(s[n]) \in Nat
    BY <1>1, <1>8, <1>a, <1>c, <2>1
  <2>3. ~(p[s[n]] < p[s[m]]) /\ p[s[n]] # p[s[m]]
    BY <1>b, <2>1, <2>2
  <2> QED
    BY <2>1, <2>3
<1>9. s \in [1 .. N -> S]
  BY <1>7
<1> QED
  BY <1>8, <1>9

(* A sequence that is strictly in order has as many elements as its length. *)
LEMMA InOrderCounts ==
  ASSUME NEW U, NEW s \in Seq(U), NEW R, InOrder(s, R), \A x \in U : <<x, x>> \notin R
  PROVE  IsFiniteSet(ToSet(s)) /\ Cardinality(ToSet(s)) = Len(s)
<1>1. Len(s) \in Nat /\ s \in [1 .. Len(s) -> U]
  BY LenProperties
<1>2. ToSet(s) = {s[k] : k \in 1 .. Len(s)}
  BY ToSetOf
<1>3. s \in Surjection(1 .. Len(s), ToSet(s))
  <2>1. s \in [1 .. Len(s) -> ToSet(s)]
    BY <1>1, <1>2
  <2> QED
    BY <1>2, <2>1 DEF Surjection
<1>4. IsInjective(s)
  <2>1. ASSUME NEW m \in 1 .. Len(s), NEW n \in 1 .. Len(s), s[m] = s[n]
        PROVE  m = n
    <3>1. ~(m < n) /\ ~(n < m)
      BY <1>1, <2>1 DEF InOrder
    <3> QED
      BY <1>1, <3>1
  <2> QED
    BY <1>1, <2>1 DEF IsInjective
<1>5. s \in Injection(1 .. Len(s), ToSet(s))
  BY <1>3, <1>4 DEF Injection, Surjection
<1>6. IsFiniteSet(1 .. Len(s)) /\ Cardinality(1 .. Len(s)) = Len(s)
  <2> DEFINE N == Len(s)
  <2>1. N \in Nat
    BY <1>1
  <2> HIDE DEF N
  <2>2. IsFiniteSet(1 .. N) /\ Cardinality(1 .. N) = N
    BY <2>1, FS_Interval
  <2> QED
    BY <2>2 DEF N
<1> QED
  BY <1>3, <1>5, <1>6, FS_Surjection

(* The values come in the order of their places. *)
LEMMA ValuesListed ==
  ASSUME QueryTypeOK
  PROVE  Values \in Seq(Stored) /\ ToSet(Values) = Stored /\ InOrder(Values, PlaceOrder)
<1> DEFINE N == Cardinality(Stored)
<1>1. IsFiniteSet(Stored) /\ N \in Nat
  BY MatchingFinite
<1>2. \A i \in Stored : place[i] \in Nat
  BY BeforeIsOrder
<1>3. \A i, j \in Stored : place[i] = place[j] => i = j
  BY DEF QueryTypeOK, Placement, Injection, IsInjective, Stored
<1>4. PICK s \in [1 .. N -> Stored] :
        \A m, n \in 1 .. N : m < n => place[s[m]] < place[s[n]]
  BY <1>1, <1>2, <1>3, Enumeration
<1> DEFINE Listed(t) ==
             \A m, n \in DOMAIN t : m < n => place[t[m]] < place[t[n]]
<1>5. s \in SetToSeqs(Stored) /\ Listed(s)
  <2>1. ASSUME NEW m \in 1 .. N, NEW n \in 1 .. N, m # n PROVE s[m] # s[n]
    <3>1. m < n \/ n < m
      BY <1>1, <2>1
    <3>2. place[s[m]] # place[s[n]]
      BY <1>2, <1>4, <3>1
    <3> QED
      BY <3>2
  <2> QED
    BY <1>4, <2>1 DEF SetToSeqs
<1>6. Values \in SetToSeqs(Stored) /\ Listed(Values)
  BY <1>5 DEF Values
<1>7. Values \in [1 .. N -> Stored]
  BY <1>6 DEF SetToSeqs
<1>8. Values \in Seq(Stored) /\ Len(Values) = N
  BY <1>1, <1>7, IsASeq
<1>9. InOrder(Values, PlaceOrder)
  <2> HIDE DEF N
  <2> QED
    BY <1>6, <1>7, <1>8 DEF InOrder, PlaceOrder
<1>10. ToSet(Values) = Stored
  <2>1. \A i \in Stored : <<i, i>> \notin PlaceOrder
    BY <1>2 DEF PlaceOrder
  <2>2. Cardinality(ToSet(Values)) = N
    BY <1>8, <1>9, <2>1, InOrderCounts
  <2>3. ToSet(Values) \in SUBSET Stored
    BY <1>8, ToSetOf
  <2> QED
    BY <1>1, <2>2, <2>3, FS_Subset
<1> QED
  BY <1>8, <1>9, <1>10

(* In the sorted sequence of what matches, each request stands where its   *)
(* position says.                                                          *)
LEMMA PositionInSorted ==
  ASSUME QueryTypeOK, NEW q, NEW s \in Seq(Stored), InOrder(s, AgeOrder),
         ToSet(s) = Matching(q), NEW k \in 1 .. Len(s)
  PROVE  s[k] \in Matching(q) /\ Position(q, s[k]) = k - 1
<1> DEFINE t == SubSeq(s, 1, k - 1)
<1>1. Len(s) \in Nat /\ (\A n \in 1 .. Len(s) : s[n] \in Stored) /\ k \in Nat /\ k >= 1
  BY LenProperties
<1>2. /\ t \in Seq(Stored) /\ Len(t) = k - 1
      /\ \A n \in 1 .. k - 1 : t[n] = s[n]
  <2>1. \A n \in 1 .. k - 1 : s[n] \in Stored
    BY <1>1
  <2> QED
    BY <1>1, <2>1, SubSeqProperties
<1> HIDE DEF t
<1>3. \A i \in Stored : <<i, i>> \notin AgeOrder
  BY BeforeIsOrder DEF AgeOrder
<1>4. InOrder(t, AgeOrder)
  <2> SUFFICES ASSUME NEW m \in 1 .. k - 1, NEW n \in 1 .. k - 1, m < n
               PROVE  <<t[m], t[n]>> \in AgeOrder
    BY <1>2 DEF InOrder
  <2>1. m \in 1 .. Len(s) /\ n \in 1 .. Len(s) /\ t[m] = s[m] /\ t[n] = s[n]
    BY <1>1, <1>2
  <2> QED
    BY <2>1 DEF InOrder
<1>5. Cardinality(ToSet(t)) = k - 1
  BY <1>2, <1>3, <1>4, InOrderCounts
<1>6. \A m, n \in 1 .. Len(s) : m < n => Before(s[m], s[n])
  BY DEF InOrder, AgeOrder
<1>7. /\ ToSet(s) = {s[n] : n \in 1 .. Len(s)}
      /\ ToSet(t) = {s[n] : n \in 1 .. k - 1}
  BY <1>2, ToSetOf
<1>8. Ahead(q, s[k]) = ToSet(t)
  <2>1. ASSUME NEW j \in Ahead(q, s[k]) PROVE j \in ToSet(t)
    <3>1. j \in ToSet(s) /\ Before(j, s[k])
      BY DEF Ahead
    <3>2. PICK n \in 1 .. Len(s) : j = s[n]
      BY <1>7, <3>1
    <3>3. ~(n = k) /\ ~(k < n)
      BY <1>1, <1>6, <3>1, <3>2, BeforeIsOrder
    <3>4. n \in 1 .. k - 1
      BY <1>1, <3>3
    <3> QED
      BY <1>7, <3>2, <3>4
  <2>2. ASSUME NEW j \in ToSet(t) PROVE j \in Ahead(q, s[k])
    <3>1. PICK n \in 1 .. k - 1 : j = s[n]
      BY <1>7
    <3>2. n \in 1 .. Len(s) /\ n < k
      BY <1>1
    <3>3. Before(j, s[k]) /\ j \in ToSet(s)
      BY <1>6, <1>7, <3>1, <3>2
    <3> QED
      BY <3>3 DEF Ahead
  <2> QED
    BY <2>1, <2>2
<1> QED
  BY <1>5, <1>7, <1>8 DEF Position

(* Skip and take cut out the positions of the slice. *)
LEMMA AnswerIsPage ==
  ASSUME QueryTypeOK, NEW q, Numbers(q)
  PROVE  LET answer == Answer(q) IN
         /\ ToSet(answer) = Page(q)
         /\ Len(answer) = Cardinality(Page(q))
         /\ \A m, n \in DOMAIN answer : m < n => Before(answer[m], answer[n])
<1> DEFINE sorted == SortedByAge(Collected(q))
           N == Len(sorted)
           first == PageNumber(q) * PageLimit(q)
           last == IF first + PageLimit(q) < N THEN first + PageLimit(q) ELSE N
           answer == SubSeq(sorted, first + 1, last)
<1>1. /\ sorted \in Seq(Stored) /\ ToSet(sorted) = Matching(q)
      /\ InOrder(sorted, AgeOrder)
  <2>1. /\ Collected(q) \in Seq(Stored)
        /\ ToSet(Collected(q)) = Stored \cap Matching(q)
        /\ InOrder(Collected(q), PlaceOrder)
    BY ValuesListed, KeepSublist DEF Collected
  <2>2. Stored \cap Matching(q) = Matching(q)
    BY DEF Matching
  <2> QED
    BY <2>1, <2>2, SortSorts
<1>2. Answer(q) = answer
  BY DEF Answer
<1> HIDE DEF sorted
<1>3. N \in Nat /\ \A k \in 1 .. N : sorted[k] \in Stored
  BY <1>1, LenProperties
<1>4. /\ first \in Nat /\ PageLimit(q) \in Nat
      /\ Slice(q) = first .. first + PageLimit(q) - 1
  BY SliceSize DEF Numbers, Slice
<1> HIDE DEF first, N
<1>5. /\ last \in Nat /\ last <= N
      /\ \A k \in Nat : k \in first + 1 .. last
           <=> k \in 1 .. N /\ k - 1 \in first .. first + PageLimit(q) - 1
  BY <1>3, <1>4
<1> HIDE DEF last
<1>6. /\ answer \in Seq(Stored)
      /\ Len(answer) = IF first + 1 <= last THEN last - (first + 1) + 1 ELSE 0
      /\ \A k \in 1 .. last - (first + 1) + 1 : answer[k] = sorted[first + 1 + k - 1]
  <2>1. \A k \in first + 1 .. last : sorted[k] \in Stored
    BY <1>3, <1>4, <1>5
  <2>2. first + 1 \in Int /\ last \in Int
    BY <1>4, <1>5
  <2> HIDE DEF answer
  <2> QED
    BY <2>1, <2>2, SubSeqProperties DEF answer
<1> HIDE DEF answer
<1>7. /\ Len(answer) \in Nat
      /\ \A k \in 1 .. Len(answer) : /\ first + k \in first + 1 .. last
                                     /\ answer[k] = sorted[first + k]
  <2>1. Len(answer) \in Nat
    BY <1>6, LenProperties
  <2>2. ASSUME NEW k \in 1 .. Len(answer)
        PROVE  /\ first + k \in first + 1 .. last
               /\ k \in 1 .. last - (first + 1) + 1
               /\ first + 1 + k - 1 = first + k
    BY <1>4, <1>5, <1>6
  <2> QED
    BY <1>6, <2>1, <2>2
<1>8. ASSUME NEW k \in first + 1 .. last
      PROVE  k - first \in 1 .. Len(answer) /\ answer[k - first] = sorted[k]
  <2>1. k - first \in 1 .. Len(answer) /\ first + (k - first) = k
    BY <1>4, <1>5, <1>6
  <2> QED
    BY <1>7, <2>1
<1>9. InOrder(answer, AgeOrder)
  <2> SUFFICES ASSUME NEW m \in 1 .. Len(answer), NEW n \in 1 .. Len(answer), m < n
               PROVE  <<answer[m], answer[n]>> \in AgeOrder
    BY DEF InOrder
  <2>1. /\ first + m \in 1 .. N /\ first + n \in 1 .. N /\ first + m < first + n
        /\ answer[m] = sorted[first + m] /\ answer[n] = sorted[first + n]
    BY <1>4, <1>5, <1>7
  <2> QED
    BY <1>1, <2>1 DEF InOrder, N
<1>10. ToSet(answer) = {sorted[k] : k \in first + 1 .. last}
  <2>1. ToSet(answer) = {answer[k] : k \in 1 .. Len(answer)}
    BY <1>6, ToSetOf
  <2>2. \A k \in 1 .. Len(answer) : \E l \in first + 1 .. last : answer[k] = sorted[l]
    BY <1>7
  <2>3. \A l \in first + 1 .. last : \E k \in 1 .. Len(answer) : answer[k] = sorted[l]
    BY <1>8
  <2> HIDE DEF first
  <2> QED
    BY <2>1, <2>2, <2>3
<1>11. \A k \in 1 .. N : sorted[k] \in Matching(q) /\ Position(q, sorted[k]) = k - 1
  BY <1>1, PositionInSorted DEF N
<1>12. {sorted[k] : k \in first + 1 .. last} = Page(q)
  <2>1. ASSUME NEW k \in first + 1 .. last PROVE sorted[k] \in Page(q)
    <3>1. k \in 1 .. N /\ k - 1 \in Slice(q)
      BY <1>4, <1>5
    <3> QED
      BY <1>11, <3>1 DEF Page
  <2>2. ASSUME NEW i \in Page(q) PROVE \E k \in first + 1 .. last : sorted[k] = i
    <3>1. i \in ToSet(sorted) /\ Position(q, i) \in Slice(q)
      BY <1>1 DEF Page
    <3>2. PICK k \in 1 .. N : i = sorted[k]
      BY <1>1, <3>1, ToSetOf DEF N
    <3>3. k - 1 \in Slice(q) /\ k \in Nat
      BY <1>11, <3>1, <3>2
    <3>4. k \in first + 1 .. last
      BY <1>4, <1>5, <3>3
    <3> QED
      BY <3>2, <3>4
  <2> QED
    BY <2>1, <2>2
<1>13. Len(answer) = Cardinality(ToSet(answer))
  <2>1. \A i \in Stored : <<i, i>> \notin AgeOrder
    BY BeforeIsOrder DEF AgeOrder
  <2> QED
    BY <1>6, <1>9, <2>1, InOrderCounts
<1>14. \A m, n \in DOMAIN answer : m < n => Before(answer[m], answer[n])
  <2>1. DOMAIN answer = 1 .. Len(answer)
    BY <1>6, LenProperties
  <2> QED
    BY <1>9, <2>1 DEF InOrder, AgeOrder
<1> QED
  BY <1>2, <1>10, <1>12, <1>13, <1>14

(* The pages that the filter, the stable sort, the skip and the take of    *)
(* the handler give are the slices of positions, in every state, for any   *)
(* number of requests, any iteration order of the map, and any query.      *)
THEOREM PagesAlwaysSlices == QuerySpec => []PagesAreSlices
<1>1. QueryTypeOK => PagesAreSlices
  <2> SUFFICES ASSUME QueryTypeOK, NEW q \in Queries
               PROVE  LET answer == Answer(q) IN
                      /\ ToSet(answer) = Page(q)
                      /\ Len(answer) = Cardinality(Page(q))
                      /\ \A m, n \in DOMAIN answer :
                           m < n => Before(answer[m], answer[n])
    BY DEF PagesAreSlices
  <2>1. Numbers(q)
    <3>1. q \in Query
      BY QueriesAssumption
    <3>2. q.page \in Nat \cup {Nil} /\ q.limit \in Nat \cup {Nil}
      BY <3>1 DEF Query
    <3> QED
      BY <3>2 DEF Numbers, PageNumber, PageLimit, DefaultLimit
  <2> QED
    BY <2>1, AnswerIsPage
<1> QED
  BY <1>1, QueryTyped, PTL

============================================================================
