------------------------ MODULE ProverNetworkProofs ------------------------
(***************************************************************************)
(* Theorems about ProverNetwork, for any sets of calls, requests, URLs,    *)
(* programs and signers and any bound on the clock.                        *)
(***************************************************************************)
EXTENDS ProverNetwork, TLAPS, SequenceTheorems, WellFoundedInduction

---------------------------------------------------------------------------
(* What the operations of TokioMutex preserve, for any set of calls. *)

(* A non-empty set of natural numbers has a smallest element.              *)
LEMMA MinIsSmallest ==
  ASSUME NEW T \in SUBSET Nat, T # {}
  PROVE  Min(T) \in T /\ \A m \in T : Min(T) <= m
<1> DEFINE R == OpToRel(<, Nat)
<1>1. \A x, y \in Nat : <<y, x>> \in R <=> y < x
  BY DEF OpToRel
<1>2. IsWellFoundedOn(R, Nat)
  BY NatLessThanWellFounded
<1> HIDE DEF R
<1>3. PICK n \in T : \A m \in T : <<m, n>> \notin R
  BY <1>2, WFMin
<1>4. \A m \in T : ~ (m < n)
  BY <1>1, <1>3
<1>5. \A m \in T : n <= m
  BY <1>4
<1> QED
  BY <1>5 DEF Min

(* RemoveFirst drops one occurrence of e, if there is any. *)
LEMMA RemoveFirstIsRemoveAt ==
  ASSUME NEW S, NEW s \in Seq(S), NEW e, Contains(s, e)
  PROVE  \E i \in 1 .. Len(s) : s[i] = e /\ RemoveFirst(s, e) = RemoveAt(s, i)
<1> DEFINE I == {i \in 1 .. Len(s) : s[i] = e}
<1>1. I \in SUBSET Nat /\ I # {}
  BY DEF Contains
<1>3. Min(I) \in I
  BY <1>1, MinIsSmallest
<1>4. RemoveFirst(s, e) = RemoveAt(s, Min(I))
  BY <1>1 DEF RemoveFirst, SelectInSeq
<1> QED
  BY <1>3, <1>4

(* Removing one position of an injective sequence removes its value only.  *)
LEMMA RemoveAtInjective ==
  ASSUME NEW S, NEW s \in Seq(S), IsInjective(s), NEW i \in 1 .. Len(s)
  PROVE  /\ RemoveAt(s, i) \in Seq(S)
         /\ IsInjective(RemoveAt(s, i))
         /\ \A d : Contains(RemoveAt(s, i), d) <=> Contains(s, d) /\ d # s[i]
<1> DEFINE t == RemoveAt(s, i)
           old(j) == IF j < i THEN j ELSE j + 1
           left == SubSeq(s, 1, i - 1)
           right == SubSeq(s, i + 1, Len(s))
<1>a. /\ s \in [1 .. Len(s) -> S] /\ Len(s) \in Nat
      /\ i \in Nat /\ 1 <= i /\ i <= Len(s)
  BY LenProperties
<1>b. /\ left \in Seq(S) /\ Len(left) = i - 1
      /\ \A j \in 1 .. i - 1 : left[j] = s[j]
  <2>1. \A j \in 1 .. i - 1 : s[j] \in S
    BY <1>a
  <2> QED
    BY <2>1, <1>a, SubSeqProperties
<1>c. /\ right \in Seq(S) /\ Len(right) = Len(s) - i
      /\ \A j \in 1 .. Len(s) - i : right[j] = s[i + j]
  <2>1. \A j \in i + 1 .. Len(s) : s[j] \in S
    BY <1>a
  <2> HIDE DEF right
  <2>2. /\ right \in Seq(S)
        /\ Len(right) = IF i + 1 <= Len(s) THEN Len(s) - (i + 1) + 1 ELSE 0
        /\ \A j \in 1 .. Len(s) - (i + 1) + 1 : right[j] = s[(i + 1) + j - 1]
    BY <2>1, <1>a, SubSeqProperties DEF right
  <2>3. Len(right) = Len(s) - i
    <3>1. \A n, k \in Nat :
            k <= n => (IF k + 1 <= n THEN n - (k + 1) + 1 ELSE 0) = n - k
      OBVIOUS
    <3> QED
      BY <2>2, <1>a, <3>1
  <2>4. Len(s) - (i + 1) + 1 = Len(s) - i /\ \A j \in Nat : (i + 1) + j - 1 = i + j
    BY <1>a
  <2> QED
    BY <2>2, <2>3, <2>4
<1>d. t = left \o right
  BY DEF RemoveAt
<1> HIDE DEF left, right, t
<1>1. t \in Seq(S) /\ Len(t) = Len(s) - 1
  <2>1. t \in Seq(S) /\ Len(t) = Len(left) + Len(right)
    BY <1>b, <1>c, <1>d, ConcatProperties
  <2>2. Len(t) = (i - 1) + (Len(s) - i)
    BY <2>1, <1>b, <1>c
  <2>3. (i - 1) + (Len(s) - i) = Len(s) - 1
    BY <1>a
  <2> QED
    BY <2>1, <2>2, <2>3
<1>2. \A j \in 1 .. Len(t) : t[j] = s[old(j)] /\ old(j) \in 1 .. Len(s)
  <2> SUFFICES ASSUME NEW j \in 1 .. Len(t)
               PROVE  t[j] = s[old(j)] /\ old(j) \in 1 .. Len(s)
    OBVIOUS
  <2>1. j \in Nat /\ 1 <= j /\ j <= Len(s) - 1
    BY <1>1, <1>a
  <2>2. CASE j < i
    <3>1. t[j] = left[j]
      BY <2>1, <2>2, <1>a, <1>b, <1>c, <1>d, ConcatProperties
    <3> QED
      BY <3>1, <2>1, <2>2, <1>a, <1>b
  <2>3. CASE ~ (j < i)
    <3>1. t[j] = right[j - (i - 1)]
      BY <2>1, <2>3, <1>a, <1>b, <1>c, <1>d, ConcatProperties
    <3> QED
      BY <3>1, <2>1, <2>3, <1>a, <1>c
  <2> QED
    BY <2>2, <2>3
<1>3. DOMAIN s = 1 .. Len(s) /\ DOMAIN t = 1 .. Len(t)
  BY <1>1
<1>4. IsInjective(t)
  <2>1. \A j, k \in 1 .. Len(t) : old(j) = old(k) => j = k
    BY <1>1, <1>a
  <2> HIDE DEF old
  <2> QED
    BY <2>1, <1>2, <1>3 DEF IsInjective
<1>5. ASSUME NEW d PROVE Contains(t, d) <=> Contains(s, d) /\ d # s[i]
  <2>1. ASSUME Contains(t, d) PROVE Contains(s, d) /\ d # s[i]
    BY <2>1, <1>1, <1>2, <1>3 DEF Contains, IsInjective
  <2>2. ASSUME NEW k \in 1 .. Len(s), s[k] = d, d # s[i] PROVE Contains(t, d)
    <3>1. CASE k < i
      BY <3>1, <2>2, <1>1, <1>2 DEF Contains
    <3>2. CASE k > i
      <4>1. k - 1 \in 1 .. Len(t) /\ old(k - 1) = k
        BY <3>2, <1>1
      <4> QED
        BY <4>1, <2>2, <1>2 DEF Contains
    <3> QED
      BY <2>2, <3>1, <3>2
  <2> QED
    BY <2>1, <2>2 DEF Contains
<1> QED
  BY <1>1, <1>4, <1>5 DEF t

---------------------------------------------------------------------------
(* A mutex no call has asked for is in order. *)
LEMMA UnlockedOrderly ==
  /\ Unlocked \in Mutex
  /\ Orderly(Unlocked)
  /\ \A c \in Call : ~Claims(Unlocked, c)
BY NoCallAssumption DEF Unlocked, Mutex, Orderly, Claims, Contains, IsInjective

(* lock(): c, and nobody else, joins the claimants; the owner stays. *)
LEMMA AcquireOrderly ==
  ASSUME NEW m \in Mutex, Orderly(m), NEW c \in Call, ~Claims(m, c)
  PROVE  /\ Acquire(m, c) \in Mutex
         /\ Orderly(Acquire(m, c))
         /\ \A d \in Call : Claims(Acquire(m, c), d) <=> Claims(m, d) \/ d = c
         /\ m.owner # NoCall => Acquire(m, c).owner = m.owner
<1>1. m.waiters \in Seq(Call) /\ m.owner \in Call \cup {NoCall}
  BY DEF Mutex
<1>2. CASE m.owner = NoCall
  <2>1. m.waiters = <<>> /\ Acquire(m, c) = [owner |-> c, waiters |-> <<>>]
    BY <1>2 DEF Orderly, Acquire, Mutex
  <2> QED
    BY <2>1, <1>2, NoCallAssumption
    DEF Mutex, Orderly, Claims, Contains, IsInjective
<1>3. CASE m.owner # NoCall
  <2> DEFINE w == Append(m.waiters, c)
  <2>1. Acquire(m, c) = [owner |-> m.owner, waiters |-> w]
    BY <1>3 DEF Acquire, Mutex
  <2>2. /\ w \in Seq(Call) /\ Len(w) = Len(m.waiters) + 1 /\ w # <<>>
        /\ \A i \in 1 .. Len(m.waiters) : w[i] = m.waiters[i]
        /\ w[Len(m.waiters) + 1] = c
    BY <1>1, AppendProperties
  <2>3. /\ Len(m.waiters) \in Nat
        /\ DOMAIN m.waiters = 1 .. Len(m.waiters)
        /\ DOMAIN w = 1 .. Len(m.waiters) + 1
    BY <1>1, <2>2, LenProperties
  <2> HIDE DEF w
  <2>4. \A d : Contains(w, d) <=> Contains(m.waiters, d) \/ d = c
    BY <2>2, <2>3 DEF Contains
  <2>5. IsInjective(w)
    <3>1. \A i \in 1 .. Len(m.waiters) : m.waiters[i] # c
      BY DEF Claims, Contains
    <3>2. \A i, j \in 1 .. Len(m.waiters) : m.waiters[i] = m.waiters[j] => i = j
      BY <2>3 DEF Orderly, IsInjective
    <3> QED
      BY <3>1, <3>2, <2>2, <2>3 DEF IsInjective
  <2>6. Acquire(m, c) \in Mutex
    BY <2>1, <2>2, <1>1 DEF Mutex
  <2> QED
    BY <2>1, <2>4, <2>5, <2>6, <1>3 DEF Orderly, Claims
<1> QED
  BY <1>2, <1>3

(* drop(guard): the owner, and nobody else, leaves the claimants. *)
LEMMA ReleaseOrderly ==
  ASSUME NEW m \in Mutex, Orderly(m), m.owner \in Call
  PROVE  /\ Release(m) \in Mutex
         /\ Orderly(Release(m))
         /\ \A d \in Call : Claims(Release(m), d) <=> Claims(m, d) /\ d # m.owner
<1>1. m.waiters \in Seq(Call)
  BY DEF Mutex
<1>2. CASE m.waiters = <<>>
  <2>1. Release(m) = Unlocked
    BY <1>2 DEF Release
  <2>2. \A d \in Call : ~Contains(m.waiters, d)
    BY <1>2 DEF Contains
  <2> QED
    BY <2>1, <2>2, UnlockedOrderly DEF Claims
<1>3. CASE m.waiters # <<>>
  <2> DEFINE h == Head(m.waiters)
             t == Tail(m.waiters)
  <2>1. Release(m) = [owner |-> h, waiters |-> t]
    BY <1>3 DEF Release
  <2>2. /\ h \in Call /\ t \in Seq(Call) /\ Len(t) = Len(m.waiters) - 1
        /\ \A i \in 1 .. Len(t) : t[i] = m.waiters[i + 1]
    BY <1>1, <1>3, HeadTailProperties
  <2>3. /\ Len(m.waiters) \in Nat /\ Len(m.waiters) >= 1
        /\ DOMAIN m.waiters = 1 .. Len(m.waiters)
        /\ DOMAIN t = 1 .. Len(t)
    BY <1>1, <1>3, <2>2, LenProperties, EmptySeq
  <2>4. h = m.waiters[1]
    BY <1>1, <1>3
  <2> HIDE DEF h, t
  <2>5. \A i, j \in 1 .. Len(m.waiters) : m.waiters[i] = m.waiters[j] => i = j
    BY <2>3 DEF Orderly, IsInjective
  <2>6. \A d : Contains(m.waiters, d) <=> d = h \/ Contains(t, d)
    <3>1. ASSUME NEW i \in 1 .. Len(m.waiters)
          PROVE  i = 1 \/ (i - 1 \in 1 .. Len(t) /\ t[i - 1] = m.waiters[i])
      BY <2>2, <2>3
    <3>2. \A i \in 1 .. Len(t) : i + 1 \in 1 .. Len(m.waiters)
      BY <2>2, <2>3
    <3>3. 1 \in 1 .. Len(m.waiters)
      BY <2>3
    <3> QED
      BY <3>1, <3>2, <3>3, <2>2, <2>4 DEF Contains
  <2>7. ~Contains(t, h)
    BY <2>2, <2>3, <2>4, <2>5 DEF Contains
  <2>8. IsInjective(t)
    BY <2>2, <2>3, <2>5 DEF IsInjective
  <2>9. Release(m) \in Mutex
    BY <2>1, <2>2 DEF Mutex
  <2> QED
    BY <2>1, <2>2, <2>6, <2>7, <2>8, <2>9, NoCallAssumption DEF Orderly, Claims
<1> QED
  BY <1>2, <1>3

(* Dropping a future: c, and nobody else, leaves the claimants. *)
LEMMA LeaveOrderly ==
  ASSUME NEW m \in Mutex, Orderly(m), NEW c \in Call
  PROVE  /\ Leave(m, c) \in Mutex
         /\ Orderly(Leave(m, c))
         /\ \A d \in Call : Claims(Leave(m, c), d) <=> Claims(m, d) /\ d # c
         /\ m.owner # c => Leave(m, c).owner = m.owner
<1>1. CASE m.owner = c
  BY <1>1, ReleaseOrderly DEF Leave
<1>2. CASE m.owner # c
  <2> DEFINE w == RemoveFirst(m.waiters, c)
  <2>1. Leave(m, c) = [owner |-> m.owner, waiters |-> w]
    BY <1>2 DEF Leave, Mutex
  <2>2. /\ w \in Seq(Call) /\ IsInjective(w)
        /\ \A d : Contains(w, d) <=> Contains(m.waiters, d) /\ d # c
    <3>1. m.waiters \in Seq(Call) /\ IsInjective(m.waiters)
      BY DEF Mutex, Orderly
    <3>2. CASE Contains(m.waiters, c)
      <4>1. PICK i \in 1 .. Len(m.waiters) :
              m.waiters[i] = c /\ w = RemoveAt(m.waiters, i)
        BY <3>1, <3>2, RemoveFirstIsRemoveAt
      <4> QED
        BY <4>1, <3>1, RemoveAtInjective
    <3>3. CASE ~Contains(m.waiters, c)
      <4>1. w = m.waiters
        BY <3>3 DEF RemoveFirst, Contains
      <4> QED
        BY <4>1, <3>1, <3>3
    <3> QED
      BY <3>2, <3>3
  <2> HIDE DEF w
  <2>3. m.waiters = <<>> => w = <<>>
    <3>1. ASSUME m.waiters = <<>> PROVE \A d : ~Contains(w, d)
      BY <3>1, <2>2 DEF Contains
    <3> QED
      BY <3>1, <2>2, EmptySeq DEF Contains
  <2>4. Leave(m, c) \in Mutex
    BY <2>1, <2>2 DEF Mutex
  <2> QED
    BY <2>1, <2>2, <2>3, <2>4, <1>2 DEF Orderly, Claims
<1> QED
  BY <1>1, <1>2

---------------------------------------------------------------------------
(* The service. *)

USE DEF Optional

(* The frame of a call holds what its method needs. *)
Filled(f) ==
  /\ f.method \in {"request_proof", "create_program", "get_program"} =>
       f.vk_hash \in VkHash
  /\ f.method \in {"request_proof", "fulfill_proof", "fail_fulfillment",
                   "get_proof_request_status"} => f.id \in RequestId
  /\ f.method \in {"request_proof", "fulfill_proof"} => f.addr \in Addr
  /\ f.method = "create_program" => f.program_uri \in Uri
  /\ f.method = "fulfill_proof" => f.url \in ProofUrl

(* Only fulfill_proof uploads, and only for a request it found. *)
FramesMatchProgress ==
  \A c \in Call :
    /\ Filled(call[c])
    /\ WorksOnRequests(c) => call[c].method = "fulfill_proof"
                             /\ call[c].id \in Stored

(* TypeOK in two parts: the calls with their mutexes, and the data. *)
CallsTypeOK ==
  /\ programs_lock \in Mutex
  /\ requests_lock \in Mutex
  /\ pc \in [Call -> Await]
  /\ call \in [Call -> Frame]

DataTypeOK ==
  /\ programs \in [VkHash -> Optional(Uri)]
  /\ proof_requests \in [RequestId -> Optional(Entry)]
  /\ clock \in Nat
  /\ Http!TypeOK
  /\ acked \in SUBSET RequestId
  /\ told \in [RequestId -> SUBSET ProofUrl]

CallsInv == CallsTypeOK /\ GuardsMatchProgress /\ FramesMatchProgress

LEMMA TypeOKParts == TypeOK <=> CallsTypeOK /\ DataTypeOK
BY DEF TypeOK, CallsTypeOK, DataTypeOK

---------------------------------------------------------------------------
(* The initial states *)

LEMMA NoFrameType == NoFrame \in Frame /\ Filled(NoFrame)
BY ConstantsAssumption DEF NoFrame, Frame, Filled, StateMethods, ReadMethods

LEMMA InitCalls == Init => CallsInv
<1> SUFFICES ASSUME Init PROVE CallsInv
  OBVIOUS
<1>1. CallsTypeOK
  BY NoFrameType, UnlockedOrderly DEF Init, CallsTypeOK, Await
<1>2. GuardsMatchProgress
  BY UnlockedOrderly DEF Init, GuardsMatchProgress, HoldsLookup, WorksOnRequests
<1>3. FramesMatchProgress
  BY NoFrameType DEF Init, FramesMatchProgress, WorksOnRequests
<1> QED
  BY <1>1, <1>2, <1>3 DEF CallsInv

LEMMA InitData == Init => DataTypeOK
BY DEF Init, DataTypeOK, Http!Init, Http!TypeOK, Http!ConnState

---------------------------------------------------------------------------
(* How a handler starts and ends *)

LEMMA AwaitProgramsCalls ==
  ASSUME CallsInv, NEW c \in Call, NEW frame \in Frame, Filled(frame),
         AwaitPrograms(c, frame)
  PROVE  CallsInv'
<1> USE DEF CallsInv, CallsTypeOK
<1>1. ~Claims(programs_lock, c) /\ ~Claims(requests_lock, c)
  BY DEF AwaitPrograms, GuardsMatchProgress, HoldsLookup, WorksOnRequests
<1>2. /\ Acquire(programs_lock, c) \in Mutex
      /\ Orderly(Acquire(programs_lock, c))
      /\ \A d \in Call : Claims(Acquire(programs_lock, c), d)
                           <=> Claims(programs_lock, d) \/ d = c
      /\ programs_lock.owner # NoCall =>
           Acquire(programs_lock, c).owner = programs_lock.owner
  BY <1>1, AcquireOrderly DEF GuardsMatchProgress
<1>3. /\ programs_lock' = Acquire(programs_lock, c)
      /\ requests_lock' = requests_lock
      /\ pc' = [pc EXCEPT ![c] = "programs"]
      /\ call' = [call EXCEPT ![c] = frame]
      /\ proof_requests' = proof_requests
  BY DEF AwaitPrograms, store
<1>4. CallsTypeOK'
  BY <1>2, <1>3 DEF Await
<1>5. GuardsMatchProgress'
  BY <1>1, <1>2, <1>3, NoCallAssumption
  DEF GuardsMatchProgress, HoldsLookup, WorksOnRequests
<1>6. FramesMatchProgress'
  BY <1>3 DEF FramesMatchProgress, WorksOnRequests, Stored
<1> QED
  BY <1>4, <1>5, <1>6

LEMMA AwaitRequestsCalls ==
  ASSUME CallsInv, NEW c \in Call, NEW frame \in Frame, Filled(frame),
         frame.method # "request_proof", AwaitRequests(c, frame)
  PROVE  CallsInv'
<1> USE DEF CallsInv, CallsTypeOK
<1>1. ~Claims(programs_lock, c) /\ ~Claims(requests_lock, c)
  BY DEF AwaitRequests, GuardsMatchProgress, HoldsLookup, WorksOnRequests
<1>2. /\ Acquire(requests_lock, c) \in Mutex
      /\ Orderly(Acquire(requests_lock, c))
      /\ \A d \in Call : Claims(Acquire(requests_lock, c), d)
                           <=> Claims(requests_lock, d) \/ d = c
      /\ requests_lock.owner # NoCall =>
           Acquire(requests_lock, c).owner = requests_lock.owner
  BY <1>1, AcquireOrderly DEF GuardsMatchProgress
<1>3. /\ programs_lock' = programs_lock
      /\ requests_lock' = Acquire(requests_lock, c)
      /\ pc' = [pc EXCEPT ![c] = "requests"]
      /\ call' = [call EXCEPT ![c] = frame]
      /\ proof_requests' = proof_requests
  BY DEF AwaitRequests, store
<1>4. CallsTypeOK'
  BY <1>2, <1>3 DEF Await
<1>5. GuardsMatchProgress'
  BY <1>1, <1>2, <1>3, NoCallAssumption
  DEF GuardsMatchProgress, HoldsLookup, WorksOnRequests
<1>6. FramesMatchProgress'
  BY <1>3 DEF FramesMatchProgress, WorksOnRequests, Stored
<1> QED
  BY <1>4, <1>5, <1>6

LEMMA ReturnFromProgramsCalls ==
  ASSUME CallsInv, NEW c \in Call, pc[c] = "programs", programs_lock.owner = c,
         ReturnFromPrograms(c), Stored \subseteq Stored'
  PROVE  CallsInv'
<1> USE DEF CallsInv, CallsTypeOK
<1>1. /\ Release(programs_lock) \in Mutex
      /\ Orderly(Release(programs_lock))
      /\ \A d \in Call : Claims(Release(programs_lock), d)
                           <=> Claims(programs_lock, d) /\ d # c
  BY ReleaseOrderly DEF GuardsMatchProgress
<1>2. /\ programs_lock' = Release(programs_lock)
      /\ requests_lock' = requests_lock
      /\ pc' = [pc EXCEPT ![c] = "idle"]
      /\ call' = [call EXCEPT ![c] = NoFrame]
  BY DEF ReturnFromPrograms, Return
<1>3. \A d \in Call : ~HoldsLookup(d) \/ d = c
  BY DEF GuardsMatchProgress
<1>4. CallsTypeOK'
  BY <1>1, <1>2, NoFrameType DEF Await
<1>5. GuardsMatchProgress'
  BY <1>1, <1>2, <1>3 DEF GuardsMatchProgress, HoldsLookup, WorksOnRequests
<1>6. FramesMatchProgress'
  BY <1>2, NoFrameType DEF FramesMatchProgress, WorksOnRequests
<1> QED
  BY <1>4, <1>5, <1>6

LEMMA ReturnFromRequestsCalls ==
  ASSUME CallsInv, NEW c \in Call,
         pc[c] \in {"requests", "upload", "error_body"}, ~HoldsLookup(c),
         requests_lock.owner = c, ReturnFromRequests(c), Stored \subseteq Stored'
  PROVE  CallsInv'
<1> USE DEF CallsInv, CallsTypeOK
<1>1. /\ Release(requests_lock) \in Mutex
      /\ Orderly(Release(requests_lock))
      /\ \A d \in Call : Claims(Release(requests_lock), d)
                           <=> Claims(requests_lock, d) /\ d # c
  BY ReleaseOrderly DEF GuardsMatchProgress
<1>2. /\ requests_lock' = Release(requests_lock)
      /\ programs_lock' = programs_lock
      /\ pc' = [pc EXCEPT ![c] = "idle"]
      /\ call' = [call EXCEPT ![c] = NoFrame]
  BY DEF ReturnFromRequests, Return
<1>3. \A d \in Call : ~WorksOnRequests(d) \/ d = c
  BY DEF GuardsMatchProgress
<1>4. CallsTypeOK'
  BY <1>1, <1>2, NoFrameType DEF Await
<1>5. GuardsMatchProgress'
  BY <1>1, <1>2, <1>3 DEF GuardsMatchProgress, HoldsLookup, WorksOnRequests
<1>6. FramesMatchProgress'
  BY <1>2, NoFrameType DEF FramesMatchProgress, WorksOnRequests
<1> QED
  BY <1>4, <1>5, <1>6

(* A working handler owns proof_requests, so it may return from there. *)
LEMMA WorkingCallOwnsRequests ==
  ASSUME CallsInv, NEW c \in Call, WorksOnRequests(c)
  PROVE  /\ pc[c] \in {"requests", "upload", "error_body"}
         /\ ~HoldsLookup(c)
         /\ requests_lock.owner = c
BY DEF CallsInv, GuardsMatchProgress, WorksOnRequests, HoldsLookup

---------------------------------------------------------------------------
(* The mutexes and frames under each step *)

(* A call arrives with a frame that fits its method: its id is fresh and   *)
(* its time is now if it opens a request, its URL is fresh if it fulfils   *)
(* one.                                                                    *)
Arrives(c, frame) ==
  /\ Filled(frame)
  /\ frame.now <= clock
  /\ frame.method = "request_proof" => FreshId(frame.id) /\ frame.now = clock
  /\ frame.method = "fulfill_proof" => FreshUrl(frame.url)
  /\ frame.method # "fulfill_proof" => frame.url = Nil
  /\ \/ AwaitPrograms(c, frame)
     \/ frame.method # "request_proof" /\ AwaitRequests(c, frame)

LEMMA ArriveAwaits ==
  ASSUME DataTypeOK, NEW c \in Call, Arrive(c)
  PROVE  \E frame \in Frame : Arrives(c, frame)
<1> USE DEF Frame, Filled, NoFrame, StateMethods, ReadMethods, Arrives
<1>1. NoFrame \in Frame /\ clock \in Nat
  BY NoFrameType DEF DataTypeOK
<1>2. CASE RequestProof(c)
  <2>1. PICK i \in RequestId, v \in VkHash, a \in Addr,
             p \in Optional(PublicValues) :
          /\ FreshId(i)
          /\ AwaitPrograms(c,
              [NoFrame EXCEPT !.method = "request_proof", !.id = i,
                                 !.vk_hash = v, !.addr = a,
                                 !.public_values_hash = p, !.now = clock])
    BY <1>2 DEF RequestProof
  <2> DEFINE f == [NoFrame EXCEPT !.method = "request_proof", !.id = i,
                     !.vk_hash = v, !.addr = a,
                     !.public_values_hash = p, !.now = clock]
  <2>2. f \in Frame
    BY <1>1
  <2>3. Arrives(c, f)
    BY <1>1, <2>1
  <2> QED
    BY <2>2, <2>3
<1>3. CASE CreateProgram(c)
  <2>1. PICK v \in VkHash, u \in Uri :
          AwaitPrograms(c,
              [NoFrame EXCEPT !.method = "create_program",
                              !.vk_hash = v, !.program_uri = u])
    BY <1>3 DEF CreateProgram
  <2> DEFINE f ==
      [NoFrame EXCEPT !.method = "create_program",
                      !.vk_hash = v, !.program_uri = u]
  <2>2. f \in Frame
    BY <1>1, ConstantsAssumption
  <2>3. Arrives(c, f)
    BY <1>1, <2>1
  <2> QED
    BY <2>2, <2>3
<1>4. CASE GetProgram(c)
  <2>1. PICK v \in VkHash :
          AwaitPrograms(c,
              [NoFrame EXCEPT !.method = "get_program", !.vk_hash = v])
    BY <1>4 DEF GetProgram
  <2> DEFINE f == [NoFrame EXCEPT !.method = "get_program", !.vk_hash = v]
  <2>2. f \in Frame
    BY <1>1, ConstantsAssumption
  <2>3. Arrives(c, f)
    BY <1>1, <2>1
  <2> QED
    BY <2>2, <2>3
<1>5. CASE FulfillProof(c)
  <2>1. PICK i \in RequestId, a \in Addr, u \in ProofUrl :
          FreshUrl(u) /\ AwaitRequests(c,
              [NoFrame EXCEPT !.method = "fulfill_proof",
                              !.id = i, !.addr = a, !.url = u])
    BY <1>5 DEF FulfillProof
  <2> DEFINE f ==
      [NoFrame EXCEPT !.method = "fulfill_proof",
                      !.id = i, !.addr = a, !.url = u]
  <2>2. f \in Frame
    BY <1>1, ConstantsAssumption
  <2>3. Arrives(c, f)
    BY <1>1, <2>1
  <2> QED
    BY <2>2, <2>3
<1>6. CASE FailFulfillment(c)
  <2>1. PICK i \in RequestId, e \in Error :
          AwaitRequests(c,
              [NoFrame EXCEPT !.method = "fail_fulfillment",
                              !.id = i, !.error = e])
    BY <1>6 DEF FailFulfillment
  <2> DEFINE f ==
      [NoFrame EXCEPT !.method = "fail_fulfillment", !.id = i, !.error = e]
  <2>2. f \in Frame
    BY <1>1, ConstantsAssumption
  <2>3. Arrives(c, f)
    BY <1>1, <2>1
  <2> QED
    BY <2>2, <2>3
<1>7. CASE GetProofRequestStatus(c)
  <2>1. PICK i \in RequestId :
          AwaitRequests(c,
              [NoFrame EXCEPT !.method = "get_proof_request_status", !.id = i])
    BY <1>7 DEF GetProofRequestStatus
  <2> DEFINE f ==
      [NoFrame EXCEPT !.method = "get_proof_request_status", !.id = i]
  <2>2. f \in Frame
    BY <1>1, ConstantsAssumption
  <2>3. Arrives(c, f)
    BY <1>1, <2>1
  <2> QED
    BY <2>2, <2>3
<1>8. CASE ReadRequest(c)
  <2>1. AwaitRequests(c,
      [NoFrame EXCEPT !.method = "get_proof_request_details"])
    BY <1>8 DEF ReadRequest
  <2> DEFINE f == [NoFrame EXCEPT !.method = "get_proof_request_details"]
  <2>2. f \in Frame
    BY <1>1, ConstantsAssumption
  <2>3. Arrives(c, f)
    BY <1>1, <2>1
  <2> QED
    BY <2>2, <2>3
<1>9. CASE ReadRequests(c)
  <2>1. AwaitRequests(c,
      [NoFrame EXCEPT !.method = "get_filtered_proof_requests"])
    BY <1>9 DEF ReadRequests
  <2> DEFINE f == [NoFrame EXCEPT !.method = "get_filtered_proof_requests"]
  <2>2. f \in Frame
    BY <1>1, ConstantsAssumption
  <2>3. Arrives(c, f)
    BY <1>1, <2>1
  <2> QED
    BY <2>2, <2>3
<1> QED
  BY <1>2, <1>3, <1>4, <1>5, <1>6, <1>7, <1>8, <1>9 DEF Arrive

LEMMA ArriveCalls ==
  ASSUME CallsInv, DataTypeOK, NEW c \in Call, Arrive(c)
  PROVE  CallsInv'
BY ArriveAwaits, AwaitProgramsCalls, AwaitRequestsCalls DEF Arrives

LEMMA LookupProgramCalls ==
  ASSUME CallsInv, DataTypeOK, NEW c \in Call, LookupProgram(c)
  PROVE  CallsInv'
<1> USE DEF CallsInv, CallsTypeOK
<1>1. /\ pc[c] = "programs" /\ programs_lock.owner = c
      /\ call[c].method = "request_proof"
      /\ programs_lock' = programs_lock
      /\ requests_lock' = Acquire(requests_lock, c)
      /\ pc' = [pc EXCEPT ![c] = "requests"]
      /\ call' = [call EXCEPT ![c].program_uri = programs[call[c].vk_hash]]
      /\ proof_requests' = proof_requests
  BY DEF LookupProgram, HasPrograms, store
<1>2. ~Claims(requests_lock, c)
  BY <1>1 DEF GuardsMatchProgress, WorksOnRequests
<1>3. /\ Acquire(requests_lock, c) \in Mutex
      /\ Orderly(Acquire(requests_lock, c))
      /\ \A d \in Call : Claims(Acquire(requests_lock, c), d)
                           <=> Claims(requests_lock, d) \/ d = c
      /\ requests_lock.owner # NoCall =>
           Acquire(requests_lock, c).owner = requests_lock.owner
  BY <1>2, AcquireOrderly DEF GuardsMatchProgress
<1>4. programs[call[c].vk_hash] \in Optional(Uri)
  BY <1>1 DEF FramesMatchProgress, Filled, DataTypeOK
<1>5. CallsTypeOK'
  BY <1>1, <1>3, <1>4 DEF Await, Frame
<1>6. /\ call'[c].method = "request_proof"
      /\ \A d \in Call : call'[d].method = call[d].method
  BY <1>1 DEF Frame
<1>7. GuardsMatchProgress'
  BY <1>1, <1>3, <1>6, NoCallAssumption
  DEF GuardsMatchProgress, HoldsLookup, WorksOnRequests, Claims
<1>8. FramesMatchProgress'
  BY <1>1, <1>6 DEF FramesMatchProgress, WorksOnRequests, Stored, Filled, Frame
<1> QED
  BY <1>5, <1>7, <1>8

LEMMA BeginUploadCalls ==
  ASSUME CallsInv, NEW c \in Call, BeginUpload(c)
  PROVE  CallsInv'
<1> USE DEF CallsInv, CallsTypeOK
<1>1. /\ pc[c] = "requests" /\ requests_lock.owner = c
      /\ call[c].method = "fulfill_proof" /\ call[c].id \in Stored
      /\ pc' = [pc EXCEPT ![c] = "upload"]
      /\ UNCHANGED <<programs_lock, requests_lock, call, proof_requests>>
  BY DEF BeginUpload, HasRequests, store, locks
<1>2. CallsTypeOK'
  BY <1>1 DEF Await
<1>3. GuardsMatchProgress'
  BY <1>1 DEF GuardsMatchProgress, HoldsLookup, WorksOnRequests
<1>4. FramesMatchProgress'
  BY <1>1 DEF FramesMatchProgress, WorksOnRequests, Stored
<1> QED
  BY <1>2, <1>3, <1>4

LEMMA UploadRefusedCalls ==
  ASSUME CallsInv, NEW c \in Call, UploadRefused(c)
  PROVE  CallsInv'
<1> USE DEF CallsInv, CallsTypeOK
<1>1. /\ pc[c] = "upload"
      /\ pc' = [pc EXCEPT ![c] = "error_body"]
      /\ UNCHANGED <<programs_lock, requests_lock, call, proof_requests>>
  BY DEF UploadRefused, store, locks
<1>2. CallsTypeOK'
  BY <1>1 DEF Await
<1>3. GuardsMatchProgress'
  BY <1>1 DEF GuardsMatchProgress, HoldsLookup, WorksOnRequests
<1>4. FramesMatchProgress'
  BY <1>1 DEF FramesMatchProgress, WorksOnRequests, Stored
<1> QED
  BY <1>2, <1>3, <1>4

(* request_proof gives back both mutexes. *)
LEMMA InsertRequestCalls ==
  ASSUME CallsInv, NEW c \in Call, InsertRequest(c), Stored \subseteq Stored'
  PROVE  CallsInv'
<1> USE DEF CallsInv, CallsTypeOK
<1>1. /\ HoldsLookup(c) /\ requests_lock.owner = c /\ programs_lock.owner = c
      /\ requests_lock' = Release(requests_lock)
      /\ programs_lock' = Release(programs_lock)
      /\ pc' = [pc EXCEPT ![c] = "idle"]
      /\ call' = [call EXCEPT ![c] = NoFrame]
  BY DEF InsertRequest, HasRequests, HoldsLookup, Return, GuardsMatchProgress
<1>2. \A m \in {programs_lock, requests_lock} :
        /\ Release(m) \in Mutex
        /\ Orderly(Release(m))
        /\ \A d \in Call : Claims(Release(m), d) <=> Claims(m, d) /\ d # c
  BY <1>1, ReleaseOrderly DEF GuardsMatchProgress
<1>3. \A d \in Call : (~WorksOnRequests(d) /\ ~HoldsLookup(d)) \/ d = c
  BY <1>1 DEF GuardsMatchProgress
<1>4. CallsTypeOK'
  BY <1>1, <1>2, NoFrameType DEF Await
<1>5. GuardsMatchProgress'
  BY <1>1, <1>2, <1>3 DEF GuardsMatchProgress, HoldsLookup, WorksOnRequests
<1>6. FramesMatchProgress'
  BY <1>1, NoFrameType DEF FramesMatchProgress, WorksOnRequests
<1> QED
  BY <1>4, <1>5, <1>6

LEMMA CancelCalls ==
  ASSUME CallsInv, NEW c \in Call, Cancel(c)
  PROVE  CallsInv'
<1> USE DEF CallsInv, CallsTypeOK
<1>1. /\ requests_lock' = Leave(requests_lock, c)
      /\ programs_lock' = Leave(programs_lock, c)
      /\ pc' = [pc EXCEPT ![c] = "idle"]
      /\ call' = [call EXCEPT ![c] = NoFrame]
      /\ proof_requests' = proof_requests
  BY DEF Cancel, Return, store
<1>2. \A m \in {programs_lock, requests_lock} :
        /\ Leave(m, c) \in Mutex
        /\ Orderly(Leave(m, c))
        /\ \A d \in Call : Claims(Leave(m, c), d) <=> Claims(m, d) /\ d # c
        /\ m.owner # c => Leave(m, c).owner = m.owner
  BY LeaveOrderly DEF GuardsMatchProgress
<1>3. CallsTypeOK'
  BY <1>1, <1>2, NoFrameType DEF Await
<1>4. GuardsMatchProgress'
  BY <1>1, <1>2 DEF GuardsMatchProgress, HoldsLookup, WorksOnRequests
<1>5. FramesMatchProgress'
  BY <1>1, NoFrameType DEF FramesMatchProgress, WorksOnRequests, Stored
<1> QED
  BY <1>3, <1>4, <1>5

---------------------------------------------------------------------------
(* Entries *)

LEMMA NewEntryType ==
  ASSUME NEW f \in Frame, Filled(f), f.method = "request_proof"
  PROVE  NewEntry(f) \in Entry
BY ConstantsAssumption
DEF Frame, Filled, NewEntry, Entry, ProofRequest, StatusResponse,
    FulfillmentStatus, ExecutionStatus

LEMMA FulfilledEntryType ==
  ASSUME NEW e \in Entry, NEW f \in Frame, f.addr \in Addr, f.url \in ProofUrl,
         NEW now \in Nat
  PROVE  FulfilledEntry(e, f, now) \in Entry
BY DEF FulfilledEntry, Entry, ProofRequest, StatusResponse,
       FulfillmentStatus, ExecutionStatus

LEMMA FailedEntryType ==
  ASSUME NEW e \in Entry, NEW f \in Frame, NEW now \in Nat
  PROVE  FailedEntry(e, f, now) \in Entry
BY DEF FailedEntry, Frame, Entry, ProofRequest, StatusResponse, FulfillmentStatus

(* Writing an entry keeps the map typed and loses no other entry. *)
LEMMA WriteEntry ==
  ASSUME proof_requests \in [RequestId -> Optional(Entry)],
         NEW i \in RequestId, NEW e \in Entry,
         proof_requests' = [proof_requests EXCEPT ![i] = e]
  PROVE  /\ proof_requests' \in [RequestId -> Optional(Entry)]
         /\ Stored' = Stored \cup {i}
BY NilAssumption DEF Stored

(* The three steps that write an entry: which one they write. *)
LEMMA InsertRequestWrites ==
  ASSUME CallsInv, DataTypeOK, NEW c \in Call, InsertRequest(c)
  PROVE  /\ call[c].id \in RequestId
         /\ NewEntry(call[c]) \in Entry
         /\ proof_requests' =
              [proof_requests EXCEPT ![call[c].id] = NewEntry(call[c])]
BY NewEntryType
DEF CallsInv, CallsTypeOK, FramesMatchProgress, Filled, InsertRequest, HasRequests

LEMMA FinishFulfillWrites ==
  ASSUME CallsInv, DataTypeOK, NEW c \in Call, FinishFulfill(c)
  PROVE  /\ call[c].id \in Stored /\ call[c].id \in RequestId
         /\ proof_requests[call[c].id] \in Entry
         /\ call[c].addr \in Addr /\ call[c].url \in ProofUrl
         /\ FulfilledEntry(proof_requests[call[c].id], call[c], clock) \in Entry
         /\ proof_requests' =
              [proof_requests EXCEPT ![call[c].id] =
                 FulfilledEntry(proof_requests[call[c].id], call[c], clock)]
<1>1. /\ call[c] \in Frame /\ Filled(call[c])
      /\ call[c].method = "fulfill_proof" /\ call[c].id \in Stored
  BY DEF CallsInv, CallsTypeOK, FramesMatchProgress, FinishFulfill, WorksOnRequests
<1>2. call[c].addr \in Addr /\ call[c].url \in ProofUrl
  BY <1>1 DEF Filled
<1>3. call[c].id \in RequestId /\ proof_requests[call[c].id] \in Entry
  BY <1>1 DEF Stored, DataTypeOK
<1>4. clock \in Nat
  BY DEF DataTypeOK
<1>5. FulfilledEntry(proof_requests[call[c].id], call[c], clock) \in Entry
  BY <1>1, <1>2, <1>3, <1>4, FulfilledEntryType
<1> QED
  BY <1>1, <1>2, <1>3, <1>5 DEF FinishFulfill

LEMMA ApplyFailWrites ==
  ASSUME CallsInv, DataTypeOK, NEW c \in Call, ApplyFail(c)
  PROVE  /\ call[c].id \in Stored /\ call[c].id \in RequestId
         /\ proof_requests[call[c].id] \in Entry /\ call[c] \in Frame
         /\ FailedEntry(proof_requests[call[c].id], call[c], clock) \in Entry
         /\ proof_requests' =
              [proof_requests EXCEPT ![call[c].id] =
                 FailedEntry(proof_requests[call[c].id], call[c], clock)]
<1>1. call[c] \in Frame /\ call[c].id \in Stored
  BY DEF CallsInv, CallsTypeOK, ApplyFail
<1>2. call[c].id \in RequestId /\ proof_requests[call[c].id] \in Entry
  BY <1>1 DEF Stored, DataTypeOK
<1>3. clock \in Nat
  BY DEF DataTypeOK
<1> QED
  BY <1>1, <1>2, <1>3, FailedEntryType DEF ApplyFail

---------------------------------------------------------------------------
(* Type correctness *)

LEMMA ResumeData ==
  ASSUME CallsInv, DataTypeOK, NEW c \in Call, Resume(c)
  PROVE  DataTypeOK' /\ Stored \subseteq Stored'
<1> USE DEF DataTypeOK
<1>1. CASE InsertRequest(c)
  <2>1. /\ proof_requests' \in [RequestId -> Optional(Entry)]
        /\ Stored \subseteq Stored' /\ call[c].id \in RequestId
    BY <1>1, InsertRequestWrites, WriteEntry
  <2>2. UNCHANGED <<programs, clock, storage, conn, told>>
        /\ acked' = acked \cup {call[c].id}
    BY <1>1 DEF InsertRequest, http
  <2> QED
    BY <2>1, <2>2 DEF Http!TypeOK, Http!ConnState
<1>2. CASE FinishFulfill(c)
  <2>1. /\ proof_requests' \in [RequestId -> Optional(Entry)]
        /\ Stored \subseteq Stored'
    BY <1>2, FinishFulfillWrites, WriteEntry
  <2>2. UNCHANGED <<programs, clock, storage, conn, acked, told>>
    BY <1>2 DEF FinishFulfill, http, history
  <2> QED
    BY <2>1, <2>2 DEF Http!TypeOK
<1>3. CASE ApplyFail(c)
  <2>1. /\ proof_requests' \in [RequestId -> Optional(Entry)]
        /\ Stored \subseteq Stored'
    BY <1>3, ApplyFailWrites, WriteEntry
  <2>2. UNCHANGED <<programs, clock, storage, conn, acked, told>>
    BY <1>3 DEF ApplyFail, http, history
  <2> QED
    BY <2>1, <2>2 DEF Http!TypeOK
<1>4. CASE InsertProgram(c)
  <2>1. /\ call[c].program_uri \in Uri
        /\ programs' = [programs EXCEPT ![call[c].vk_hash] = call[c].program_uri]
        /\ UNCHANGED <<proof_requests, clock, storage, conn, acked, told>>
    BY <1>4
    DEF InsertProgram, HasPrograms, CallsInv, FramesMatchProgress, Filled,
        http, history
  <2> QED
    BY <2>1 DEF Http!TypeOK, Stored
<1>5. CASE BeginUpload(c)
  <2>1. call[c].url \in ProofUrl /\ call[c].id \in RequestId
    BY <1>5 DEF BeginUpload, HasRequests, CallsInv, FramesMatchProgress, Filled
  <2>2. /\ UNCHANGED <<programs, proof_requests, clock, storage, acked, told>>
        /\ conn' = [conn EXCEPT ![call[c].url] =
                      [state |-> "sent", key |-> call[c].url, body |-> call[c].id]]
    BY <1>5 DEF BeginUpload, Http!Send, store, history
  <2> QED
    BY <2>1, <2>2 DEF Http!TypeOK, Http!ConnState, Stored
<1>6. CASE ReadStatus(c)
  <2>1. UNCHANGED <<programs, proof_requests, clock, storage, conn, acked>>
    BY <1>6 DEF ReadStatus, store, http
  <2>2. \A i \in Stored : proof_requests[i].status.proof_uri \in Optional(ProofUrl)
    BY DEF Stored, Entry, StatusResponse
  <2>3. told' \in [RequestId -> SUBSET ProofUrl]
    BY <1>6, <2>2 DEF ReadStatus
  <2> QED
    BY <2>1, <2>3 DEF Http!TypeOK, Stored
<1>7. CASE \/ LookupProgram(c) \/ ReadProgram(c) \/ UploadRefused(c)
           \/ LogRefusal(c) \/ RequestNotFound(c) \/ AnswerRequests(c)
  <2>1. UNCHANGED <<programs, proof_requests, clock, storage, conn, acked, told>>
    BY <1>7
    DEF LookupProgram, ReadProgram, UploadRefused, LogRefusal, RequestNotFound,
        AnswerRequests, store, http, history
  <2> QED
    BY <2>1 DEF Http!TypeOK, Stored
<1> QED
  BY <1>1, <1>2, <1>3, <1>4, <1>5, <1>6, <1>7 DEF Resume

LEMMA ResumeCalls ==
  ASSUME CallsInv, DataTypeOK, NEW c \in Call, Resume(c)
  PROVE  CallsInv'
<1>1. Stored \subseteq Stored'
  BY ResumeData
<1>2. CASE LookupProgram(c)
  BY <1>2, LookupProgramCalls
<1>3. CASE InsertRequest(c)
  BY <1>1, <1>3, InsertRequestCalls
<1>4. CASE InsertProgram(c) \/ ReadProgram(c)
  <2>1. pc[c] = "programs" /\ programs_lock.owner = c /\ ReturnFromPrograms(c)
    BY <1>4 DEF InsertProgram, ReadProgram, HasPrograms
  <2> QED
    BY <1>1, <2>1, ReturnFromProgramsCalls
<1>5. CASE BeginUpload(c)
  BY <1>5, BeginUploadCalls
<1>6. CASE UploadRefused(c)
  BY <1>6, UploadRefusedCalls
<1>7. CASE FinishFulfill(c) \/ LogRefusal(c)
  <2>1. WorksOnRequests(c) /\ ReturnFromRequests(c)
    BY <1>7 DEF FinishFulfill, LogRefusal, WorksOnRequests
  <2> QED
    BY <1>1, <2>1, WorkingCallOwnsRequests, ReturnFromRequestsCalls
<1>8. CASE ApplyFail(c) \/ RequestNotFound(c) \/ ReadStatus(c) \/ AnswerRequests(c)
  <2>1. pc[c] = "requests" /\ ~HoldsLookup(c) /\ requests_lock.owner = c
        /\ ReturnFromRequests(c)
    BY <1>8
    DEF ApplyFail, RequestNotFound, ReadStatus, AnswerRequests, HasRequests,
        HoldsLookup
  <2> QED
    BY <1>1, <2>1, ReturnFromRequestsCalls
<1> QED
  BY <1>2, <1>3, <1>4, <1>5, <1>6, <1>7, <1>8 DEF Resume

(* An arrival changes no data. *)
LEMMA ArriveData ==
  ASSUME NEW c \in Call, Arrive(c)
  PROVE  UNCHANGED <<programs, proof_requests, clock, storage, conn, acked, told>>
BY DEF Arrive, RequestProof, CreateProgram, GetProgram, FulfillProof,
       FailFulfillment, GetProofRequestStatus, ReadRequest, ReadRequests,
       AwaitPrograms, AwaitRequests, store, http, history

LEMMA NextTyped ==
  CallsInv /\ DataTypeOK /\ [Next]_vars
    => CallsInv' /\ DataTypeOK' /\ Stored \subseteq Stored'
<1> SUFFICES ASSUME CallsInv, DataTypeOK, [Next]_vars
             PROVE  CallsInv' /\ DataTypeOK' /\ Stored \subseteq Stored'
  OBVIOUS
<1>1. ASSUME NEW c \in Call, Arrive(c)
      PROVE  CallsInv' /\ DataTypeOK' /\ Stored \subseteq Stored'
  <2>1. UNCHANGED <<programs, proof_requests, clock, storage, conn, acked, told>>
    BY <1>1, ArriveData
  <2> QED
    BY <1>1, <2>1, ArriveCalls DEF DataTypeOK, Http!TypeOK, Stored
<1>2. ASSUME NEW c \in Call, Resume(c)
      PROVE  CallsInv' /\ DataTypeOK' /\ Stored \subseteq Stored'
  BY <1>2, ResumeCalls, ResumeData
<1>3. ASSUME NEW c \in Call, UploadFails(c)
      PROVE  CallsInv' /\ DataTypeOK' /\ Stored \subseteq Stored'
  <2>1. UNCHANGED <<programs, proof_requests, clock, storage, conn, acked, told>>
    BY <1>3 DEF UploadFails, store, http, history
  <2>2. WorksOnRequests(c) /\ ReturnFromRequests(c)
    BY <1>3 DEF UploadFails, WorksOnRequests
  <2>3. CallsInv'
    BY <2>1, <2>2, WorkingCallOwnsRequests, ReturnFromRequestsCalls DEF Stored
  <2> QED
    BY <2>1, <2>3 DEF DataTypeOK, Http!TypeOK, Stored
<1>4. ASSUME NEW c \in Call, Cancel(c)
      PROVE  CallsInv' /\ DataTypeOK' /\ Stored \subseteq Stored'
  <2>1. UNCHANGED <<programs, proof_requests, clock, storage, conn, acked, told>>
    BY <1>4 DEF Cancel, store, http, history
  <2> QED
    BY <1>4, <2>1, CancelCalls DEF DataTypeOK, Http!TypeOK, Stored
<1>5. ASSUME UNCHANGED <<programs_lock, requests_lock, pc, call, proof_requests>>
      PROVE  CallsInv' /\ Stored \subseteq Stored'
  BY <1>5
  DEF CallsInv, CallsTypeOK, GuardsMatchProgress, HoldsLookup, WorksOnRequests,
      FramesMatchProgress, Stored
<1>6. ASSUME NEW u \in ProofUrl, ServePut(u)
      PROVE  CallsInv' /\ DataTypeOK' /\ Stored \subseteq Stored'
  <2>1. UNCHANGED <<programs, proof_requests, programs_lock, requests_lock, pc,
                    call, clock, acked, told>>
    BY <1>6 DEF ServePut, store, locks, history
  <2>2. Http!TypeOK'
    <3>1. storage' \in [ProofUrl -> Optional(RequestId \cup {Foreign})]
          /\ conn' \in [ProofUrl -> [state: Http!ConnState,
                                     key: Optional(ProofUrl),
                                     body: Optional(RequestId \cup {Foreign})]]
      BY <1>6
      DEF ServePut, Http!UploadArtifact, Http!RejectUpload, Http!TypeOK,
          Http!ConnState, DataTypeOK
    <3> QED
      BY <3>1 DEF Http!TypeOK
  <2> QED
    BY <2>1, <2>2, <1>5 DEF DataTypeOK
<1>7. ASSUME NEW u \in ProofUrl, OthersPut(u)
      PROVE  CallsInv' /\ DataTypeOK' /\ Stored \subseteq Stored'
  <2>1. /\ UNCHANGED <<programs, proof_requests, programs_lock, requests_lock, pc,
                       call, clock, conn, acked, told>>
        /\ storage' = [storage EXCEPT ![u] = Foreign]
    BY <1>7 DEF OthersPut, Http!Put, store, locks, history
  <2> QED
    BY <2>1, <1>5 DEF DataTypeOK, Http!TypeOK
<1>8. CASE Tick
  <2>1. UNCHANGED <<programs, proof_requests, programs_lock, requests_lock, pc,
                    call, storage, conn, acked, told>> /\ clock' = clock + 1
    BY <1>8 DEF Tick, store, locks, http, history
  <2> QED
    BY <2>1, <1>5 DEF DataTypeOK, Http!TypeOK
<1>9. CASE UNCHANGED vars
  <2>1. UNCHANGED <<programs, proof_requests, programs_lock, requests_lock, pc,
                    call, clock, storage, conn, acked, told>>
    BY <1>9 DEF vars, store, locks, http, history
  <2> QED
    BY <2>1, <1>5 DEF DataTypeOK, Http!TypeOK
<1> QED
  BY <1>1, <1>2, <1>3, <1>4, <1>6, <1>7, <1>8, <1>9 DEF Next

(* A step is a call's own, or drops it, or leaves it where it is. *)
LEMMA CallSteps ==
  ASSUME CallsInv, DataTypeOK, [Next]_vars, NEW c \in Call
  PROVE  \/ Arrive(c) \/ Resume(c)
         \/ pc'[c] = "idle" /\ call'[c] = NoFrame
         \/ pc'[c] = pc[c] /\ call'[c] = call[c]
<1> USE DEF CallsInv, CallsTypeOK
<1>1. ASSUME NEW d \in Call, d # c, Arrive(d)
      PROVE  pc'[c] = pc[c] /\ call'[c] = call[c]
  BY <1>1, ArriveAwaits DEF Arrives, AwaitPrograms, AwaitRequests
<1>2. ASSUME NEW d \in Call, d # c, Resume(d)
      PROVE  pc'[c] = pc[c] /\ call'[c] = call[c]
  BY <1>2
  DEF Resume, LookupProgram, InsertRequest, InsertProgram, ReadProgram,
      BeginUpload, FinishFulfill, UploadRefused, LogRefusal, ApplyFail,
      RequestNotFound, ReadStatus, AnswerRequests, Return, ReturnFromPrograms,
      ReturnFromRequests
<1>3. ASSUME NEW d \in Call, UploadFails(d) \/ Cancel(d)
      PROVE  \/ pc'[c] = "idle" /\ call'[c] = NoFrame
             \/ pc'[c] = pc[c] /\ call'[c] = call[c]
  BY <1>3 DEF UploadFails, Cancel, Return, ReturnFromRequests
<1>4. ASSUME (\E u \in ProofUrl : ServePut(u) \/ OthersPut(u)) \/ Tick \/ UNCHANGED vars
      PROVE  pc'[c] = pc[c] /\ call'[c] = call[c]
  BY <1>4 DEF ServePut, OthersPut, Tick, vars
<1> QED
  BY <1>1, <1>2, <1>3, <1>4 DEF Next

(* What every later theorem rests on. *)
LEMMA Typed == Spec => [](CallsInv /\ DataTypeOK)
BY InitCalls, InitData, NextTyped, PTL DEF Spec

(* Every reachable state is well typed. *)
THEOREM TypeCorrect == Spec => []TypeOK
<1>1. CallsInv /\ DataTypeOK => TypeOK
  BY TypeOKParts DEF CallsInv
<1> QED
  BY <1>1, Typed, PTL

(* Every mutex is claimed by exactly the calls that wait for it or work    *)
(* under it, in every reachable state.                                     *)
THEOREM GuardsCorrect == Spec => []GuardsMatchProgress
<1>1. CallsInv => GuardsMatchProgress
  BY DEF CallsInv
<1> QED
  BY <1>1, Typed, PTL

LEMMA ClaimedIsOwned ==
  ASSUME NEW m \in Mutex, Orderly(m), NEW c \in Call, Claims(m, c)
  PROVE  m.owner \in Call /\ Claims(m, m.owner)
<1>1. CASE m.owner = NoCall
  <2>1. m.waiters = <<>> /\ c # NoCall
    BY <1>1, NoCallAssumption DEF Orderly
  <2>2. ~Contains(m.waiters, c)
    BY <2>1 DEF Contains
  <2> QED
    BY <1>1, <2>1, <2>2 DEF Claims
<1>2. CASE m.owner # NoCall
  BY <1>2 DEF Mutex, Claims
<1> QED
  BY <1>1, <1>2

(* No calls ever wait for each other in a circle: the holder of            *)
(* proof_requests can go on, and the holder of programs can or waits for   *)
(* that of proof_requests, for any number of calls.                        *)
THEOREM NeverCircularWait == Spec => []NoCircularWait
<1>1. CallsInv => NoCircularWait
  <2> SUFFICES ASSUME CallsInv, NEW c \in Call
               PROVE  /\ pc[c] = "requests" => RequestsHolderRuns
                      /\ pc[c] = "programs" =>
                           \E d \in Call :
                             /\ programs_lock.owner = d
                             /\ Runs(d) \/ (pc[d] = "requests" /\ RequestsHolderRuns)
    BY DEF NoCircularWait
  <2> USE DEF CallsInv, CallsTypeOK, GuardsMatchProgress
  <2>1. ASSUME NEW d \in Call, pc[d] = "requests"
        PROVE  RequestsHolderRuns
    <3>1. requests_lock.owner \in Call /\ Claims(requests_lock, requests_lock.owner)
      BY <2>1, ClaimedIsOwned
    <3>2. Runs(requests_lock.owner)
      BY <3>1 DEF Runs
    <3> QED
      BY <3>1, <3>2 DEF RequestsHolderRuns
  <2>2. CASE pc[c] = "programs"
    <3> DEFINE d == programs_lock.owner
    <3>1. d \in Call /\ Claims(programs_lock, d)
      BY <2>2, ClaimedIsOwned
    <3>2. pc[d] = "programs" => Runs(d)
      BY DEF Runs
    <3>3. pc[d] = "programs" \/ pc[d] = "requests"
      BY <3>1 DEF HoldsLookup
    <3> QED
      BY <2>1, <3>1, <3>2, <3>3
  <2> QED
    BY <2>1, <2>2
<1> QED
  BY <1>1, Typed, PTL

============================================================================
