-------------------------- MODULE ProofSweepProofs --------------------------
(***************************************************************************)
(* What a reader of pages gets while the map changes, for any filter,      *)
(* limit and number of requests.                                           *)
(*                                                                         *)
(* The argument compares positions with the border between the pages that  *)
(* are read and those that are not, next * limit.  A request not yet read  *)
(* stays at or behind the border unless one before it ceases to match or   *)
(* ties change places (Unmissed); one that was read stays before it unless *)
(* one before it begins to match (Unrepeated).                             *)
(***************************************************************************)
EXTENDS ProofSweep, ProofQueryProofs

Border == next * PageLimit(query)

Missable(i) == InTie(i) \/ \E j \in left : NotYounger(j, i)
Repeatable(i) == InTie(i) \/ \E j \in joined : NotYounger(j, i)

Unmissed == \A i \in whole \ seen : Missable(i) \/ Position(query, i) >= Border
Unrepeated ==
  \A i \in seen \cap Matching(query) : Repeatable(i) \/ Position(query, i) < Border

HistoriesOK ==
  /\ seen \subseteq Stored /\ twice \subseteq seen
  /\ whole \subseteq Stored /\ joined \subseteq Stored /\ left \subseteq Stored
  /\ phase = "reading" => whole \subseteq Matching(query)
  /\ phase = "idle" => next = 0 /\ seen = {} /\ joined = {} /\ left = {}

SweepInv ==
  /\ QueryInv /\ SweepTypeOK /\ HistoriesOK
  /\ PageLimit(query) > 0
  /\ phase = "reading" => Unmissed /\ Unrepeated
  /\ SweepComplete /\ SweptOnce

LEMMA SweepInvInit == SweepInit => SweepInv
BY QueryInvInit
DEF SweepInit, SweepInv, SweepTypeOK, QueryInv, Phase, HistoriesOK, SweepComplete,
    SweptOnce

LEMMA BorderType ==
  ASSUME SweepInv
  PROVE  /\ query \in Query /\ next \in Nat /\ PageLimit(query) \in Nat
         /\ Border \in Nat
         /\ (next + 1) * PageLimit(query) = Border + PageLimit(query)
<1>1. query \in Query /\ next \in Nat
  BY QueriesAssumption DEF SweepInv, SweepTypeOK
<1>2. PageLimit(query) \in Nat
  BY <1>1, NumberedMatches
<1> QED
  BY <1>1, <1>2 DEF Border

---------------------------------------------------------------------------
(* The reader's steps *)

LEMMA BeginKeeps ==
  ASSUME SweepInv, Begin
  PROVE  SweepInv'
<1> USE DEF SweepInv, Begin
<1>1. QueryInv' /\ SweepTypeOK'
  BY DEF queryVars, QueryInv, SweepTypeOK, QueryTypeOK, WaitingFresh, Stored, Phase,
         Matching
<1>2. Matching(query)' = Matching(query) /\ Stored' = Stored
  BY DEF queryVars, Matching, Stored
<1>3. HistoriesOK'
  BY <1>2 DEF HistoriesOK, Matching
<1>4. seen' = {} /\ twice' = {}
  BY DEF HistoriesOK
<1>5. Border' = 0 /\ \A i : Position(query, i)' \in Nat
  <2>1. \A i : Position(query, i)' = Position(query, i)
    BY <1>2 DEF queryVars, Position, Ahead, Before, Older, Tied
  <2> QED
    BY <2>1, BorderType, MatchingFinite DEF HistoriesOK, Border
<1>6. Unmissed' /\ Unrepeated'
  BY <1>4, <1>5 DEF Unmissed, Unrepeated
<1>7. SweepComplete' /\ SweptOnce'
  BY <1>4 DEF SweepComplete, SweptOnce
<1> QED
  BY <1>1, <1>3, <1>6, <1>7

LEMMA PageOfReader ==
  ASSUME SweepInv
  PROVE  /\ PageRead = {i \in Matching(query) :
                          /\ Border <= Position(query, i)
                          /\ Position(query, i) < Border + PageLimit(query)}
         /\ PageRead \subseteq RequestId
         /\ \A i \in Matching(query) :
              Position(query, i) >= Border + PageLimit(query) =>
                Cardinality(PageRead) = PageLimit(query)
<1> DEFINE q == Numbered(query, next)
<1>1. PageRead = Page(q)
  BY DEF PageRead, Numbered
<1>2. /\ Matching(q) = Matching(query) /\ Numbers(q)
      /\ PageNumber(q) * PageLimit(q) = Border /\ PageLimit(q) = PageLimit(query)
      /\ \A i : Position(q, i) = Position(query, i)
  BY BorderType, NumberedMatches DEF Border
<1>3. \A i \in Matching(query) :
        Position(query, i) >= Border + PageLimit(query) =>
          Cardinality(Page(q)) = PageLimit(query)
  <2> HIDE DEF q
  <2> QED
    BY <1>2, FullPage DEF SweepInv, SweepTypeOK
<1>4. Page(q) = {i \in Matching(query) :
                   /\ Border <= Position(query, i)
                   /\ Position(query, i) < Border + PageLimit(query)}
  BY BorderType, NumberedPage DEF Border
<1>5. Page(q) \subseteq RequestId
  BY <1>4 DEF Matching, Stored
<1> QED
  BY <1>1, <1>3, <1>4, <1>5

LEMMA ReadPageKeeps ==
  ASSUME SweepInv, ReadPage
  PROVE  SweepInv'
<1> USE DEF SweepInv, ReadPage
<1>1. /\ Matching(query)' = Matching(query) /\ Stored' = Stored
      /\ \A i : Position(query, i)' = Position(query, i)
      /\ \A i : InTie(i)' = InTie(i)
      /\ \A i, j : NotYounger(j, i)' = NotYounger(j, i)
  BY DEF queryVars, Matching, Stored, Position, Ahead, Before, Older, Tied, InTie,
         NotYounger
<1>2. /\ \A i : Missable(i)' = Missable(i)
      /\ \A i : Repeatable(i)' = Repeatable(i)
  BY <1>1 DEF Missable, Repeatable, historyVars
<1>3. PageLimit(query)' = PageLimit(query) /\ Border' = Border + PageLimit(query)
  BY BorderType DEF Border
<1>4. QueryInv'
  BY DEF queryVars, QueryInv, QueryTypeOK, WaitingFresh, Stored
<1>5. SweepTypeOK'
  BY <1>4, BorderType, PageOfReader
  DEF QueryInv, SweepTypeOK, Phase, historyVars
<1>6. HistoriesOK'
  <2>1. PageRead \subseteq Stored
    BY PageOfReader DEF Matching
  <2> QED
    BY <1>1, <2>1 DEF HistoriesOK, historyVars
<1>7. Unmissed'
  <2> SUFFICES ASSUME NEW i \in whole \ (seen \cup PageRead), ~Missable(i)
               PROVE  Position(query, i) >= Border + PageLimit(query)
    BY <1>1, <1>2, <1>3 DEF Unmissed, historyVars
  <2>1. i \in Matching(query) /\ Position(query, i) >= Border
    BY DEF HistoriesOK, Unmissed
  <2> QED
    BY <2>1, PageOfReader, BorderType, MatchingFinite
<1>8. Unrepeated'
  <2> SUFFICES ASSUME NEW i \in (seen \cup PageRead) \cap Matching(query), ~Repeatable(i)
               PROVE  Position(query, i) < Border + PageLimit(query)
    BY <1>1, <1>2, <1>3 DEF Unrepeated
  <2>1. CASE i \in PageRead
    BY <2>1, PageOfReader
  <2>2. CASE i \in seen
    <3>1. Position(query, i) < Border
      BY <2>2 DEF Unrepeated
    <3> QED
      BY <3>1, BorderType, MatchingFinite
  <2> QED
    BY <2>1, <2>2
<1>9. SweepComplete'
  <2> SUFFICES ASSUME Cardinality(PageRead) < PageLimit(query),
                      NEW i \in whole \ (seen \cup PageRead)
               PROVE  Missable(i)
    BY <1>1, <1>2 DEF SweepComplete, Missable, historyVars
  <2>1. i \in Matching(query)
    BY DEF HistoriesOK
  <2>2. ~(Position(query, i) >= Border + PageLimit(query))
    <3>1. PageLimit(query) \in Nat
      BY BorderType
    <3> QED
      BY <2>1, <3>1, PageOfReader
  <2>3. ~(Position(query, i) >= Border)
    BY <2>1, <2>2, PageOfReader, BorderType, MatchingFinite
  <2> QED
    BY <2>3 DEF Unmissed
<1>10. SweptOnce'
  <2> SUFFICES ASSUME NEW i \in twice \cup (seen \cap PageRead)
               PROVE  Repeatable(i)
    BY <1>1, <1>2 DEF SweptOnce, Repeatable, historyVars
  <2>1. CASE i \in twice
    BY <2>1 DEF SweptOnce, Repeatable
  <2>2. CASE i \in seen \cap PageRead
    <3>1. i \in Matching(query) /\ Position(query, i) >= Border
      BY <2>2, PageOfReader, BorderType, MatchingFinite
    <3> QED
      BY <2>2, <3>1, BorderType, MatchingFinite DEF Unrepeated
  <2> QED
    BY <2>1, <2>2
<1> QED
  BY <1>3, <1>4, <1>5, <1>6, <1>7, <1>8, <1>9, <1>10

LEMMA RestKeeps ==
  ASSUME SweepInv, Rest
  PROVE  SweepInv'
BY DEF SweepInv, Rest, queryVars, QueryInv, SweepTypeOK, QueryTypeOK, WaitingFresh,
       Stored, Phase, HistoriesOK, SweepComplete, SweptOnce

---------------------------------------------------------------------------
(* Steps of the service *)

(* No entry goes and none changes its creation time, so what excuses a     *)
(* missed or repeated request goes on doing so.                            *)
LEMMA ExcusesStay ==
  ASSUME SweepInv, [ServiceNext]_queryVars
  PROVE  /\ \A i, j \in Stored : /\ Tied(j, i)' = Tied(j, i)
                                 /\ Older(j, i)' = Older(j, i)
                                 /\ NotYounger(j, i)' = NotYounger(j, i)
         /\ \A i \in Stored : InTie(i) => InTie(i)'
<1>1. \A i \in Stored : i \in Stored' /\ requests'[i].created_at = requests[i].created_at
  BY EntriesStay DEF SweepInv, SameIdentity
<1>2. \A i, j \in Stored : /\ Tied(j, i)' = Tied(j, i)
                           /\ Older(j, i)' = Older(j, i)
                           /\ NotYounger(j, i)' = NotYounger(j, i)
  BY <1>1 DEF Tied, Older, NotYounger
<1> QED
  BY <1>1, <1>2 DEF InTie

(* Without a tie, the order of the iteration does not matter. *)
LEMMA UntiedBefore ==
  ASSUME QueryTypeOK, NEW i \in Stored, NEW j \in Stored, ~InTie(i)
  PROVE  Before(j, i) <=> Older(j, i)
<1>1. CASE j = i
  BY <1>1, BeforeIsOrder DEF Before
<1>2. CASE j # i
  BY <1>2 DEF Before, InTie
<1> QED
  BY <1>1, <1>2

LEMMA MeanwhileIdleKeeps ==
  ASSUME SweepInv, Meanwhile, phase # "reading"
  PROVE  SweepInv'
<1> USE DEF SweepInv, Meanwhile
<1>1. QueryInv' /\ Stored \subseteq Stored'
  BY QueryInvNext, EntriesStay
<1>2. phase = "idle"
  BY DEF SweepTypeOK, Phase
<1>3. UNCHANGED <<readerVars, historyVars>>
  OBVIOUS
<1>4. UNCHANGED <<phase, query, next, seen, twice, whole, joined, left>>
  BY <1>3 DEF readerVars, historyVars
<1>5. SweepTypeOK' /\ HistoriesOK'
  BY <1>1, <1>2, <1>4 DEF QueryInv, SweepTypeOK, HistoriesOK
<1>6. SweepComplete' /\ SweptOnce'
  BY <1>2, <1>4 DEF SweepComplete, SweptOnce, HistoriesOK
<1>7. (PageLimit(query) > 0)' /\ phase' # "reading"
  BY <1>2, <1>4 DEF PageLimit
<1> QED
  BY <1>1, <1>5, <1>6, <1>7

LEMMA MeanwhileReadingKeeps ==
  ASSUME SweepInv, Meanwhile, phase = "reading"
  PROVE  SweepInv'
<1> USE DEF SweepInv, Meanwhile
<1>1. /\ QueryInv' /\ Stored \subseteq Stored'
      /\ QueryTypeOK /\ QueryTypeOK'
  BY QueryInvNext, EntriesStay DEF QueryInv
<1>2. /\ UNCHANGED <<phase, query, next, seen, twice>>
      /\ whole' = whole \cap Matching(query)'
      /\ joined' = joined \cup (Matching(query)' \ Matching(query))
      /\ left' = left \cup (Matching(query) \ Matching(query)')
  BY DEF readerVars
<1>3. /\ Matching(query) \subseteq Stored /\ Matching(query)' \subseteq Stored'
      /\ Stored \subseteq RequestId /\ Stored' \subseteq RequestId
  BY DEF Matching, Stored
<1>4. PageLimit(query)' = PageLimit(query) /\ Border' = Border /\ Border \in Nat
  BY <1>2, BorderType DEF Border, PageLimit
<1>5. SweepTypeOK' /\ HistoriesOK'
  BY <1>1, <1>2, <1>3 DEF SweepTypeOK, HistoriesOK
<1>6. \A i \in Stored : /\ Missable(i) => Missable(i)'
                        /\ Repeatable(i) => Repeatable(i)'
  BY <1>2, ExcusesStay DEF Missable, Repeatable, HistoriesOK
<1>7. Unmissed'
  <2> SUFFICES ASSUME NEW i \in whole' \ seen', ~Missable(i)'
               PROVE  Position(query, i)' >= Border
    BY <1>4 DEF Unmissed
  <2>1. /\ i \in whole \ seen /\ i \in Stored /\ i \in Stored'
        /\ ~Missable(i) /\ ~InTie(i) /\ ~InTie(i)'
    BY <1>1, <1>2, <1>6 DEF HistoriesOK, Missable
  <2>2. Position(query, i) >= Border
    BY <2>1 DEF Unmissed
  <2>3. ASSUME NEW j \in Ahead(query, i)
        PROVE  j \in Ahead(query, i)'
    <3>1. j \in Matching(query) /\ j \in Stored /\ Older(j, i)
      BY <1>1, <1>3, <2>1, UntiedBefore DEF Ahead
    <3>2. Older(j, i)' /\ NotYounger(j, i)'
      <4>1. Older(j, i)'
        BY <2>1, <3>1, ExcusesStay
      <4>2. NotYounger(j, i)
        BY <1>1, <2>1, <3>1, BeforeIsOrder DEF Older, NotYounger
      <4> QED
        BY <2>1, <3>1, <4>1, <4>2, ExcusesStay
    <3>3. j \in Matching(query)'
      BY <1>2, <3>1, <3>2 DEF Missable
    <3> QED
      BY <3>2, <3>3 DEF Ahead, Before
  <2>4. IsFiniteSet(Ahead(query, i)') /\ Ahead(query, i) \subseteq Ahead(query, i)'
    <3>1. Ahead(query, i)' \in SUBSET RequestId
      BY <1>3 DEF Ahead
    <3> QED
      BY <2>3, <3>1, QueryConstants, FS_Subset
  <2>5. Position(query, i) <= Position(query, i)'
    BY <2>4, FS_Subset DEF Position
  <2>6. Position(query, i)' \in Nat
    BY <2>4, FS_CardinalityType DEF Position
  <2> QED
    BY <1>4, <2>2, <2>5, <2>6, MatchingFinite
<1>8. Unrepeated'
  <2> SUFFICES ASSUME NEW i \in seen' \cap Matching(query)', ~Repeatable(i)'
               PROVE  Position(query, i)' < Border
    BY <1>4 DEF Unrepeated
  <2>1. /\ i \in seen /\ i \in Stored /\ i \in Stored'
        /\ ~Repeatable(i) /\ ~InTie(i) /\ ~InTie(i)'
    BY <1>1, <1>2, <1>6 DEF HistoriesOK, Repeatable
  <2>2. \A j \in Stored' : /\ requests'[j].created_at \in Nat
                           /\ Older(j, i)' => NotYounger(j, i)'
    BY <1>1, <2>1, BeforeIsOrder, EntriesStay
    DEF Older, NotYounger, QueryTypeOK, Stored, ProofRequest
  <2>3. NotYounger(i, i)'
    BY <2>1, <2>2 DEF NotYounger
  <2>4. i \in Matching(query)
    BY <1>2, <2>1, <2>3 DEF Repeatable
  <2>5. Position(query, i) < Border
    BY <2>1, <2>4 DEF Unrepeated
  <2>6. ASSUME NEW j \in Ahead(query, i)'
        PROVE  j \in Ahead(query, i)
    <3>1. j \in Matching(query)' /\ j \in Stored' /\ Before(j, i)'
      BY <1>3 DEF Ahead
    <3>2. j # i
      BY <1>1, <1>3, <2>1, <2>2, <3>1, PlaceType DEF QueryTypeOK, Before, Older
    <3>3. Older(j, i)'
      BY <2>1, <3>1, <3>2 DEF Before, InTie
    <3>4. j \in Matching(query)
      BY <1>2, <2>2, <3>1, <3>3 DEF Repeatable
    <3>5. Older(j, i)
      BY <1>3, <2>1, <3>3, <3>4, ExcusesStay
    <3> QED
      BY <3>4, <3>5 DEF Ahead, Before
  <2>7. Ahead(query, i)' \subseteq Ahead(query, i)
    BY <2>6
  <2>8. Position(query, i)' <= Position(query, i) /\ Position(query, i)' \in Nat
    BY <2>7, MatchingFinite, FS_Subset, FS_CardinalityType DEF Position
  <2> QED
    BY <1>4, <2>5, <2>8, MatchingFinite
<1>9. SweepComplete' /\ SweptOnce'
  <2>1. SweepComplete'
    BY <1>2 DEF SweepComplete
  <2>2. \A i \in twice : i \in Stored /\ Repeatable(i)
    BY DEF SweptOnce, Repeatable, HistoriesOK
  <2>3. SweptOnce'
    BY <1>2, <1>6, <2>2 DEF SweptOnce, Repeatable
  <2> QED
    BY <2>1, <2>3
<1> QED
  BY <1>1, <1>2, <1>4, <1>5, <1>7, <1>8, <1>9

LEMMA SweepInvHolds == SweepSpec => []SweepInv
<1>1. SweepInv /\ [SweepNext]_sweepVars => SweepInv'
  <2>1. ASSUME SweepInv, UNCHANGED sweepVars
        PROVE  SweepInv'
    BY <2>1
    DEF sweepVars, queryVars, readerVars, historyVars, SweepInv, QueryInv, QueryTypeOK,
        WaitingFresh, Stored, SweepTypeOK, HistoriesOK, Unmissed, Unrepeated, Missable,
        Repeatable, InTie, Tied, NotYounger, Older, Before, Position, Ahead, Matching,
        Border, SweepComplete, SweptOnce
  <2> QED
    BY <2>1, BeginKeeps, ReadPageKeeps, RestKeeps, MeanwhileIdleKeeps,
       MeanwhileReadingKeeps DEF SweepNext
<1> QED
  BY SweepInvInit, <1>1, PTL DEF SweepSpec

---------------------------------------------------------------------------
(* A sweep misses no request that matched throughout, but for ties and     *)
(* older requests that went.                                               *)
THEOREM SweepAlwaysComplete == SweepSpec => []SweepComplete
<1>1. SweepInv => SweepComplete
  BY DEF SweepInv
<1> QED
  BY <1>1, SweepInvHolds, PTL

(* A sweep shows no request twice, but for ties and requests that came.    *)
THEOREM AlwaysSweptOnce == SweepSpec => []SweptOnce
<1>1. SweepInv => SweptOnce
  BY DEF SweepInv
<1> QED
  BY <1>1, SweepInvHolds, PTL

============================================================================
