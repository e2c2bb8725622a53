----------------------------- MODULE ProofSweep -----------------------------
(***************************************************************************)
(* A client that reads all pages of one filter, from page 0 to the first   *)
(* page that is not full, while other clients open, fulfil and fail        *)
(* requests.  get_filtered_proof_requests keeps nothing between two calls  *)
(* (no cursor, no snapshot), so a page is cut from what matches at the     *)
(* moment it is read, and requests may be missed or come twice.  This      *)
(* module says when.                                                       *)
(*                                                                         *)
(* The reader is no part of src/; its calls are what the interface offers. *)
(***************************************************************************)
EXTENDS ProofQuery

VARIABLES
  phase,    \* of the reader
  query,    \* the filter and limit it reads
  next,     \* the page it reads next
  seen,     \* the requests it got
  twice,    \* those it got on two pages
  whole,    \* the requests that matched all the time since it began
  joined,   \* those that began to match since
  left      \* those that ceased to match since

readerVars == <<phase, query, next, seen, twice>>
historyVars == <<whole, joined, left>>
sweepVars == <<queryVars, readerVars, historyVars>>

Phase == {"idle", "reading", "done"}

SweepTypeOK ==
  /\ QueryTypeOK
  /\ phase \in Phase
  /\ query \in Queries
  /\ next \in Nat
  /\ seen \in SUBSET RequestId
  /\ twice \in SUBSET RequestId
  /\ whole \in SUBSET RequestId
  /\ joined \in SUBSET RequestId
  /\ left \in SUBSET RequestId

SweepInit ==
  /\ QueryInit
  /\ phase = "idle"
  /\ query \in {q \in Queries : PageLimit(q) > 0}
  /\ next = 0
  /\ seen = {}
  /\ twice = {}
  /\ whole = {}
  /\ joined = {}
  /\ left = {}

(* A limit of 0 would give empty pages, none of which is the last. *)
Begin ==
  /\ phase = "idle"
  /\ phase' = "reading"
  /\ whole' = Matching(query)
  /\ UNCHANGED <<queryVars, query, next, seen, twice, joined, left>>

PageRead == Page([query EXCEPT !.page = next])

ReadPage ==
  /\ phase = "reading"
  /\ seen' = seen \cup PageRead
  /\ twice' = twice \cup (seen \cap PageRead)
  /\ next' = next + 1
  /\ phase' = IF Cardinality(PageRead) < PageLimit(query) THEN "done" ELSE "reading"
  /\ UNCHANGED <<queryVars, query, historyVars>>

(* What the reader got is its own business from now on. *)
Rest ==
  /\ phase = "done"
  /\ phase' = "idle"
  /\ next' = 0
  /\ UNCHANGED <<queryVars, query>>
  /\ seen' = {} /\ twice' = {}
  /\ whole' = {} /\ joined' = {} /\ left' = {}

(* A step of the service, and what it does to the requests that match. *)
Meanwhile ==
  /\ phase # "done"
  /\ ServiceNext
  /\ UNCHANGED readerVars
  /\ IF phase = "reading"
     THEN /\ whole' = whole \cap Matching(query)'
          /\ joined' = joined \cup (Matching(query)' \ Matching(query))
          /\ left' = left \cup (Matching(query) \ Matching(query)')
     ELSE UNCHANGED historyVars

SweepNext == Begin \/ ReadPage \/ Rest \/ Meanwhile

SweepSpec == SweepInit /\ [][SweepNext]_sweepVars

---------------------------------------------------------------------------
(* Another request was created in the same second: the sort leaves the two *)
(* in the order in which the hash map is iterated.                         *)
InTie(i) == \E j \in Stored \ {i} : Tied(j, i)

NotYounger(j, i) == requests[j].created_at <= requests[i].created_at

(* A request that matched during the whole sweep is on one of its pages,   *)
(* although they are cut from different states of the map, unless another  *)
(* request was created in the same second, or one that is older ceased to  *)
(* match and so moved the rest up by one.  What is opened meanwhile never  *)
(* hides a request: also when it was delayed on a mutex and is inserted    *)
(* with a creation time that lies before the pages already read.           *)
SweepComplete ==
  phase = "done" =>
    \A i \in whole \ seen : InTie(i) \/ \E j \in left : NotYounger(j, i)

(* Nor does a request come on two pages, unless one was created in the     *)
(* same second, or one that is no younger began to match and so moved the  *)
(* rest down: a late insert, a proof whose fulfilment the filter looks     *)
(* for.                                                                    *)
SweptOnce ==
  \A i \in twice : InTie(i) \/ \E j \in joined : NotYounger(j, i)

============================================================================
