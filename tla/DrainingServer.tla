--------------------------- MODULE DrainingServer ---------------------------
(***************************************************************************)
(* What the process promises the callers of its gRPC services about its    *)
(* end: calls are taken only while it serves, it is over only when the     *)
(* last of them has returned, what they depend on is kept until then, and  *)
(* the process exits only after that, for good.                            *)
(***************************************************************************)
CONSTANT Caller

VARIABLES
  stage,   \* of the server
  open,    \* the callers whose call has not returned
  kept     \* what calls depend on, the artifact store, is not taken away

lifeVars == <<stage, open, kept>>

Stage == {"starting", "serving", "draining", "over", "exited"}

LifeTypeOK ==
  /\ stage \in Stage
  /\ open \in SUBSET Caller
  /\ kept \in BOOLEAN

Init ==
  /\ stage = "starting"
  /\ open = {}
  /\ kept = TRUE

Serve ==
  /\ stage = "starting"
  /\ stage' = "serving"
  /\ UNCHANGED <<open, kept>>

GiveUp ==
  /\ stage = "starting"
  /\ stage' = "over"
  /\ kept' \in BOOLEAN
  /\ UNCHANGED open

Take(c) ==
  /\ stage = "serving"
  /\ c \notin open
  /\ open' = open \cup {c}
  /\ UNCHANGED <<stage, kept>>

Return(c) ==
  /\ c \in open
  /\ open' = open \ {c}
  /\ UNCHANGED <<stage, kept>>

StopTaking ==
  /\ stage = "serving"
  /\ stage' = "draining"
  /\ UNCHANGED <<open, kept>>

Close ==
  /\ stage = "draining"
  /\ open = {}
  /\ stage' = "over"
  /\ kept' \in BOOLEAN
  /\ UNCHANGED open

Exit ==
  /\ stage = "over"
  /\ stage' = "exited"
  /\ UNCHANGED <<open, kept>>

Next ==
  \/ Serve \/ GiveUp \/ StopTaking \/ Close \/ Exit
  \/ \E c \in Caller : Take(c) \/ Return(c)

Spec == Init /\ [][Next]_lifeVars

=============================================================================
