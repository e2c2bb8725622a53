---------------------------- MODULE TokioMutex ----------------------------
(***************************************************************************)
(* tokio::sync::Mutex, as the handlers of the coordinator use it.          *)
(*                                                                         *)
(* The mutex is fair: waiters are served in the order of their first poll, *)
(* and a dropped guard hands the mutex to the first waiter directly.  A    *)
(* call whose future is dropped (its client went away) leaves the queue if *)
(* it waits and releases the mutex if it owns it.                          *)
(***************************************************************************)
EXTENDS Sequences, SequencesExt

CONSTANTS
  Call,     \* the calls that may ask for a mutex
  NoCall    \* the owner of a free mutex

ASSUME NoCallAssumption == NoCall \notin Call

Mutex == [owner: Call \cup {NoCall}, waiters: Seq(Call)]

Unlocked == [owner |-> NoCall, waiters |-> <<>>]

(* lock(): own a free mutex, queue for a taken one. *)
Acquire(m, c) ==
  IF m.owner = NoCall THEN [m EXCEPT !.owner = c]
                      ELSE [m EXCEPT !.waiters = Append(@, c)]

(* drop(guard): the longest waiting call becomes the owner. *)
Release(m) ==
  IF m.waiters = <<>> THEN Unlocked
                      ELSE [owner   |-> Head(m.waiters),
                            waiters |-> Tail(m.waiters)]

(* Dropping a future: whatever claim c has on the mutex is given up. *)
Leave(m, c) ==
  IF m.owner = c THEN Release(m)
                 ELSE [m EXCEPT !.waiters = RemoveFirst(@, c)]

Claims(m, c) == m.owner = c \/ Contains(m.waiters, c)

(* Nobody waits for a free mutex, and no call claims a mutex twice. *)
Orderly(m) ==
  /\ m.owner = NoCall => m.waiters = <<>>
  /\ IsInjective(m.waiters)
  /\ ~Contains(m.waiters, m.owner)

===========================================================================
