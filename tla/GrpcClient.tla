----------------------------- MODULE GrpcClient -----------------------------
(***************************************************************************)
(* The command line tool (tools/grpcclient): one process that asks a       *)
(* service for a request or a program, or checks a proof it loads, prints  *)
(* what it got and exits.                                                  *)
(*                                                                         *)
(* The times in an answer are whatever u64 the service sends: it stamped   *)
(* some with a clock of its own, a requester chose the deadline.           *)
(* format_timestamp compares each with the clock of the tool's machine,    *)
(* once or twice.  What it returns goes to standard output, whose reader   *)
(* may have gone away.                                                     *)
(***************************************************************************)
EXTENDS Naturals

CONSTANTS
  MaxStamp,        \* the largest u64
  MaxSystemTime,   \* the latest second a SystemTime can hold, i64's largest
  MaxClock,        \* bound on the clock of the tool's machine
  Nil              \* Rust's None

Stamp == 0 .. MaxStamp
Times == {"deadline", "created_at", "updated_at"}
Field == Times \cup {"fulfilled_at"}

ASSUME ToolConstants ==
  /\ MaxClock \in Nat /\ MaxSystemTime \in Nat /\ MaxStamp \in Nat
  /\ MaxClock <= MaxSystemTime /\ MaxSystemTime < MaxStamp
  /\ Nil \notin Nat
  /\ \A given \in SUBSET Field : Nil \notin [given -> Stamp]

VARIABLES
  command,   \* what the command line says
  phase,     \* what the process waits for, or does
  answer,    \* the times the service gave, by name, or Nil
  printed,   \* the lines that show a time
  earlier,   \* the clock when a timestamp was found to be past, or Nil
  verdict,   \* on the proof
  reader,    \* somebody reads standard output
  clock,     \* SystemTime::now()
  setBack    \* the clock was set back since it was read for a timestamp

vars == <<command, phase, answer, printed, earlier, verdict, reader, clock,
          setBack>>

Asking == {"details", "status", "program"}
Verifying == {"verify url", "verify file", "verify nothing"}
Exit == {"ok", "error", "panic"}

Phase == {"start", "connecting", "asking", "printing", "pausing",
          "downloading", "reading", "checking"} \cup Exit

Line == [name: Field, of: Stamp, says: {"in", "ago"}, seconds: Stamp]

TypeOK ==
  /\ command \in Asking \cup Verifying
  /\ phase \in Phase
  /\ answer # Nil => \E given \in SUBSET Field : answer \in [given -> Stamp]
  /\ printed \subseteq Line
  /\ earlier \in (0 .. MaxClock) \cup {Nil}
  /\ verdict \in {"none", "good", "bad"}
  /\ reader \in BOOLEAN
  /\ clock \in 0 .. MaxClock
  /\ setBack \in BOOLEAN

Init ==
  /\ command \in Asking \cup Verifying
  /\ phase = "start"
  /\ answer = Nil /\ printed = {}
  /\ earlier = Nil
  /\ verdict = "none"
  /\ reader \in BOOLEAN
  /\ clock \in 0 .. MaxClock
  /\ setBack = FALSE

Goto(p) ==
  phase' = p /\ UNCHANGED <<command, earlier, reader, clock, setBack>>

---------------------------------------------------------------------------
(* The commands that ask *)

(* To verify, the tool sets up sp1's logger first, over the one it already *)
(* has, which may panic.                                                   *)
Wake ==
  /\ phase = "start"
  /\ \/ command \in Asking /\ Goto("connecting")
     \/ command = "verify url" /\ Goto("downloading")
     \/ command = "verify file" /\ Goto("reading")
     \/ command = "verify nothing" /\ Goto("error")
     \/ command \in Verifying /\ Goto("panic")
  /\ UNCHANGED <<answer, printed, verdict>>

(* The connection comes before the id is decoded, so an id that is no hex  *)
(* is refused only once there is one.                                      *)
Connect ==
  /\ phase = "connecting"
  /\ Goto("asking") \/ Goto("error")
  /\ UNCHANGED <<answer, printed, verdict>>

(* What an answer to each command may give: the message of the details may *)
(* hold no request, and a request no fulfilled_at.                         *)
Given(c) ==
  CASE c = "details" -> {{}, Times, Field}
    [] c = "status"  -> {{"deadline"}}
    [] c = "program" -> {{}}

(* Any times: a request that failed after it was fulfilled, say, was       *)
(* updated later than it was fulfilled.                                    *)
Answered ==
  /\ phase = "asking"
  /\ \E given \in Given(command) : answer' \in [given -> Stamp]
  /\ Goto("printing")
  /\ UNCHANGED <<printed, verdict>>

(* The id is no hex, the request is unknown, the connection breaks, or     *)
(* fifteen seconds are over.                                               *)
AskFails ==
  /\ phase = "asking"
  /\ Goto("error")
  /\ UNCHANGED <<answer, printed, verdict>>

Unprinted == DOMAIN answer \ {l.name : l \in printed}

(* The lines come in the order they have in the code. *)
Above ==
  [deadline |-> {}, created_at |-> {"deadline"},
   updated_at |-> {"deadline", "created_at"}, fulfilled_at |-> Times]

Current == CHOOSE f \in Unprinted : Above[f] \cap Unprinted = {}

(* Mutant: the line of fulfilled_at shows updated_at.                      *)
ValueOfUpdate(f) == answer[IF f = "fulfilled_at" THEN "updated_at" ELSE f]

(* What is passed to format_timestamp for the line of f. *)
Value(f) == answer[f]

Printing == phase = "printing" /\ Unprinted # {}
Far(t) == t > MaxSystemTime

(* UNIX_EPOCH + Duration panics where the sum is no SystemTime. *)
Overflows ==
  /\ Printing /\ Far(Value(Current))
  /\ Goto("panic")
  /\ UNCHANGED <<answer, printed, verdict>>

(* println! panics if it cannot write. *)
PrintFails ==
  /\ phase = "printing" /\ ~reader
  /\ phase' = "panic" /\ earlier' = Nil
  /\ UNCHANGED <<command, answer, printed, verdict, reader, clock, setBack>>

Say(says, seconds) ==
  /\ reader
  /\ printed' = printed \cup {[name |-> Current, of |-> Value(Current),
                               says |-> says, seconds |-> seconds]}

(* Mutant: a time that is past is taken for one to come.                   *)
FormatFutureUnguarded ==
  /\ Printing /\ earlier = Nil /\ ~Far(Value(Current))
  /\ Say("in", Value(Current) - clock)
  /\ UNCHANGED <<command, phase, answer, earlier, verdict, reader, clock,
                 setBack>>

(* duration_since(now) is Ok for a time to come. *)
FormatFuture ==
  /\ Printing /\ earlier = Nil /\ ~Far(Value(Current))
  /\ Value(Current) >= clock
  /\ Say("in", Value(Current) - clock)
  /\ UNCHANGED <<command, phase, answer, earlier, verdict, reader, clock,
                 setBack>>

FormatPast ==
  /\ Printing /\ earlier = Nil
  /\ Value(Current) < clock
  /\ earlier' = clock
  /\ setBack' = FALSE
  /\ UNCHANGED <<command, phase, answer, printed, verdict, reader, clock>>

(* Mutant: the two times are subtracted the other way round.               *)
FormatAgoSwapped ==
  /\ earlier # Nil
  /\ \/ /\ Value(Current) >= clock
        /\ Say("ago", Value(Current) - clock) /\ phase' = phase
     \/ /\ Value(Current) < clock
        /\ phase' = "panic" /\ printed' = printed
  /\ earlier' = Nil
  /\ UNCHANGED <<command, answer, verdict, reader, clock, setBack>>

(* The clock is read a second time, and the difference unwrapped. *)
FormatAgo ==
  /\ earlier # Nil
  /\ \/ /\ Value(Current) <= clock
        /\ Say("ago", clock - Value(Current)) /\ phase' = phase
     \/ /\ Value(Current) > clock
        /\ phase' = "panic" /\ printed' = printed
  /\ earlier' = Nil
  /\ UNCHANGED <<command, answer, verdict, reader, clock, setBack>>

(* The last line is the closing brace. *)
Printed ==
  /\ phase = "printing" /\ Unprinted = {} /\ reader
  /\ Goto(IF command = "details" THEN "pausing" ELSE "ok")
  /\ UNCHANGED <<answer, printed, verdict>>

PauseOver ==
  /\ phase = "pausing"
  /\ Goto("ok")
  /\ UNCHANGED <<answer, printed, verdict>>

---------------------------------------------------------------------------
(* The command that verifies *)

(* Mutant: a download that fails is started again.                         *)
DownloadRetries ==
  /\ phase = "downloading"
  /\ Goto("checking") \/ Goto("start")
  /\ UNCHANGED <<answer, printed, verdict>>

(* reqwest::get has no timeout. *)
Download ==
  /\ phase = "downloading"
  /\ Goto("checking") \/ Goto("error")
  /\ UNCHANGED <<answer, printed, verdict>>

ReadFile ==
  /\ phase = "reading"
  /\ Goto("checking") \/ Goto("error")
  /\ UNCHANGED <<answer, printed, verdict>>

(* The key or the proof does not parse, the prover client takes exception  *)
(* to the environment and panics, or there is a verdict; a bad one is      *)
(* logged, and the tool exits as after a good one.                         *)
Check ==
  /\ phase = "checking"
  /\ \/ Goto("error") /\ UNCHANGED verdict
     \/ Goto("panic") /\ UNCHANGED verdict
     \/ Goto("ok") /\ verdict' \in {"good", "bad"}
  /\ UNCHANGED <<answer, printed>>

---------------------------------------------------------------------------
(* The clock and the reader *)

Tick ==
  /\ clock < MaxClock
  /\ clock' = clock + 1
  /\ UNCHANGED <<command, phase, answer, printed, earlier, verdict, reader,
                 setBack>>

(* The clock is corrected. *)
SetBack ==
  /\ clock' \in 0 .. clock - 1
  /\ setBack' = TRUE
  /\ UNCHANGED <<command, phase, answer, printed, earlier, verdict, reader>>

HangUp ==
  /\ reader /\ reader' = FALSE
  /\ UNCHANGED <<command, phase, answer, printed, earlier, verdict, clock,
                 setBack>>

Format == Overflows \/ FormatFuture \/ FormatPast \/ FormatAgo \/ PrintFails

(* What the process does by itself, or by its timeouts. *)
Run ==
  \/ Wake \/ Connect \/ Answered \/ AskFails \/ Format \/ Printed \/ PauseOver
  \/ ReadFile \/ Check

Next == Run \/ Download \/ Tick \/ SetBack \/ HangUp

(* Nothing is assumed of a download, of the clock or of the reader. *)
Spec == Init /\ [][Next]_vars /\ WF_vars(Run)

---------------------------------------------------------------------------
(* Properties *)

(* A command that asks panics only over a timestamp that is no SystemTime, *)
(* when its clock was set back while it formatted one, or when nobody      *)
(* reads what it prints.  That its clock and the service's differ, so that *)
(* a request was created in the future, is no reason, and neither is a     *)
(* timestamp that passes between the two reads.                            *)
PanicsExplained ==
  phase = "panic" /\ command \in Asking =>
    setBack \/ ~reader \/ (Unprinted # {} /\ Far(Value(Current)))

(* Exit code 0 means that there was an answer and each time in it, no more *)
(* and no less, was printed under its own name, whichever optional ones it *)
(* had; or that there was a verdict on the proof.                          *)
SuccessIsWhole ==
  phase = "ok" =>
    IF command \in Asking
    THEN /\ answer # Nil
         /\ {<<l.name, l.of>> : l \in printed}
              = {<<f, answer[f]>> : f \in DOMAIN answer}
    ELSE verdict # "none"

(* The tool ends, whatever the service, the clock and the reader do: every *)
(* connection and call has a timeout, and no command retries.  The one     *)
(* exception is a download that never returns; one that does is followed   *)
(* by an end.                                                              *)
CommandEnds == <>(phase \in Exit) \/ <>[](phase = "downloading")

(* utils.rs: "Format Unix timestamp to human-readable date", of any u64.   *)
FormatsEveryTimestamp ==
  phase = "panic" /\ command \in Asking => setBack \/ ~reader

============================================================================
