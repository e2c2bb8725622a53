-------------------------- MODULE GrpcClientProofs --------------------------
(***************************************************************************)
(* Theorems about GrpcClient, for any bounds on the two clocks and on a    *)
(* timestamp that fit together as u64 and SystemTime do.                   *)
(***************************************************************************)
EXTENDS GrpcClient, TLAPS

(* Each kind of command has awaits of its own. *)
CommandFits ==
  /\ phase \in {"connecting", "asking", "printing", "pausing"} =>
       command \in Asking
  /\ phase \in {"downloading", "reading", "checking"} => command \in Verifying

(* What has been printed is from the answer, each time under its name, and *)
(* nothing is printed before there is one.                                 *)
ShownIsGiven ==
  /\ phase \in {"start", "connecting", "asking"} => printed = {}
  /\ phase \in {"printing", "pausing"} =>
       /\ answer # Nil
       /\ \A l \in printed : l.name \in DOMAIN answer /\ l.of = answer[l.name]
  /\ phase = "pausing" => Unprinted = {}

(* Between its two reads of the clock the tool formats a timestamp that    *)
(* was past at the first, and the clock has not fallen behind that read    *)
(* unless it was set back.                                                 *)
BetweenReads ==
  earlier # Nil =>
    /\ Printing
    /\ Value(Current) < earlier
    /\ setBack \/ earlier <= clock

ToolInv ==
  /\ TypeOK
  /\ CommandFits
  /\ ShownIsGiven
  /\ BetweenReads
  /\ PanicsExplained
  /\ SuccessIsWhole

---------------------------------------------------------------------------
(* The operators *)

(* While there are times to print, Current is the name of one of them.     *)
LEMMA CurrentIsNext ==
  ASSUME Unprinted \subseteq Field, Unprinted # {}
  PROVE  Current \in Unprinted
<1>1. \E f \in Unprinted : Above[f] \cap Unprinted = {}
  <2>1. CASE "deadline" \in Unprinted
    BY <2>1 DEF Above
  <2>2. CASE "deadline" \notin Unprinted /\ "created_at" \in Unprinted
    BY <2>2 DEF Above
  <2>3. CASE /\ "deadline" \notin Unprinted /\ "created_at" \notin Unprinted
             /\ "updated_at" \in Unprinted
    BY <2>3 DEF Above
  <2>4. CASE Times \cap Unprinted = {} /\ "fulfilled_at" \in Unprinted
    BY <2>4 DEF Above
  <2> QED
    BY <2>1, <2>2, <2>3, <2>4 DEF Field, Times
<1> QED
  BY <1>1 DEF Current

(* The timestamp in hand is one of the answer, which maps names to u64s.   *)
LEMMA CurrentIsStamp ==
  ASSUME ToolInv, Printing
  PROVE  /\ Current \in DOMAIN answer /\ Current \in Field
         /\ Value(Current) \in Stamp
         /\ Value(Current) = answer[Current]
<1>1. PICK given \in SUBSET Field : answer \in [given -> Stamp]
  BY DEF ToolInv, TypeOK, ShownIsGiven, Printing
<1>2. Unprinted \subseteq DOMAIN answer /\ DOMAIN answer = given
  BY <1>1 DEF Unprinted
<1>3. Current \in Unprinted
  BY <1>1, <1>2, CurrentIsNext DEF Printing
<1> QED
  BY <1>1, <1>2, <1>3 DEF Value

---------------------------------------------------------------------------
(* The invariant *)

LEMMA ToolInit == Init => ToolInv
<1> SUFFICES ASSUME Init PROVE ToolInv
  OBVIOUS
<1> USE DEF Init
<1>1. TypeOK
  <2>1. setBack \in BOOLEAN
    OBVIOUS
  <2>2. printed \subseteq Line /\ earlier \in (0 .. MaxClock) \cup {Nil}
    OBVIOUS
  <2> QED
    BY <2>1, <2>2 DEF TypeOK, Phase
<1>2. CommandFits /\ ShownIsGiven /\ BetweenReads
  BY DEF CommandFits, ShownIsGiven, BetweenReads
<1>3. PanicsExplained /\ SuccessIsWhole
  BY DEF PanicsExplained, SuccessIsWhole
<1> QED
  BY <1>1, <1>2, <1>3 DEF ToolInv

(* Going on from a phase in which no timestamp is read a second time, to   *)
(* one that is no exit, with the same answer.                              *)
LEMMA GotoKeeps ==
  ASSUME ToolInv, phase # "printing",
         NEW p \in Phase \ Exit, Goto(p), UNCHANGED <<answer, printed, verdict>>
  PROVE  TypeOK' /\ BetweenReads' /\ PanicsExplained' /\ SuccessIsWhole'
<1> USE DEF ToolInv, Goto
<1>1. TypeOK'
  BY DEF TypeOK
<1>2. BetweenReads'
  BY DEF BetweenReads, Printing
<1>3. PanicsExplained' /\ SuccessIsWhole'
  BY DEF PanicsExplained, SuccessIsWhole, Exit
<1> QED
  BY <1>1, <1>2, <1>3

(* Giving up with an error, or in a panic of a command that verifies. *)
LEMMA EndKeeps ==
  ASSUME ToolInv, phase # "printing",
         Goto("error") \/ (Goto("panic") /\ command \in Verifying),
         UNCHANGED <<answer, printed, verdict>>
  PROVE  ToolInv'
<1> USE DEF ToolInv, Goto
<1>1. TypeOK'
  BY DEF TypeOK, Phase, Exit
<1>2. CommandFits' /\ ShownIsGiven' /\ BetweenReads'
  BY DEF CommandFits, ShownIsGiven, BetweenReads, Printing
<1>3. PanicsExplained' /\ SuccessIsWhole'
  BY DEF PanicsExplained, SuccessIsWhole, Asking, Verifying
<1> QED
  BY <1>1, <1>2, <1>3

(* The actions before the first timestamp is printed. *)
LEMMA AsksKeep ==
  ASSUME ToolInv, Wake \/ Connect \/ Answered \/ AskFails
  PROVE  ToolInv'
<1>1. CASE Wake
  <2> USE DEF Wake
  <2>1. CASE Goto("error") \/ (Goto("panic") /\ command \in Verifying)
    BY <1>1, <2>1, EndKeeps
  <2>2. ASSUME NEW p \in {"connecting", "downloading", "reading"}, Goto(p),
               p = "connecting" => command \in Asking,
               p # "connecting" => command \in Verifying
        PROVE  ToolInv'
    <3>1. p \in Phase \ Exit
      BY DEF Phase, Exit
    <3>2. TypeOK' /\ BetweenReads' /\ PanicsExplained' /\ SuccessIsWhole'
      BY <1>1, <2>2, <3>1, GotoKeeps
    <3>3. CommandFits' /\ ShownIsGiven'
      BY <1>1, <2>2 DEF ToolInv, CommandFits, ShownIsGiven, Goto
    <3> QED
      BY <3>2, <3>3 DEF ToolInv
  <2> QED
    BY <1>1, <2>1, <2>2 DEF Verifying
<1>2. CASE Connect
  <2> USE DEF Connect
  <2>1. CASE Goto("error")
    BY <1>2, <2>1, EndKeeps
  <2>2. CASE Goto("asking")
    <3>1. "asking" \in Phase \ Exit
      BY DEF Phase, Exit
    <3>2. TypeOK' /\ BetweenReads' /\ PanicsExplained' /\ SuccessIsWhole'
      BY <1>2, <2>2, <3>1, GotoKeeps
    <3>3. CommandFits' /\ ShownIsGiven'
      BY <1>2, <2>2 DEF ToolInv, CommandFits, ShownIsGiven, Goto
    <3> QED
      BY <3>2, <3>3 DEF ToolInv
  <2> QED
    BY <1>2, <2>1, <2>2
<1>3. CASE Answered
  <2>1. PICK given \in Given(command) : answer' \in [given -> Stamp]
    BY <1>3 DEF Answered
  <2>2. given \in SUBSET Field
    <3>1. command \in Asking
      BY <1>3 DEF Answered, ToolInv, CommandFits
    <3> QED
      BY <2>1, <3>1 DEF Given, Asking, Field, Times
  <2>3. answer' # Nil
    BY <2>1, <2>2, ToolConstants
  <2>4. /\ phase = "asking" /\ phase' = "printing"
        /\ UNCHANGED <<command, printed, earlier, verdict, reader, clock,
                       setBack>>
    BY <1>3 DEF Answered, Goto
  <2>5. TypeOK'
    BY <2>1, <2>2, <2>4 DEF ToolInv, TypeOK, Phase
  <2>6. CommandFits' /\ ShownIsGiven'
    BY <2>3, <2>4 DEF ToolInv, CommandFits, ShownIsGiven
  <2>7. BetweenReads'
    BY <2>4 DEF ToolInv, BetweenReads, Printing
  <2>8. PanicsExplained' /\ SuccessIsWhole'
    BY <2>4 DEF PanicsExplained, SuccessIsWhole
  <2> QED
    BY <2>5, <2>6, <2>7, <2>8 DEF ToolInv
<1>4. CASE AskFails
  BY <1>4, EndKeeps DEF AskFails
<1> QED
  BY <1>1, <1>2, <1>3, <1>4

(* A line more is from the answer too. *)
LEMMA SayKeeps ==
  ASSUME ToolInv, Printing,
         NEW says \in {"in", "ago"}, NEW seconds \in Stamp, Say(says, seconds),
         earlier' = Nil,
         UNCHANGED <<command, phase, answer, verdict, reader, clock, setBack>>
  PROVE  ToolInv'
<1>1. /\ Current \in DOMAIN answer /\ Current \in Field
      /\ Value(Current) \in Stamp /\ Value(Current) = answer[Current]
  BY CurrentIsStamp
<1> DEFINE line == [name |-> Current, of |-> Value(Current),
                    says |-> says, seconds |-> seconds]
<1>2. line \in Line /\ line.name = Current /\ line.of = Value(Current)
  BY <1>1 DEF Line
<1>3. printed' = printed \cup {line}
  BY DEF Say
<1> HIDE DEF line
<1>4. TypeOK'
  BY <1>2, <1>3 DEF ToolInv, TypeOK
<1>5. CommandFits' /\ BetweenReads'
  BY DEF ToolInv, CommandFits, BetweenReads
<1>6. ShownIsGiven'
  <2>1. \A l \in printed' : l.name \in DOMAIN answer /\ l.of = answer[l.name]
    BY <1>1, <1>2, <1>3 DEF ToolInv, ShownIsGiven, Printing
  <2> QED
    BY <2>1 DEF ToolInv, ShownIsGiven, Printing
<1>7. PanicsExplained' /\ SuccessIsWhole'
  BY DEF PanicsExplained, SuccessIsWhole, Printing
<1> QED
  BY <1>4, <1>5, <1>6, <1>7 DEF ToolInv

(* A panic while the answer is printed, with its reason. *)
LEMMA PanicKeeps ==
  ASSUME ToolInv, phase = "printing", phase' = "panic", earlier' = Nil,
         \/ setBack \/ ~reader \/ (Unprinted # {} /\ Far(Value(Current))),
         UNCHANGED <<command, answer, printed, verdict, reader, clock, setBack>>
  PROVE  ToolInv'
<1>1. TypeOK'
  BY DEF ToolInv, TypeOK, Phase, Exit
<1>2. CommandFits' /\ ShownIsGiven' /\ BetweenReads'
  BY DEF CommandFits, ShownIsGiven, BetweenReads
<1>3. PanicsExplained'
  <2>1. Unprinted' = Unprinted
    BY DEF Unprinted
  <2>2. Value(Current)' = Value(Current)
    BY <2>1 DEF Value, Current
  <2> QED
    BY <2>1, <2>2 DEF PanicsExplained, Far
<1>4. SuccessIsWhole'
  BY DEF SuccessIsWhole
<1> QED
  BY <1>1, <1>2, <1>3, <1>4 DEF ToolInv

(* Each timestamp is formatted read by read, and its line printed. *)
LEMMA FormatKeeps ==
  ASSUME ToolInv, Format
  PROVE  ToolInv'
<1> USE ToolConstants
<1>1. CASE Overflows
  <2> USE <1>1 DEF Overflows, Goto
  <2>1. earlier = Nil
    <3> SUFFICES ASSUME earlier # Nil PROVE FALSE
      OBVIOUS
    <3>1. Value(Current) < earlier /\ earlier \in 0 .. MaxClock
      BY DEF ToolInv, TypeOK, BetweenReads
    <3>2. Value(Current) \in Stamp
      BY CurrentIsStamp
    <3> QED
      BY <3>1, <3>2 DEF Far, Stamp
  <2> QED
    BY <2>1, PanicKeeps DEF Printing
<1>2. CASE FormatFuture
  <2> USE <1>2 DEF FormatFuture
  <2>1. Value(Current) - clock \in Stamp
    BY CurrentIsStamp DEF ToolInv, TypeOK, Stamp
  <2> QED
    BY <2>1, SayKeeps
<1>3. CASE FormatPast
  <2> USE <1>3 DEF FormatPast
  <2>1. TypeOK'
    <3>1. setBack' \in BOOLEAN
      OBVIOUS
    <3> QED
      BY <3>1 DEF ToolInv, TypeOK
  <2>2. Unprinted' = Unprinted
    BY DEF Unprinted
  <2>3. Value(Current)' = Value(Current) /\ Printing'
    BY <2>2 DEF Value, Current, Printing
  <2>4. CommandFits' /\ ShownIsGiven'
    BY <2>2 DEF ToolInv, CommandFits, ShownIsGiven
  <2>5. BetweenReads'
    BY <2>3 DEF ToolInv, TypeOK, BetweenReads
  <2>6. PanicsExplained' /\ SuccessIsWhole'
    BY DEF PanicsExplained, SuccessIsWhole, Printing
  <2> QED
    BY <2>1, <2>4, <2>5, <2>6 DEF ToolInv
<1>4. CASE FormatAgo
  <2> USE <1>4 DEF FormatAgo
  <2>1. /\ Printing
        /\ Value(Current) < earlier
        /\ setBack \/ earlier <= clock
        /\ earlier \in 0 .. MaxClock /\ clock \in 0 .. MaxClock
    BY DEF ToolInv, TypeOK, BetweenReads
  <2>2. Value(Current) \in Stamp
    BY <2>1, CurrentIsStamp
  <2>3. CASE Value(Current) <= clock
    <3>1. clock - Value(Current) \in Stamp
      BY <2>1, <2>2, <2>3 DEF Stamp
    <3>2. Say("ago", clock - Value(Current)) /\ phase' = phase
      BY <2>1, <2>2, <2>3 DEF Stamp
    <3> QED
      BY <2>1, <3>1, <3>2, SayKeeps
  <2>4. CASE Value(Current) > clock
    <3>1. setBack
      BY <2>1, <2>2, <2>4 DEF Stamp
    <3>2. phase' = "panic" /\ printed' = printed
      BY <2>1, <2>2, <2>4 DEF Stamp
    <3> QED
      BY <2>1, <3>1, <3>2, PanicKeeps DEF Printing
  <2> QED
    BY <2>3, <2>4
<1>5. CASE PrintFails
  BY <1>5, PanicKeeps DEF PrintFails
<1> QED
  BY <1>1, <1>2, <1>3, <1>4, <1>5 DEF Format

(* The end of an answer. *)
LEMMA EndsKeep ==
  ASSUME ToolInv, Printed \/ PauseOver
  PROVE  ToolInv'
<1>1. phase \in {"printing", "pausing"} /\ Unprinted = {} /\ command \in Asking
  BY DEF Printed, PauseOver, ToolInv, CommandFits, ShownIsGiven
<1>2. earlier = Nil
  BY <1>1 DEF ToolInv, BetweenReads, Printing
<1>3. {<<l.name, l.of>> : l \in printed} = {<<f, answer[f]>> : f \in DOMAIN answer}
  <2>1. \A l \in printed : l.name \in DOMAIN answer /\ l.of = answer[l.name]
    BY <1>1 DEF ToolInv, ShownIsGiven
  <2>2. \A f \in DOMAIN answer : \E l \in printed : l.name = f
    BY <1>1 DEF Unprinted
  <2> QED
    BY <2>1, <2>2
<1>4. /\ phase' \in {"pausing", "ok"}
      /\ UNCHANGED <<command, answer, printed, earlier, verdict, reader, clock,
                     setBack>>
  BY DEF Printed, PauseOver, Goto
<1>5. TypeOK'
  BY <1>4 DEF ToolInv, TypeOK, Phase, Exit
<1>6. CommandFits' /\ ShownIsGiven'
  BY <1>1, <1>4 DEF ToolInv, CommandFits, ShownIsGiven, Unprinted
<1>7. BetweenReads'
  BY <1>2, <1>4 DEF BetweenReads
<1>8. PanicsExplained' /\ SuccessIsWhole'
  BY <1>1, <1>3, <1>4
  DEF ToolInv, ShownIsGiven, PanicsExplained, SuccessIsWhole
<1> QED
  BY <1>5, <1>6, <1>7, <1>8 DEF ToolInv

(* The command that verifies. *)
LEMMA VerifyKeeps ==
  ASSUME ToolInv, Download \/ ReadFile \/ Check
  PROVE  ToolInv'
<1>1. phase \in {"downloading", "reading", "checking"} /\ command \in Verifying
  BY DEF Download, ReadFile, Check, ToolInv, CommandFits
<1>2. CASE /\ Goto("error") \/ Goto("panic")
           /\ UNCHANGED <<answer, printed, verdict>>
  BY <1>1, <1>2, EndKeeps
<1>3. CASE Goto("checking") /\ UNCHANGED <<answer, printed, verdict>>
  <2>1. "checking" \in Phase \ Exit
    BY DEF Phase, Exit
  <2>2. TypeOK' /\ BetweenReads' /\ PanicsExplained' /\ SuccessIsWhole'
    BY <1>1, <1>3, <2>1, GotoKeeps
  <2>3. CommandFits' /\ ShownIsGiven'
    BY <1>1, <1>3 DEF CommandFits, ShownIsGiven, Goto
  <2> QED
    BY <2>2, <2>3 DEF ToolInv
<1>4. CASE /\ Goto("ok") /\ verdict' \in {"good", "bad"}
           /\ UNCHANGED <<answer, printed>>
  <2> USE <1>4 DEF Goto
  <2>1. TypeOK'
    BY DEF ToolInv, TypeOK, Phase, Exit
  <2>2. CommandFits' /\ ShownIsGiven' /\ BetweenReads'
    BY <1>1 DEF ToolInv, CommandFits, ShownIsGiven, BetweenReads, Printing
  <2>3. PanicsExplained' /\ SuccessIsWhole'
    BY <1>1 DEF PanicsExplained, SuccessIsWhole, Asking, Verifying
  <2> QED
    BY <2>1, <2>2, <2>3 DEF ToolInv
<1> QED
  BY <1>2, <1>3, <1>4 DEF Download, ReadFile, Check

(* The clock, the reader, and a step that changes nothing. *)
LEMMA AroundKeeps ==
  ASSUME ToolInv, Tick \/ SetBack \/ HangUp \/ UNCHANGED vars
  PROVE  ToolInv'
<1> USE ToolConstants
<1>1. UNCHANGED <<command, phase, answer, printed, earlier, verdict>>
  BY DEF Tick, SetBack, HangUp, vars
<1>2. /\ clock' \in 0 .. MaxClock /\ setBack' \in BOOLEAN
      /\ setBack => setBack'
      /\ clock <= clock' \/ setBack'
  <2>0. clock \in 0 .. MaxClock /\ setBack \in BOOLEAN
    BY DEF ToolInv, TypeOK
  <2>1. CASE Tick
    BY <2>0, <2>1 DEF Tick
  <2>2. CASE SetBack
    <3>1. setBack' = TRUE
      BY <2>2 DEF SetBack
    <3>2. clock' \in 0 .. MaxClock
      BY <2>0, <2>2 DEF SetBack
    <3> QED
      BY <3>1, <3>2
  <2>3. CASE HangUp \/ UNCHANGED vars
    <3>1. clock' = clock /\ setBack' = setBack
      BY <2>3 DEF HangUp, vars
    <3> QED
      BY <2>0, <3>1
  <2> QED
    BY <2>1, <2>2, <2>3
<1>3. reader' \in BOOLEAN /\ (~reader => ~reader')
  <2>1. reader \in BOOLEAN
    BY DEF ToolInv, TypeOK
  <2>2. CASE HangUp
    BY <2>2 DEF HangUp
  <2>3. CASE Tick \/ SetBack \/ UNCHANGED vars
    <3>1. reader' = reader
      BY <2>3 DEF Tick, SetBack, vars
    <3> QED
      BY <2>1, <3>1
  <2> QED
    BY <2>2, <2>3
<1>4. TypeOK'
  BY <1>1, <1>2, <1>3 DEF ToolInv, TypeOK
<1>5. Unprinted' = Unprinted
  BY <1>1 DEF Unprinted
<1>6. Value(Current)' = Value(Current) /\ (Printing' <=> Printing)
  BY <1>1, <1>5 DEF Value, Current, Printing
<1>7. CommandFits' /\ ShownIsGiven'
  BY <1>1, <1>5 DEF ToolInv, CommandFits, ShownIsGiven
<1>8. BetweenReads'
  <2> SUFFICES ASSUME earlier # Nil PROVE BetweenReads'
    BY <1>1 DEF BetweenReads
  <2>1. /\ earlier \in 0 .. MaxClock /\ clock \in 0 .. MaxClock
        /\ setBack \/ earlier <= clock
    BY DEF ToolInv, TypeOK, BetweenReads
  <2>2. setBack' \/ earlier <= clock'
    BY <1>2, <2>1
  <2> QED
    BY <1>1, <1>6, <2>2 DEF ToolInv, BetweenReads
<1>9. PanicsExplained'
  <2>1. Far(Value(Current))' <=> Far(Value(Current))
    BY <1>6 DEF Far
  <2>2. phase = "panic" /\ command \in Asking =>
          setBack \/ ~reader \/ (Unprinted # {} /\ Far(Value(Current)))
    BY DEF ToolInv, PanicsExplained
  <2> QED
    BY <1>1, <1>2, <1>3, <1>5, <2>1, <2>2 DEF PanicsExplained
<1>10. SuccessIsWhole'
  BY <1>1 DEF ToolInv, SuccessIsWhole
<1> QED
  BY <1>4, <1>7, <1>8, <1>9, <1>10 DEF ToolInv

THEOREM ToolInvariant == Spec => []ToolInv
<1>1. ToolInv /\ [Next]_vars => ToolInv'
  BY AsksKeep, FormatKeeps, EndsKeep, VerifyKeeps, AroundKeeps DEF Next, Run
<1> QED
  BY <1>1, ToolInit, PTL DEF Spec

---------------------------------------------------------------------------
(* The theorems *)

(* The variables stay in their types. *)
THEOREM ToolTypes == Spec => []TypeOK
<1>1. ToolInv => TypeOK
  BY DEF ToolInv
<1> QED
  BY <1>1, ToolInvariant, PTL

(* Whatever the clocks of the service and of the tool show, and whichever  *)
(* u64 the service sends, a command that asks panics only over a timestamp *)
(* no SystemTime can hold, when its own clock was set back between the two *)
(* reads of format_timestamp, or when nobody reads what it prints.         *)
THEOREM PanicsAreExplained == Spec => []PanicsExplained
<1>1. ToolInv => PanicsExplained
  BY DEF ToolInv
<1> QED
  BY <1>1, ToolInvariant, PTL

(* Exit code 0 of a command means that there was an answer and exactly the *)
(* times in it were printed, each under its own name, or that the proof    *)
(* was given a verdict.                                                    *)
THEOREM SuccessIsAlwaysWhole == Spec => []SuccessIsWhole
<1>1. ToolInv => SuccessIsWhole
  BY DEF ToolInv
<1> QED
  BY <1>1, ToolInvariant, PTL

=============================================================================
