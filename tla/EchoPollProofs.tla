--------------------------- MODULE EchoPollProofs ---------------------------
(***************************************************************************)
(* Theorems about the echo timing of the earlier car, for a second and an  *)
(* echo of any length, and whatever fails.                                 *)
(***************************************************************************)
EXTENDS EchoPoll, TLAPS

Start == {"open", "firstRead"}
Timing == {"readStart", "stampStart", "pollEnd", "readEnd", "stampEnd", "subtract"}
Places == Start \cup {"trigger", "pollStart"} \cup Timing

TypeOK ==
  /\ pc \in Places
  /\ opened \in BOOLEAN /\ event \in BOOLEAN
  /\ start \in 0 .. Second - 1 /\ end \in 0 .. Second - 1
  /\ fCostTime \in Int
  /\ nsec \in 0 .. Second - 1
  /\ sensor \in {"idle", "armed", "high"}
  /\ width \in 0 .. MaxEcho
  /\ revents \in BOOLEAN
  /\ lost \in BOOLEAN /\ silent \in BOOLEAN /\ failed \in BOOLEAN
  /\ late \in BOOLEAN /\ turned \in BOOLEAN

----------------------------------------------------------------------------
(***************************************************************************)
(* How far an echo is, seen from the file: no edge came yet; the rise can  *)
(* be read; the rise was read; the fall can be read; both were read.  Or   *)
(* it went wrong: both edges are one event, which is then read as the rise;*)
(* the sensor did not answer.                                              *)
(***************************************************************************)
Whole   == ~lost /\ ~silent
Awaited == sensor = "armed" /\ ~event /\ Whole
Rising  == sensor = "high" /\ event /\ Whole
High    == sensor = "high" /\ ~event /\ Whole
Falling == sensor = "idle" /\ event /\ Whole
Over    == sensor = "idle" /\ ~event /\ Whole
Merged  == sensor = "idle" /\ lost
Unanswered == sensor = "idle" /\ ~event /\ silent

\* Where the thread is tells how far the echo can be.
InStep ==
  /\ pc = "open" => ~opened
  /\ pc \in Start => sensor = "idle" /\ Whole
  /\ pc = "trigger" => sensor = "idle" /\ Whole /\ (event => ~opened)
  /\ pc \in Timing => opened
  /\ pc = "pollStart" /\ opened => Awaited \/ Rising \/ Merged \/ Unanswered
  /\ pc = "readStart" => Rising \/ Merged
  /\ pc \in {"stampStart", "pollEnd"} => High \/ Falling \/ (Merged /\ ~event)
  /\ pc = "readEnd" => Falling
  /\ pc \in {"stampEnd", "subtract"} => Over

(***************************************************************************)
(* What the stamps are worth while no stamp was late.  An edge that was    *)
(* not stamped yet came in this tick, so the echo cannot have fallen       *)
(* before its rise is stamped; after that the clock has moved on by the    *)
(* width of the echo, less the second that may have ended.                 *)
(***************************************************************************)
Turned == IF turned THEN Second ELSE 0

Accurate ==
  /\ pc \in Start => fCostTime = 0 /\ width = 0 /\ ~turned
  /\ (~late /\ opened /\ StartPending) =>
       ~turned /\ ~lost /\ (sensor = "high" => width = 0) /\ (sensor = "idle" => ~event)
  /\ (~late /\ EndPending) => nsec = start + width - Turned
  /\ (~late /\ pc = "subtract") => end = start + width - Turned
  /\ (~late /\ pc = "trigger") => fCostTime = width - Turned

\* After a failed poll the readings are anything.
Inv == TypeOK /\ (~failed => InStep /\ Accurate)

----------------------------------------------------------------------------
\* The clock counts on, and from the last tick of a second to 0.
LEMMA Clock ==
  ASSUME NEW n \in 0 .. Second - 1
  PROVE  (n + 1) % Second = IF n + 1 = Second THEN 0 ELSE n + 1
<1>1. Second \in Nat /\ Second > 0
  BY EchoAssumption
<1> QED BY <1>1

LEMMA InitInv == Init => Inv
<1> SUFFICES ASSUME Init PROVE Inv
  OBVIOUS
<1> USE EchoAssumption DEF Init, Start
<1>1. TypeOK
  <2>1. start \in 0 .. Second - 1 /\ end \in 0 .. Second - 1 /\ width \in 0 .. MaxEcho
    BY DEF Init
  <2>2. fCostTime \in Int
    BY DEF Init
  <2> QED BY <2>1, <2>2 DEF TypeOK, Places
<1>2. InStep
  BY DEF InStep, Whole, Timing
<1>3. Accurate
  BY DEF Accurate, StartPending, EndPending
<1> QED BY <1>1, <1>2, <1>3 DEF Inv

LEMMA TypeStep == ASSUME TypeOK, [Next]_vars PROVE TypeOK'
<1> USE EchoAssumption DEF TypeOK, Places, Start, Timing, Goto, stamps, echo, history
<1>1. ASSUME Open \/ FirstRead \/ Trigger PROVE TypeOK'
  <2>1. CASE Open
    BY <2>1 DEF Open
  <2>2. CASE FirstRead
    BY <2>2 DEF FirstRead, AfterFirstRead
  <2>3. CASE Trigger
    BY <2>3 DEF Trigger
  <2> QED BY <1>1, <2>1, <2>2, <2>3
<1>2. ASSUME Poll \/ ReadValue PROVE TypeOK'
  <2>1. CASE Poll
    <3>1. pc' \in {"readStart", "readEnd"} /\ revents' = TRUE
      BY <2>1 DEF Poll
    <3>2. UNCHANGED <<opened, event, stamps, nsec, echo, history>>
      BY <2>1 DEF Poll
    <3> QED BY <3>1, <3>2
  <2>2. CASE ReadValue
    <3>1. pc' \in {"stampStart", "stampEnd"} /\ event' \in BOOLEAN
      BY <2>2 DEF ReadValue
    <3> QED BY <2>2, <3>1 DEF ReadValue
  <2> QED BY <1>2, <2>1, <2>2
<1>7. ASSUME PollFails PROVE TypeOK'
  <2>1. revents' \in BOOLEAN /\ failed' = TRUE
    BY <1>7 DEF PollFails
  <2>2. pc' \in {"readStart", "pollEnd", "readEnd", "subtract"}
    BY <1>7 DEF PollFails
  <2>3. UNCHANGED <<opened, event, stamps, nsec, echo, lost, silent, late, turned>>
    BY <1>7 DEF PollFails
  <2> QED BY <2>1, <2>2, <2>3
<1>3. ASSUME StampStart \/ StampEnd \/ Subtract PROVE TypeOK'
  BY <1>3 DEF StampStart, StampEnd, Subtract, Cost
<1>4. ASSUME Rise \/ Fall \/ Mute PROVE TypeOK'
  <2>1. lost' \in BOOLEAN /\ event' \in BOOLEAN
    BY <1>4 DEF Rise, Fall, Mute, Edge
  <2>2. silent' \in BOOLEAN
    BY <1>4 DEF Rise, Fall, Mute
  <2>4. width' \in 0 .. MaxEcho /\ sensor' \in {"idle", "armed", "high"}
    BY <1>4 DEF Rise, Fall, Mute
  <2>3. UNCHANGED <<pc, opened, revents, start, end, fCostTime, nsec, failed, late, turned>>
    BY <1>4 DEF Rise, Fall, Mute
  <2> QED BY <2>1, <2>2, <2>3, <2>4
<1>5. ASSUME Tick PROVE TypeOK'
  <2>1. nsec' \in 0 .. Second - 1
    BY <1>5, Clock DEF Tick
  <2>2. width' \in 0 .. MaxEcho
    BY <1>5 DEF Tick
  <2>3. late' \in BOOLEAN /\ turned' \in BOOLEAN
    BY <1>5 DEF Tick
  <2> QED BY <1>5, <2>1, <2>2, <2>3 DEF Tick
<1>6. ASSUME UNCHANGED vars PROVE TypeOK'
  BY <1>6 DEF vars
<1> QED BY <1>1, <1>2, <1>3, <1>4, <1>5, <1>6, <1>7 DEF Next, Thread, World

LEMMA InStepStep ==
  ASSUME TypeOK, InStep, [Next]_vars, ~failed' PROVE InStep'
<1> USE DEF TypeOK, InStep, Start, Timing, Whole, Awaited, Rising, High, Falling, Over,
        Merged, Unanswered, Goto, stamps, echo, history
<1>1. ASSUME Open PROVE InStep'
  BY <1>1 DEF Open
<1>11. ASSUME FirstRead PROVE InStep'
  BY <1>11 DEF FirstRead, AfterFirstRead
<1>2. ASSUME Trigger PROVE InStep'
  BY <1>2 DEF Trigger
<1>3. ASSUME Poll PROVE InStep'
  BY <1>3 DEF Poll, PollEnds
<1>4. ASSUME ReadValue PROVE InStep'
  BY <1>4 DEF ReadValue
<1>5. ASSUME StampStart \/ StampEnd \/ Subtract PROVE InStep'
  BY <1>5 DEF StampStart, StampEnd, Subtract
<1>6. ASSUME Rise PROVE InStep'
  BY <1>6 DEF Rise, Edge
<1>7. ASSUME Fall PROVE InStep'
  BY <1>7 DEF Fall, Edge
<1>8. ASSUME Mute PROVE InStep'
  BY <1>8 DEF Mute
<1>9. ASSUME Tick PROVE InStep'
  BY <1>9 DEF Tick
<1>10. ASSUME UNCHANGED vars PROVE InStep'
  BY <1>10 DEF vars
<1> QED BY <1>1, <1>2, <1>3, <1>4, <1>5, <1>6, <1>7, <1>8, <1>9, <1>10, <1>11
        DEF Next, Thread, World, PollFails

LEMMA AccurateStep ==
  ASSUME TypeOK, InStep, Accurate, [Next]_vars, ~failed' PROVE Accurate'
<1> USE EchoAssumption DEF Accurate, Turned, StartPending, EndPending, Goto, stamps, echo, history,
        TypeOK
<1>1. ASSUME Open \/ FirstRead PROVE Accurate'
  <2>1. /\ fCostTime = 0 /\ width = 0 /\ ~turned /\ pc' \in {"firstRead", "trigger"}
        /\ UNCHANGED <<fCostTime, width, turned>>
    BY <1>1 DEF Open, FirstRead, Start
  <2>2. fCostTime' = 0 /\ width' = 0 /\ turned' = FALSE
    BY <2>1
  <2>3. ~StartPending' /\ ~EndPending' /\ pc' # "subtract"
    BY <2>1
  <2>4. Turned' = 0
    BY <2>2
  <2> HIDE DEF StartPending, EndPending, Start, Turned
  <2>5. (~late /\ pc = "trigger" => fCostTime = width - Turned)'
    BY <2>2, <2>4
  <2> QED BY <2>2, <2>3, <2>5
<1>2. ASSUME Trigger PROVE Accurate'
  BY <1>2 DEF Trigger, InStep, Whole, Start
<1>3. ASSUME Poll PROVE Accurate'
  BY <1>3 DEF Poll, PollEnds, Start
<1>4. ASSUME ReadValue PROVE Accurate'
  BY <1>4 DEF ReadValue, Start
<1>5. ASSUME StampStart PROVE Accurate'
  BY <1>5 DEF StampStart, InStep, High, Falling, Merged, Timing, Start
<1>6. ASSUME StampEnd PROVE Accurate'
  BY <1>6 DEF StampEnd, Start
<1>7. ASSUME Subtract PROVE Accurate'
  BY <1>7 DEF Subtract, Cost, Start
<1>8. ASSUME Rise PROVE Accurate'
  <2>1. /\ pc = "pollStart" /\ UNCHANGED pc
        /\ opened => ~event
    BY <1>8 DEF Rise, InStep, Start, Awaited, Rising, High, Falling, Over, Merged, Timing,
                Unanswered, Places
  <2>2. /\ width' = 0 /\ sensor' = "high"
        /\ lost' = (lost \/ event)
        /\ UNCHANGED <<opened, late, turned>>
    BY <1>8 DEF Rise, Edge
  <2> QED BY <2>1, <2>2 DEF Start
<1>9. ASSUME Fall PROVE Accurate'
  BY <1>9 DEF Fall, Edge, InStep, Start, Awaited, Rising, High, Falling, Over, Merged, Timing
<1>10. ASSUME Mute PROVE Accurate'
  <2>1. /\ pc = "pollStart" /\ UNCHANGED pc
        /\ opened => ~event
    BY <1>10 DEF Mute, InStep, Start, Awaited, Rising, High, Falling, Over, Merged, Timing,
                 Unanswered, Places
  <2>2. sensor' = "idle" /\ UNCHANGED <<opened, event, lost, late, turned>>
    BY <1>10 DEF Mute
  <2> QED BY <2>1, <2>2 DEF Start
<1>11. ASSUME Tick PROVE Accurate'
  <2>1. nsec' = IF nsec + 1 = Second THEN 0 ELSE nsec + 1
    BY <1>11, Clock DEF Tick
  <2>2. UNCHANGED <<pc, opened, event, stamps, sensor, lost>>
    BY <1>11 DEF Tick
  <2>3. late' = FALSE =>
          /\ late = FALSE
          /\ StartPending => sensor # "high" /\ ~event
          /\ EndPending => sensor = "high"
    BY <1>11 DEF Tick
  <2>4. /\ width' = IF sensor = "high" THEN width + 1 ELSE width
        /\ sensor = "high" => width < MaxEcho
    BY <1>11 DEF Tick
  <2>5. turned' = (turned \/ (EndPending /\ nsec' = 0))
    BY <1>11 DEF Tick
  <2>6. (pc \in Start => fCostTime = 0 /\ width = 0 /\ ~turned)'
    BY <2>2, <2>4, <2>5 DEF Start, InStep
  <2>7. (~late /\ opened /\ StartPending =>
           ~turned /\ ~lost /\ (sensor = "high" => width = 0) /\ (sensor = "idle" => ~event))'
    BY <2>2, <2>3, <2>4, <2>5
  <2>8. (~late /\ EndPending => nsec = start + width - Turned)'
    <3> SUFFICES ASSUME ~late', EndPending'
                 PROVE  nsec' = start + width + 1 - Turned'
      BY <2>2, <2>3, <2>4
    <3>1. /\ EndPending /\ ~late /\ sensor = "high"
          /\ nsec = start + width - Turned
      BY <2>2, <2>3
    <3>2. turned => nsec + 1 < Second
      BY <3>1, <2>4
    <3>3. nsec' = 0 <=> nsec + 1 = Second
      BY <2>1
    <3>4. turned' <=> turned \/ nsec + 1 = Second
      BY <3>1, <3>3, <2>5
    <3>5. CASE turned
      BY <3>1, <3>2, <3>4, <3>5, <2>1
    <3>6. CASE ~turned
      BY <3>1, <3>4, <3>6, <2>1
    <3> QED BY <3>5, <3>6
  <2>9. (~late /\ pc = "subtract" => end = start + width - Turned)'
    BY <2>2, <2>3, <2>4, <2>5 DEF InStep, Over
  <2>10. (~late /\ pc = "trigger" => fCostTime = width - Turned)'
    BY <2>2, <2>3, <2>4, <2>5 DEF InStep
  <2> QED BY <2>6, <2>7, <2>8, <2>9, <2>10 DEF Accurate
<1>12. ASSUME UNCHANGED vars PROVE Accurate'
  BY <1>12 DEF vars, Start
<1> QED BY <1>1, <1>2, <1>3, <1>4, <1>5, <1>6, <1>7, <1>8, <1>9, <1>10, <1>11, <1>12
        DEF Next, Thread, World, PollFails

LEMMA StepInv == Inv /\ [Next]_vars => Inv'
<1> SUFFICES ASSUME Inv, [Next]_vars PROVE Inv'
  OBVIOUS
<1>1. TypeOK'
  BY TypeStep DEF Inv
<1>2. ~failed' => ~failed
  <2>1. failed' \in {failed, TRUE}
    BY DEF Next, Thread, World, Open, FirstRead, Trigger, Poll, PollFails, ReadValue,
           StampStart, StampEnd, Subtract, Rise, Fall, Mute, Tick, vars, history
  <2> QED BY <2>1
<1> QED BY <1>1, <1>2, InStepStep, AccurateStep DEF Inv

LEMMA AlwaysInv == Spec => []Inv
BY InitInv, StepInv, PTL DEF Spec

----------------------------------------------------------------------------
(***************************************************************************)
(* Until a poll fails, a reading whose stamps were in time is the width of *)
(* the echo that its trigger asked for, less a second if one ended between *)
(* the stamps: the negative distances of README.md have no other cause.    *)
(***************************************************************************)
THEOREM PromptReadingsAreEchoes == Spec => []PromptReadingIsEcho
<1>1. Inv => PromptReadingIsEcho
  BY EchoAssumption DEF Inv, TypeOK, Accurate, Turned, PromptReadingIsEcho
<1> QED BY <1>1, AlwaysInv, PTL

(***************************************************************************)
(* Until a poll fails, the thread triggers only when the last echo is over *)
(* and its edges are read: none is left to be taken for the next rise.     *)
(***************************************************************************)
THEOREM EchoesEndBeforeTriggers == Spec => []TriggersAfterEcho
<1>1. Inv => TriggersAfterEcho
  BY DEF Inv, InStep, TriggersAfterEcho
<1> QED BY <1>1, AlwaysInv, PTL

(***************************************************************************)
(* Two edges that became one event, an unanswered trigger and a pin that   *)
(* did not open are each the end of the readings, unless a poll fails.     *)
(***************************************************************************)
THEOREM LossesAreFinal == Spec => NoReadingAfterLoss
<1>1. Inv /\ [Next]_vars => [Broken /\ ~failed => ~(pc = "subtract" /\ pc' = "trigger")]_vars
  BY DEF Inv, InStep, Over, Whole, Timing, Broken
<1> QED BY <1>1, AlwaysInv, PTL DEF Spec, NoReadingAfterLoss
=============================================================================
