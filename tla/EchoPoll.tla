------------------------------ MODULE EchoPoll ------------------------------
(***************************************************************************)
(* The earlier car's echo timing (pthread_ultralsonic of nanopi2/RemoteCar/*)
(* Matrix-remotecar.c): trigger the sensor, poll the echo pin through      *)
(* sysfs for two edges, and subtract the tv_nsec of two time stamps.       *)
(* README.md (line 133) reports negative distances and a hang whose cause  *)
(* is unknown; the properties name the causes.                             *)
(***************************************************************************)
EXTENDS Integers

CONSTANTS
  Second,      \* ticks of the clock in a second (10^9 nanoseconds)
  MaxEcho,     \* the longest echo, in ticks
  Failures     \* "open": the pin cannot be opened; "mute": no answer to a trigger;
               \* "poll": a poll is interrupted, or lacks memory

ASSUME EchoAssumption ==
  /\ Second \in Nat /\ MaxEcho \in 1 .. Second - 1
  /\ Failures \subseteq {"open", "mute", "poll"}

VARIABLES
  pc,          \* control of the thread
  opened,      \* ultrasonicEcho_fd is a descriptor, not -1
  event,       \* an edge came since value was last read: poll returns
  revents,     \* fds[0].revents has POLLPRI
  start, end,  \* tv_nsec of time_start and time_end
  fCostTime,
  nsec,        \* tv_nsec of the clock
  sensor,      \* "idle", "armed" by a trigger, or echo is "high"
  width,       \* ticks the echo was high, this time
  lost,        \* history: an edge came before the event of the last was read
  silent,      \* history: the sensor did not answer
  failed,      \* history: a poll failed
  late,        \* history: time passed between an edge and its stamp
  turned       \* history: a second ended between the two stamps

stamps  == <<start, end, fCostTime>>
echo    == <<sensor, width>>
history == <<lost, silent, failed, late, turned>>
vars == <<pc, opened, event, revents, stamps, nsec, echo, history>>

\* A value that was never read has an event; fds is not initialised.
Init ==
  /\ pc = "open" /\ opened = FALSE /\ event = TRUE
  /\ revents \in BOOLEAN
  /\ start = 0 /\ end = 0 /\ fCostTime = 0
  /\ nsec \in 0 .. Second - 1
  /\ sensor = "idle" /\ width = 0
  /\ lost = FALSE /\ silent = FALSE /\ failed = FALSE
  /\ late = FALSE /\ turned = FALSE

Goto(from, to) == pc = from /\ pc' = to

\* Export and direction of the pins, edge "both", open.
Open ==
  /\ Goto("open", "firstRead")
  /\ opened' \in IF "open" \in Failures THEN BOOLEAN ELSE {TRUE}
  /\ UNCHANGED <<event, revents, stamps, nsec, echo, history>>

AfterFirstReadKept == event         \* mutant: value is not read before the loop
AfterFirstRead == event /\ ~opened

FirstRead ==
  /\ Goto("firstRead", "trigger")
  /\ event' = AfterFirstRead
  /\ UNCHANGED <<opened, revents, stamps, nsec, echo, history>>

\* 60 us high; the sensor ignores it while its echo is high.
Trigger ==
  /\ Goto("trigger", "pollStart")
  /\ sensor' = IF sensor = "high" THEN "high" ELSE "armed"
  /\ late' = FALSE /\ turned' = FALSE
  /\ UNCHANGED <<opened, event, revents, stamps, nsec, width, lost, silent, failed>>

\* The timeout of poll is -1, and a descriptor -1 has no events.
PollEndsInTime == opened            \* mutant: poll has a timeout
PollEnds == opened /\ event

Poll ==
  /\ Goto("pollStart", "readStart") \/ Goto("pollEnd", "readEnd")
  /\ PollEnds
  /\ revents' = TRUE
  /\ UNCHANGED <<opened, event, stamps, nsec, echo, history>>

\* A failed poll is printed, and the loop goes on with the revents of the last
\* one, or none.
PollFails ==
  /\ "poll" \in Failures
  /\ revents' \in {revents, FALSE}
  /\ IF revents' THEN Goto("pollStart", "readStart") \/ Goto("pollEnd", "readEnd")
                 ELSE Goto("pollStart", "pollEnd") \/ Goto("pollEnd", "subtract")
  /\ failed' = TRUE
  /\ UNCHANGED <<opened, event, stamps, nsec, echo, lost, silent, late, turned>>

\* lseek and read: the event is taken.
ReadValue ==
  /\ Goto("readStart", "stampStart") \/ Goto("readEnd", "stampEnd")
  /\ event' = (event /\ ~opened)
  /\ UNCHANGED <<opened, revents, stamps, nsec, echo, history>>

StampStart ==
  /\ Goto("stampStart", "pollEnd")
  /\ start' = nsec
  /\ UNCHANGED <<opened, event, revents, end, fCostTime, nsec, echo, history>>

StampEnd ==
  /\ Goto("stampEnd", "subtract")
  /\ end' = nsec
  /\ UNCHANGED <<opened, event, revents, start, fCostTime, nsec, echo, history>>

CostInSecond == (end - start) % Second   \* mutant: the seconds count
Cost == end - start

Subtract ==
  /\ Goto("subtract", "trigger")
  /\ fCostTime' = Cost
  /\ UNCHANGED <<opened, event, revents, start, end, nsec, echo, history>>

Thread ==
  \/ Open \/ FirstRead \/ Trigger \/ Poll \/ ReadValue
  \/ StampStart \/ StampEnd \/ Subtract

----------------------------------------------------------------------------
(* The sensor, the pin's interrupt and the clock. *)

Edge == event' = TRUE /\ lost' = (lost \/ event)

Rise ==
  /\ sensor = "armed" /\ sensor' = "high"
  /\ width' = 0
  /\ Edge
  /\ UNCHANGED <<pc, opened, revents, stamps, nsec, silent, failed, late, turned>>

Fall ==
  /\ sensor = "high" /\ sensor' = "idle"
  /\ width > 0
  /\ Edge
  /\ UNCHANGED <<pc, opened, revents, stamps, nsec, width, silent, failed, late, turned>>

Mute ==
  /\ "mute" \in Failures
  /\ sensor = "armed" /\ sensor' = "idle"
  /\ silent' = TRUE
  /\ UNCHANGED <<pc, opened, event, revents, stamps, nsec, width, lost, failed, late,
                 turned>>

StartPending == pc \in {"pollStart", "readStart", "stampStart"}
EndPending   == pc \in {"pollEnd", "readEnd", "stampEnd"}

Tick ==
  /\ sensor = "high" => width < MaxEcho
  /\ nsec' = (nsec + 1) % Second
  /\ width' = IF sensor = "high" THEN width + 1 ELSE width
  /\ late' = (late \/ (StartPending /\ (sensor = "high" \/ event))
                   \/ (EndPending /\ sensor # "high"))
  /\ turned' = (turned \/ (EndPending /\ nsec' = 0))
  /\ UNCHANGED <<pc, opened, event, revents, stamps, sensor, lost, silent, failed>>

World == Rise \/ Fall \/ Mute \/ Tick

Next == Thread \/ PollFails \/ World

Spec == Init /\ [][Next]_vars

\* The thread is scheduled, time passes, an echo ends, a trigger is answered
\* or not.  No poll has to fail.
FairSpec ==
  Spec /\ WF_vars(Thread) /\ WF_vars(Tick) /\ WF_vars(Rise \/ Mute) /\ WF_vars(Fall)

----------------------------------------------------------------------------
(***************************************************************************)
(* Until a poll fails, the two stamps of a reading are the rise and the    *)
(* fall of one echo, the one this trigger asked for: if each stamp is in   *)
(* time, the reading is the width of the echo, less one second if a second *)
(* ended in between (the negative distances of README.md: only tv_nsec is  *)
(* subtracted).                                                            *)
(***************************************************************************)
PromptReadingIsEcho ==
  (pc = "trigger" /\ ~late /\ ~failed) =>
    fCostTime = IF turned THEN width - Second ELSE width

(***************************************************************************)
(* Until a poll fails, the thread never triggers into an echo (the sensor  *)
(* would ignore it and every later reading start with a fall), nor with an *)
(* edge left over.                                                         *)
(***************************************************************************)
TriggersAfterEcho ==
  (pc = "trigger" /\ ~failed) => sensor = "idle" /\ (event => ~opened)

(***************************************************************************)
(* The thread waits for ever (README.md: the program hangs, cause unknown) *)
(* only if two edges became one event, the sensor was silent, the pin did  *)
(* not open, or a poll failed.                                             *)
(***************************************************************************)
Broken == lost \/ silent \/ (pc # "open" /\ ~opened)

HangsOnlyOnLoss == []<>(pc = "trigger") \/ <>(Broken \/ failed)

(***************************************************************************)
(* And each of the first three is final: unless a poll fails, the thread   *)
(* never finishes another reading.                                         *)
(***************************************************************************)
NoReadingAfterLoss ==
  [][ Broken /\ ~failed => ~(pc = "subtract" /\ pc' = "trigger") ]_vars
============================================================================
