------------------------------- MODULE Hcsr04 -------------------------------
(***************************************************************************)
(* The character driver of the HC-SR04 distance sensor (Hcsr04/            *)
(* matrix_hcsr04.c): open and close claim and free two pins and an         *)
(* interrupt, read triggers the sensor and polls for the times that the    *)
(* interrupt handler gpio_isr records at the two edges of the echo.        *)
(* No lock orders the callers, the handler and the sensor.                 *)
(***************************************************************************)
EXTENDS Integers, FiniteSets

CONSTANTS
  Callers,       \* the threads that open, read and close the device
  NoCaller,
  MaxPolls,      \* the polls of a read before it gives up (23200)
  Failures       \* calls of open that may fail: "setup", "request_irq"

ASSUME DriverAssumption ==
  /\ NoCaller \notin Callers
  /\ MaxPolls \in Nat \ {0}
  /\ Failures \subseteq {"setup", "request_irq"}

VARIABLES
  pc,            \* control of each caller
  trigger,       \* who requested HCSR04_TRIGGER
  echo,          \* who requested HCSR04_ECHO
  irq,           \* who requested the interrupt of HCSR04_ECHO
  read_flag,     \* hcsr04_read_flag
  valid_value,
  counter,       \* polls left to the current read
  startFresh,    \* echo_start is the rise of the last echo pulse
  measured,      \* what echo_end - echo_start is: one "pulse" or "mixed" ones
  sensor,        \* the sensor is "idle", "armed" by a trigger, or echo is "high"
  raised,        \* an edge whose interrupt has not run yet
  leaked,        \* history: an open failed after it had requested a pin
  early,         \* history: echo rose before valid_value was cleared for it
  unheard,       \* history: echo rose and the handler was not (or no longer) there
  missed         \* history: a second edge came before the interrupt ran

claims  == <<trigger, echo, irq>>
reading == <<read_flag, valid_value, counter>>
times   == <<startFresh, measured>>
history == <<leaked, early, unheard, missed>>
vars == <<pc, claims, reading, times, sensor, raised, history>>

Reading == {"pulse", "reset", "poll"}
Opened == {"open"} \cup Reading
Pc == Opened \cup {"closed", "requestTrigger", "requestEcho", "setDirections",
                  "requestIrq", "freeTrigger", "freeIrq"}

Init ==
  /\ pc = [c \in Callers |-> "closed"]
  /\ trigger = NoCaller /\ echo = NoCaller /\ irq = NoCaller
  /\ read_flag = 0 /\ valid_value = 0 /\ counter = 0
  /\ startFresh = FALSE /\ measured = "none"
  /\ sensor = "idle" /\ raised = FALSE
  /\ leaked = FALSE /\ early = FALSE /\ unheard = FALSE /\ missed = FALSE

At(c, from) == pc[c] = from
Goto(c, to) == pc' = [pc EXCEPT ![c] = to]

----------------------------------------------------------------------------
(* hcsr04_open.  Its failure paths free nothing. *)

Open(c) ==
  /\ At(c, "closed") /\ Goto(c, "requestTrigger")
  /\ UNCHANGED <<claims, reading, times, sensor, raised, history>>

FailOpenTidy(c) ==   \* mutant: the failure path frees the pins
  /\ Goto(c, "closed")
  /\ leaked' = (leaked \/ trigger = c)
  /\ trigger' = IF trigger = c THEN NoCaller ELSE trigger
  /\ echo' = IF echo = c THEN NoCaller ELSE echo
  /\ UNCHANGED irq

FailOpenFreesAll(c) ==   \* mutant: it frees whatever is requested
  /\ Goto(c, "closed")
  /\ leaked' = leaked
  /\ trigger' = NoCaller /\ echo' = NoCaller
  /\ UNCHANGED irq

FailOpen(c) ==
  /\ Goto(c, "closed")
  /\ leaked' = (leaked \/ trigger = c)
  /\ UNCHANGED claims

RequestTrigger(c) ==
  /\ At(c, "requestTrigger")
  /\ \/ /\ trigger = NoCaller
        /\ trigger' = c /\ Goto(c, "requestEcho") /\ UNCHANGED <<echo, irq, leaked>>
     \/ (trigger # NoCaller \/ "setup" \in Failures) /\ FailOpen(c)
  /\ UNCHANGED <<reading, times, sensor, raised, early, unheard, missed>>

RequestEcho(c) ==
  /\ At(c, "requestEcho")
  /\ \/ /\ echo = NoCaller
        /\ echo' = c /\ Goto(c, "setDirections") /\ UNCHANGED <<trigger, irq, leaked>>
     \/ (echo # NoCaller \/ "setup" \in Failures) /\ FailOpen(c)
  /\ UNCHANGED <<reading, times, sensor, raised, early, unheard, missed>>

\* The directions of both pins, and gpio_to_irq.
SetDirections(c) ==
  /\ At(c, "setDirections")
  /\ \/ Goto(c, "requestIrq") /\ UNCHANGED <<claims, leaked>>
     \/ "setup" \in Failures /\ FailOpen(c)
  /\ UNCHANGED <<reading, times, sensor, raised, early, unheard, missed>>

RequestIrq(c) ==
  /\ At(c, "requestIrq")
  /\ \/ /\ irq = NoCaller
        /\ irq' = c /\ Goto(c, "open") /\ UNCHANGED <<trigger, echo, leaked>>
     \/ (irq # NoCaller \/ "request_irq" \in Failures) /\ FailOpen(c)
  /\ UNCHANGED <<reading, times, sensor, raised, early, unheard, missed>>

(* hcsr04_close: the pins are free before the interrupt is. *)

FreeEcho(c) ==
  /\ At(c, "open") /\ Goto(c, "freeTrigger")
  /\ echo' = NoCaller
  /\ UNCHANGED <<trigger, irq, reading, times, sensor, raised, history>>

FreeTrigger(c) ==
  /\ At(c, "freeTrigger") /\ Goto(c, "freeIrq")
  /\ trigger' = NoCaller
  /\ UNCHANGED <<echo, irq, reading, times, sensor, raised, history>>

FreeIrqForgotten == irq    \* mutant: the close of the first driver version
FreedIrq == NoCaller

FreeIrq(c) ==
  /\ At(c, "freeIrq") /\ Goto(c, "closed")
  /\ irq' = FreedIrq
  /\ raised' = FALSE
  /\ unheard' = (unheard \/ (raised /\ sensor = "high"))
  /\ UNCHANGED <<trigger, echo, reading, times, sensor, leaked, early, missed>>

----------------------------------------------------------------------------
(* hcsr04_read. *)

SetFlag(c) ==
  /\ At(c, "open") /\ Goto(c, "pulse")
  /\ read_flag' = 1
  /\ UNCHANGED <<claims, valid_value, counter, times, sensor, raised, history>>

\* The pulse on TRIGGER; the sensor ignores it while its echo is high.
PulseTrigger(c) ==
  /\ At(c, "pulse") /\ Goto(c, "reset")
  /\ sensor' = IF sensor = "high" THEN "high" ELSE "armed"
  /\ UNCHANGED <<claims, reading, times, raised, history>>

ResetValid(c) ==
  /\ At(c, "reset") /\ Goto(c, "poll")
  /\ valid_value' = 0 /\ counter' = MaxPolls
  /\ UNCHANGED <<claims, read_flag, times, sensor, raised, history>>

KeepPolling == valid_value = 0 /\ counter > 0
PollsLeft == counter - 1

Poll(c) ==
  /\ At(c, "poll") /\ KeepPolling
  /\ counter' = PollsLeft
  /\ UNCHANGED <<pc, claims, read_flag, valid_value, times, sensor, raised, history>>

\* The flag after a read that gave up.  Mutant: cleared as after a success.
FlagAfterTimeoutCleared == 0
FlagAfterTimeout == read_flag

ReadTimesOut(c) ==
  /\ At(c, "poll") /\ valid_value = 0 /\ counter = 0
  /\ Goto(c, "open")
  /\ read_flag' = FlagAfterTimeout
  /\ UNCHANGED <<claims, valid_value, counter, times, sensor, raised, history>>

ReadReturns(c) ==
  /\ At(c, "poll") /\ valid_value = 1
  /\ Goto(c, "open")
  /\ read_flag' = 0 /\ counter' = 0
  /\ UNCHANGED <<claims, valid_value, times, sensor, raised, history>>

----------------------------------------------------------------------------
(* The sensor (external) and the interrupt. *)

\* An edge raises the interrupt if it is requested; one not yet served is lost.
Edge(to) ==
  /\ sensor' = to
  /\ raised' = (irq # NoCaller)
  /\ missed' = (missed \/ raised)

Rise ==
  /\ sensor = "armed" /\ Edge("high")
  /\ startFresh' = FALSE
  /\ early' = (early \/ valid_value = 1)
  /\ unheard' = (unheard \/ irq = NoCaller)
  /\ UNCHANGED <<pc, claims, reading, measured, leaked>>

Fall ==
  /\ sensor = "high" /\ Edge("idle")
  /\ UNCHANGED <<pc, claims, reading, times, leaked, early, unheard>>

\* The handler reads the level of the pin, not the edge that called it.
gpio_isr ==
  /\ raised /\ irq # NoCaller
  /\ raised' = FALSE
  /\ IF read_flag = 1 /\ valid_value = 0
     THEN IF sensor = "high"
          THEN startFresh' = TRUE /\ UNCHANGED <<measured, valid_value>>
          ELSE /\ measured' = IF startFresh THEN "pulse" ELSE "mixed"
               /\ valid_value' = 1
               /\ UNCHANGED startFresh
     ELSE UNCHANGED <<times, valid_value>>
  /\ UNCHANGED <<pc, claims, read_flag, counter, sensor, history>>

Read(c) ==
  SetFlag(c) \/ PulseTrigger(c) \/ ResetValid(c) \/ Poll(c)
    \/ ReadTimesOut(c) \/ ReadReturns(c)

Next ==
  \/ \E c \in Callers : Open(c) \/ RequestTrigger(c) \/ RequestEcho(c)
                        \/ SetDirections(c) \/ RequestIrq(c) \/ Read(c)
                        \/ FreeEcho(c) \/ FreeTrigger(c) \/ FreeIrq(c)
  \/ Rise \/ Fall \/ gpio_isr

Spec == Init /\ [][Next]_vars

----------------------------------------------------------------------------
\* Every variable keeps its type: the counter of polls never falls below zero.
TypeOK ==
  /\ pc \in [Callers -> Pc]
  /\ {trigger, echo, irq} \subseteq Callers \cup {NoCaller}
  /\ read_flag \in {0, 1} /\ valid_value \in {0, 1}
  /\ counter \in 0 .. MaxPolls
  /\ startFresh \in BOOLEAN
  /\ measured \in {"none", "pulse", "mixed"}
  /\ sensor \in {"idle", "armed", "high"}
  /\ raised \in BOOLEAN
  /\ leaked \in BOOLEAN /\ early \in BOOLEAN
  /\ unheard \in BOOLEAN /\ missed \in BOOLEAN

(***************************************************************************)
(* A duration is the length of one echo pulse, also across reads that gave *)
(* up and whose echo arrives later: unless an interrupt came too late to   *)
(* see an edge, echo rose before read cleared valid_value (it does so only *)
(* after the trigger), or it rose while nobody had the device open.        *)
(***************************************************************************)
MeasuresOnePulse == measured = "mixed" => early \/ unheard \/ missed

(***************************************************************************)
(* A caller that has the device open holds both pins and the interrupt:    *)
(* no two callers read at once, however opens and closes interleave.       *)
(***************************************************************************)
OpenedHoldsAll ==
  \A c \in Callers : pc[c] \in Opened => trigger = c /\ echo = c /\ irq = c

(***************************************************************************)
(* README.md 3.2.1 ("open device fails" the second time, no free_irq):     *)
(* when everybody has closed the device and no failed open kept a pin, it  *)
(* can be opened again.                                                    *)
(***************************************************************************)
ClosedIsFree ==
  (~leaked /\ \A c \in Callers : pc[c] = "closed") =>
     trigger = NoCaller /\ echo = NoCaller /\ irq = NoCaller

(***************************************************************************)
(* An open that fails after its first gpio_request keeps the pin: once     *)
(* that happened (a failing call, or an open that overlaps a close), no    *)
(* open succeeds again.                                                    *)
(***************************************************************************)
LeakIsFinal ==
  [][ leaked => \A c \in Callers : pc[c] = "requestIrq" => pc'[c] # "open" ]_vars
============================================================================
