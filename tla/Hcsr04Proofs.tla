---------------------------- MODULE Hcsr04Proofs ----------------------------
(***************************************************************************)
(* Theorems about the driver, for any number of callers, any limit of      *)
(* polls and any failing calls.                                            *)
(***************************************************************************)
EXTENDS Hcsr04, TLAPS

\* The places at which a caller must be the one who claimed a resource.
HasTrigger ==
  Opened \cup {"requestEcho", "setDirections", "requestIrq", "freeTrigger"}
HasEcho == Opened \cup {"setDirections", "requestIrq"}
HasIrq == Opened \cup {"freeTrigger", "freeIrq"}

(***************************************************************************)
(* Who is at such a place has the claim, so nobody else is at one.  The    *)
(* property alone is not inductive: open makes its claims one by one, and  *)
(* close frees whatever is claimed, whoever claimed it.                    *)
(***************************************************************************)
Holds ==
  \A c \in Callers :
    /\ pc[c] \in HasTrigger => trigger = c
    /\ pc[c] \in HasEcho => echo = c
    /\ pc[c] \in HasIrq => irq = c

\* Until an open has failed, who has a claim is at a place that needs it.
Tidy ==
  ~leaked =>
    /\ trigger # NoCaller => pc[trigger] \in HasTrigger
    /\ echo # NoCaller => pc[echo] \in HasEcho
    /\ irq # NoCaller => pc[irq] \in HasIrq

\* Afterwards a caller outside the device has the trigger pin.
Stuck ==
  leaked => trigger # NoCaller /\ pc[trigger] \in {"closed", "requestTrigger"}

Inv == TypeOK /\ Holds /\ Tidy /\ Stuck

----------------------------------------------------------------------------
LEMMA InitInv == Init => Inv
<1> SUFFICES ASSUME Init PROVE Inv
  OBVIOUS
<1> USE DEF Init
<1>1. TypeOK
  <2>1. pc \in [Callers -> Pc] /\ counter \in 0 .. MaxPolls
    BY DriverAssumption DEF Pc
  <2> QED BY <2>1 DEF TypeOK
<1>2. \A c \in Callers : pc[c] = "closed"
  OBVIOUS
<1>3. Holds
  BY <1>2 DEF Holds, HasTrigger, HasEcho, HasIrq, Opened, Reading
<1>4. Tidy /\ Stuck
  BY DEF Tidy, Stuck
<1> QED BY <1>1, <1>3, <1>4 DEF Inv

LEMMA TypeStep == ASSUME TypeOK, [Next]_vars PROVE TypeOK'
<1> USE DriverAssumption DEF TypeOK, Pc, Opened, Reading, Goto, At, claims, reading,
        times, history
<1>1. ASSUME NEW c \in Callers, Open(c) PROVE TypeOK'
  BY <1>1 DEF Open
<1>2. ASSUME NEW c \in Callers, RequestTrigger(c) PROVE TypeOK'
  <2>1. pc' \in [Callers -> Pc]
    BY <1>2 DEF RequestTrigger, FailOpen
  <2>2. {trigger', echo', irq'} \subseteq Callers \cup {NoCaller} /\ leaked' \in BOOLEAN
    BY <1>2 DEF RequestTrigger, FailOpen
  <2> QED BY <1>2, <2>1, <2>2 DEF RequestTrigger, FailOpen
<1>3. ASSUME NEW c \in Callers, RequestEcho(c) PROVE TypeOK'
  <2>1. leaked' \in BOOLEAN
    BY <1>3 DEF RequestEcho, FailOpen
  <2> QED BY <1>3, <2>1 DEF RequestEcho, FailOpen
<1>4. ASSUME NEW c \in Callers, SetDirections(c) \/ RequestIrq(c) PROVE TypeOK'
  <2>1. leaked' \in BOOLEAN
    BY <1>4 DEF SetDirections, RequestIrq, FailOpen
  <2> QED BY <1>4, <2>1 DEF SetDirections, RequestIrq, FailOpen
<1>5. ASSUME NEW c \in Callers, FreeEcho(c) \/ FreeTrigger(c) PROVE TypeOK'
  BY <1>5 DEF FreeEcho, FreeTrigger
<1>6. ASSUME NEW c \in Callers, FreeIrq(c) PROVE TypeOK'
  BY <1>6 DEF FreeIrq, FreedIrq
<1>7. ASSUME NEW c \in Callers, SetFlag(c) \/ PulseTrigger(c) \/ ResetValid(c) PROVE TypeOK'
  BY <1>7 DEF SetFlag, PulseTrigger, ResetValid
<1>8. ASSUME NEW c \in Callers, Poll(c) PROVE TypeOK'
  BY <1>8 DEF Poll, KeepPolling, PollsLeft
<1>9. ASSUME NEW c \in Callers, ReadTimesOut(c) \/ ReadReturns(c) PROVE TypeOK'
  BY <1>9 DEF ReadTimesOut, ReadReturns, FlagAfterTimeout
<1>10. ASSUME Rise \/ Fall PROVE TypeOK'
  BY <1>10 DEF Rise, Fall, Edge
<1>11. ASSUME gpio_isr PROVE TypeOK'
  <2>1. measured' \in {"none", "pulse", "mixed"} /\ valid_value' \in {0, 1}
    BY <1>11 DEF gpio_isr
  <2> QED BY <1>11, <2>1 DEF gpio_isr
<1>12. ASSUME UNCHANGED vars PROVE TypeOK'
  BY <1>12 DEF vars
<1> HIDE DEF TypeOK, Pc, Opened, Reading, Goto, At, claims, reading, times, history
<1> QED BY <1>1, <1>2, <1>3, <1>4, <1>5, <1>6, <1>7, <1>8, <1>9, <1>10, <1>11, <1>12
        DEF Next, Read

(***************************************************************************)
(* The steps that make or give up no claim and fail no open: the sensor,   *)
(* the interrupt and read, which stays inside the device.                  *)
(***************************************************************************)
Quiet ==
  /\ UNCHANGED <<claims, leaked>>
  /\ \/ UNCHANGED pc
     \/ \E c \in Callers, l \in Opened : pc[c] \in Opened /\ Goto(c, l)

LEMMA QuietStep ==
  ASSUME Inv, Quiet
  PROVE  Holds' /\ Tidy' /\ Stuck'
<1>1. CASE UNCHANGED pc
  BY <1>1 DEF Quiet, Inv, Holds, Tidy, Stuck, claims, HasTrigger, HasEcho, HasIrq
<1>2. ASSUME NEW c \in Callers, NEW l \in Opened, pc[c] \in Opened, Goto(c, l)
      PROVE  Holds' /\ Tidy' /\ Stuck'
  <2>1. pc' = [pc EXCEPT ![c] = l]
    BY <1>2 DEF Goto
  <2>2. \A d \in Callers : /\ pc'[d] \in HasTrigger <=> pc[d] \in HasTrigger
                           /\ pc'[d] \in HasEcho <=> pc[d] \in HasEcho
                           /\ pc'[d] \in HasIrq <=> pc[d] \in HasIrq
    BY <1>2, <2>1 DEF Inv, TypeOK, HasTrigger, HasEcho, HasIrq
  <2>3. \A d \in Callers : pc[d] \in {"closed", "requestTrigger"} => pc'[d] = pc[d]
    BY <1>2, <2>1 DEF Inv, TypeOK, Opened, Reading
  <2>4. {trigger, echo, irq} \subseteq Callers \cup {NoCaller}
    BY DEF Inv, TypeOK
  <2>5. UNCHANGED <<trigger, echo, irq, leaked>>
    BY DEF Quiet, claims
  <2>6. Holds'
    BY <2>2, <2>5 DEF Inv, Holds, HasTrigger, HasEcho, HasIrq
  <2>7. Tidy'
    BY <2>2, <2>4, <2>5 DEF Inv, Tidy, HasTrigger, HasEcho, HasIrq
  <2>8. Stuck'
    BY <2>3, <2>4, <2>5 DEF Inv, Stuck
  <2> QED BY <2>6, <2>7, <2>8
<1> QED BY <1>1, <1>2 DEF Quiet

LEMMA OpenStep ==
  ASSUME Inv, NEW c \in Callers,
         \/ Open(c) \/ RequestTrigger(c) \/ RequestEcho(c)
         \/ SetDirections(c) \/ RequestIrq(c)
  PROVE  Holds' /\ Tidy' /\ Stuck'
<1> USE DriverAssumption DEF Inv, TypeOK, Holds, Tidy, Stuck, HasTrigger, HasEcho, HasIrq,
        Opened, Reading, Goto, At, claims, history
<1>1. CASE Open(c)
  BY <1>1 DEF Open
<1>2. CASE /\ pc[c] \in {"requestTrigger", "requestEcho", "setDirections", "requestIrq"}
           /\ FailOpen(c)
  <2>1. /\ pc' = [pc EXCEPT ![c] = "closed"] /\ UNCHANGED <<trigger, echo, irq>>
        /\ leaked' = (leaked \/ trigger = c)
    BY <1>2 DEF FailOpen
  <2>2. Holds'
    BY <2>1
  <2>3. leaked \/ trigger = c => trigger # NoCaller /\ pc'[trigger] \in {"closed", "requestTrigger"}
    BY <1>2, <2>1
  <2>4. Stuck'
    BY <2>1, <2>3
  <2>5. ~leaked' => trigger # c /\ echo # c /\ irq # c
    BY <1>2, <2>1
  <2>6. Tidy'
    BY <2>1, <2>5
  <2> QED BY <2>2, <2>4, <2>6
<1>3. CASE RequestTrigger(c) /\ ~FailOpen(c)
  BY <1>3 DEF RequestTrigger
<1>4. CASE RequestEcho(c) /\ ~FailOpen(c)
  <2>1. /\ pc[c] = "requestEcho" /\ pc' = [pc EXCEPT ![c] = "setDirections"]
        /\ echo = NoCaller /\ echo' = c
        /\ UNCHANGED <<trigger, irq, leaked>>
    BY <1>4 DEF RequestEcho
  <2>2. Holds'
    BY <2>1
  <2>3. Tidy'
    BY <2>1
  <2>4. Stuck'
    BY <2>1
  <2> QED BY <2>2, <2>3, <2>4
<1>5. CASE RequestIrq(c) /\ ~FailOpen(c)
  <2>1. /\ pc[c] = "requestIrq" /\ pc' = [pc EXCEPT ![c] = "open"]
        /\ irq = NoCaller /\ irq' = c
        /\ UNCHANGED <<trigger, echo, leaked>>
    BY <1>5 DEF RequestIrq
  <2>2. Holds'
    BY <2>1
  <2>3. Tidy'
    BY <2>1
  <2>4. Stuck'
    BY <2>1
  <2> QED BY <2>2, <2>3, <2>4
<1>6. CASE SetDirections(c) /\ ~FailOpen(c)
  BY <1>6 DEF SetDirections
<1> QED BY <1>1, <1>2, <1>3, <1>4, <1>5, <1>6
        DEF RequestTrigger, RequestEcho, SetDirections, RequestIrq

LEMMA CloseStep ==
  ASSUME Inv, NEW c \in Callers, FreeEcho(c) \/ FreeTrigger(c) \/ FreeIrq(c)
  PROVE  Holds' /\ Tidy' /\ Stuck'
<1> USE DriverAssumption DEF Inv, TypeOK, Holds, Tidy, Stuck, HasTrigger, HasEcho, HasIrq,
        Opened, Reading, Goto, At, claims, history
<1>1. CASE FreeEcho(c)
  BY <1>1 DEF FreeEcho
<1>2. CASE FreeTrigger(c)
  BY <1>2 DEF FreeTrigger
<1>3. CASE FreeIrq(c)
  BY <1>3 DEF FreeIrq, FreedIrq
<1> QED BY <1>1, <1>2, <1>3

LEMMA ReadIsQuiet ==
  ASSUME NEW c \in Callers, Read(c)
  PROVE  Quiet
<1> USE DEF Quiet, Opened, Reading, At, Goto, history
<1>1. CASE SetFlag(c)
  BY <1>1 DEF SetFlag
<1>2. CASE PulseTrigger(c)
  BY <1>2 DEF PulseTrigger
<1>3. CASE ResetValid(c)
  BY <1>3 DEF ResetValid
<1>4. CASE Poll(c)
  BY <1>4 DEF Poll
<1>5. CASE ReadTimesOut(c) \/ ReadReturns(c)
  BY <1>5 DEF ReadTimesOut, ReadReturns
<1> QED BY <1>1, <1>2, <1>3, <1>4, <1>5 DEF Read

LEMMA StepInv == Inv /\ [Next]_vars => Inv'
<1> SUFFICES ASSUME Inv, [Next]_vars PROVE Inv'
  OBVIOUS
<1>1. TypeOK'
  BY TypeStep DEF Inv
<1>2. ASSUME NEW c \in Callers, Read(c) PROVE Holds' /\ Tidy' /\ Stuck'
  BY <1>2, ReadIsQuiet, QuietStep
<1>3. ASSUME Rise \/ Fall \/ gpio_isr PROVE Holds' /\ Tidy' /\ Stuck'
  BY <1>3, QuietStep DEF Quiet, Rise, Fall, gpio_isr, history
<1>4. ASSUME UNCHANGED vars PROVE Holds' /\ Tidy' /\ Stuck'
  BY <1>4, QuietStep DEF Quiet, vars, history
<1>5. Holds' /\ Tidy' /\ Stuck'
  BY <1>2, <1>3, <1>4, OpenStep, CloseStep DEF Next
<1> QED BY <1>1, <1>5 DEF Inv

LEMMA AlwaysInv == Spec => []Inv
BY InitInv, StepInv, PTL DEF Spec

----------------------------------------------------------------------------
(***************************************************************************)
(* Who has the device open has both pins and the interrupt, alone,         *)
(* although open and close take and free them one by one without a lock.   *)
(***************************************************************************)
THEOREM OpenersHoldAll == Spec => []OpenedHoldsAll
<1>1. Inv => OpenedHoldsAll
  BY DEF Inv, Holds, OpenedHoldsAll, HasTrigger, HasEcho, HasIrq
<1> QED BY <1>1, AlwaysInv, PTL

(***************************************************************************)
(* When all have closed the device and no open has failed half way,        *)
(* nothing is claimed (hcsr04_close frees the interrupt too).              *)
(***************************************************************************)
THEOREM CloseFreesAll == Spec => []ClosedIsFree
<1>1. Inv => ClosedIsFree
  BY DEF Inv, TypeOK, Tidy, ClosedIsFree, HasTrigger, HasEcho, HasIrq, Opened, Reading
<1> QED BY <1>1, AlwaysInv, PTL

(***************************************************************************)
(* After an open that failed half way no open succeeds again: the pin it   *)
(* requested is never freed.                                               *)
(***************************************************************************)
THEOREM LeaksAreFinal == Spec => LeakIsFinal
<1>1. Inv /\ [Next]_vars =>
        [leaked => \A c \in Callers : pc[c] = "requestIrq" => pc'[c] # "open"]_vars
  BY DEF Inv, Holds, Stuck, HasTrigger
<1> QED BY <1>1, AlwaysInv, PTL DEF Spec, LeakIsFinal
----------------------------------------------------------------------------
(***************************************************************************)
(* What a measured duration rests on.  While a caller reads, the flag is   *)
(* up, and before the first trigger there is no edge.                      *)
(***************************************************************************)
Flagged ==
  /\ \A c \in Callers : pc[c] \in Reading => read_flag = 1
  /\ (read_flag = 0 /\ valid_value = 0) => sensor = "idle" /\ ~raised

(***************************************************************************)
(* Unless an edge was lost, the rise of an echo is recorded or about to be *)
(* (valid_value lets the handler record it), and recorded at its fall.     *)
(***************************************************************************)
Clean == ~early /\ ~unheard /\ ~missed

Recorded ==
  Clean =>
    /\ sensor = "high" => valid_value = 0 /\ (raised \/ startFresh)
    /\ (sensor # "high" /\ raised) => startFresh
    /\ measured # "mixed"

PulseInv == Flagged /\ Recorded

LEMMA InitPulse == Init => PulseInv
BY DEF Init, PulseInv, Flagged, Recorded, Reading

\* Only one caller reads: no other lowers the flag under it.
LEMMA OneReader ==
  ASSUME Inv, NEW c \in Callers, NEW d \in Callers, pc[c] \in Opened, pc[d] \in Opened
  PROVE  c = d
BY DEF Inv, Holds, HasTrigger

LEMMA FlaggedStep == ASSUME Inv, PulseInv, [Next]_vars PROVE Flagged'
<1> USE DEF PulseInv, Flagged, Reading, Goto, At, reading, times, claims, history
<1>1. pc \in [Callers -> Pc] /\ read_flag \in {0, 1} /\ valid_value \in {0, 1}
  BY DEF Inv, TypeOK
<1>2. ASSUME NEW c \in Callers, Open(c) \/ FreeEcho(c) \/ FreeTrigger(c) PROVE Flagged'
  BY <1>1, <1>2 DEF Open, FreeEcho, FreeTrigger
<1>3. ASSUME NEW c \in Callers,
             RequestTrigger(c) \/ RequestEcho(c) \/ SetDirections(c) \/ RequestIrq(c)
      PROVE  Flagged'
  BY <1>1, <1>3 DEF RequestTrigger, RequestEcho, SetDirections, RequestIrq, FailOpen
<1>4. ASSUME NEW c \in Callers, FreeIrq(c) PROVE Flagged'
  BY <1>1, <1>4 DEF FreeIrq
<1>5. ASSUME NEW c \in Callers, SetFlag(c) PROVE Flagged'
  BY <1>1, <1>5 DEF SetFlag
<1>6. ASSUME NEW c \in Callers, PulseTrigger(c) \/ ResetValid(c) PROVE Flagged'
  BY <1>1, <1>6 DEF PulseTrigger, ResetValid
<1>7. ASSUME NEW c \in Callers, Poll(c) \/ ReadTimesOut(c) PROVE Flagged'
  BY <1>1, <1>7 DEF Poll, ReadTimesOut, FlagAfterTimeout
<1>8. ASSUME NEW c \in Callers, ReadReturns(c) PROVE Flagged'
  <2>1. \A d \in Callers : pc[d] \in Reading => d = c
    BY <1>8, OneReader DEF ReadReturns, Opened
  <2>2. \A d \in Callers : pc'[d] \notin Reading
    BY <1>1, <1>8, <2>1 DEF ReadReturns
  <2>3. valid_value' = 1
    BY <1>8 DEF ReadReturns
  <2> QED BY <2>2, <2>3
<1>9. ASSUME Rise \/ Fall PROVE Flagged'
  BY <1>1, <1>9 DEF Rise, Fall, Edge
<1>10. ASSUME gpio_isr PROVE Flagged'
  BY <1>1, <1>10 DEF gpio_isr
<1>11. ASSUME UNCHANGED vars PROVE Flagged'
  BY <1>11 DEF vars
<1> QED BY <1>2, <1>3, <1>4, <1>5, <1>6, <1>7, <1>8, <1>9, <1>10, <1>11 DEF Next, Read

(***************************************************************************)
(* The steps that touch neither the echo nor what is recorded of it.       *)
(***************************************************************************)
Aside == UNCHANGED <<times, sensor, raised, early, unheard, missed>>

LEMMA AsideStep ==
  ASSUME Recorded, Aside, valid_value' \in {0, valid_value}
  PROVE  Recorded'
BY DEF Recorded, Clean, Aside, times

LEMMA RecordedStep == ASSUME Inv, PulseInv, [Next]_vars PROVE Recorded'
<1> USE DEF PulseInv
<1>1. /\ read_flag \in {0, 1} /\ valid_value \in {0, 1}
      /\ raised \in BOOLEAN /\ startFresh \in BOOLEAN
      /\ early \in BOOLEAN /\ unheard \in BOOLEAN /\ missed \in BOOLEAN
  BY DEF Inv, TypeOK
<1>2. ASSUME NEW c \in Callers,
             \/ Open(c) \/ FreeEcho(c) \/ FreeTrigger(c)
             \/ RequestTrigger(c) \/ RequestEcho(c) \/ SetDirections(c) \/ RequestIrq(c)
      PROVE  Recorded'
  <2>1. Aside /\ UNCHANGED valid_value
    BY <1>2 DEF Open, FreeEcho, FreeTrigger, RequestTrigger, RequestEcho,
                SetDirections, RequestIrq, Aside, reading, history
  <2> QED BY <2>1, AsideStep
<1>3. ASSUME NEW c \in Callers,
             SetFlag(c) \/ ResetValid(c) \/ Poll(c) \/ ReadTimesOut(c) \/ ReadReturns(c)
      PROVE  Recorded'
  <2>1. Aside /\ valid_value' \in {0, valid_value}
    BY <1>3 DEF SetFlag, ResetValid, Poll, ReadTimesOut, ReadReturns, Aside, history
  <2> QED BY <2>1, AsideStep
<1>4. ASSUME NEW c \in Callers, FreeIrq(c) PROVE Recorded'
  BY <1>1, <1>4 DEF FreeIrq, Recorded, Clean, reading, times
<1>5. ASSUME NEW c \in Callers, PulseTrigger(c) PROVE Recorded'
  BY <1>5 DEF PulseTrigger, Recorded, Clean, reading, times, history
<1>6. ASSUME Rise PROVE Recorded'
  BY <1>1, <1>6 DEF Rise, Edge, Recorded, Clean, reading
<1>7. ASSUME Fall PROVE Recorded'
  BY <1>1, <1>7 DEF Fall, Edge, Recorded, Clean, times
<1>8. ASSUME gpio_isr PROVE Recorded'
  <2>1. sensor = "high" /\ valid_value = 0 => read_flag = 1
    BY <1>1 DEF Flagged
  <2>2. CASE sensor = "high"
    BY <1>1, <1>8, <2>1, <2>2 DEF gpio_isr, Recorded, Clean, times, history
  <2>3. CASE sensor # "high"
    BY <1>1, <1>8, <2>3 DEF gpio_isr, Recorded, Clean, times, history
  <2> QED BY <2>2, <2>3
<1>9. ASSUME UNCHANGED vars PROVE Recorded'
  BY <1>9, AsideStep DEF vars, Aside, reading, history
<1> QED BY <1>2, <1>3, <1>4, <1>5, <1>6, <1>7, <1>8, <1>9 DEF Next, Read

LEMMA AlwaysPulse == Spec => []PulseInv
<1>1. Inv /\ PulseInv /\ [Next]_vars => PulseInv'
  BY FlaggedStep, RecordedStep DEF PulseInv
<1> QED BY <1>1, InitPulse, AlwaysInv, PTL DEF Spec

(***************************************************************************)
(* A duration that mixes two echoes has one of three causes: an edge whose *)
(* interrupt came too late, an echo that rose before read had cleared      *)
(* valid_value, or one that rose while nobody had the device open.         *)
(***************************************************************************)
THEOREM OnePulseIsMeasured == Spec => []MeasuresOnePulse
<1>1. Inv /\ PulseInv => MeasuresOnePulse
  BY DEF Inv, TypeOK, PulseInv, Recorded, Clean, MeasuresOnePulse
<1> QED BY <1>1, AlwaysInv, AlwaysPulse, PTL
=============================================================================
