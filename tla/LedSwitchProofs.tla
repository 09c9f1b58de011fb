-------------------------- MODULE LedSwitchProofs --------------------------
(***************************************************************************)
(* Theorems about LedSwitch, for any number of servers and requests.       *)
(***************************************************************************)
EXTENDS LedSwitch, TLAPS

Levels == [Pins -> BOOLEAN]
Locations == {"off", "serves", "idle", "status", "load", "store"}

LedType ==
  /\ register \in [Registers -> Levels]
  /\ pc \in [Threads -> Locations]
  /\ status \in [Requests -> BOOLEAN]
  /\ copy \in [Threads -> Levels]
  /\ kernel \in [Registers -> BOOLEAN]
  /\ torn \in [Registers -> BOOLEAN]
  /\ level \in BOOLEAN
  /\ overlapped \in BOOLEAN

(***************************************************************************)
(* The register that a thread is about to store has the kernel's bit for   *)
(* the other pin as well, unless the kernel wrote meanwhile.               *)
(***************************************************************************)
CopiesCurrent ==
  \A t \in Threads :
    (pc[t] = "store" /\ ~torn[Target(t)]) => copy[t]["other"] = kernel[Target(t)]

(***************************************************************************)
(* While no request has overlapped another, at most one is between reading *)
(* the level and writing it, and the level it read is the one there is.    *)
(***************************************************************************)
OneSwitching ==
  ~overlapped =>
    \A h \in Switching :
      /\ status[h] = register["GPIODAT"]["PF2"]
      /\ \A g \in Switching : g = h

Inv == LedType /\ OtherPinsKept /\ CopiesCurrent

SwitchInv == EveryRequestSwitches /\ OneSwitching

----------------------------------------------------------------------------
LEMMA TargetType == \A t \in Threads : Target(t) \in Registers
BY DEF Target, Registers

(***************************************************************************)
(* The two facts about the register a store leaves behind: the bit of PF2  *)
(* is the one asked for, the other one that of the copy.                   *)
(***************************************************************************)
LEMMA StoredBits ==
  ASSUME NEW old \in Levels, NEW bit \in BOOLEAN
  PROVE  /\ WithBit(old, bit) \in Levels
         /\ WithBit(old, bit)["PF2"] = bit
         /\ WithBit(old, bit)["other"] = old["other"]
BY DEF WithBit, Levels, Pins

LEMMA LedInit == Init => Inv /\ SwitchInv
<1> SUFFICES ASSUME Init PROVE Inv /\ SwitchInv
  OBVIOUS
<1>1. LedType
  BY DEF Init, LedType, Levels, Locations, Registers, Pins, Clear, Threads
<1>2. OtherPinsKept
  BY DEF Init, OtherPinsKept
<1>3. \A t \in Threads : pc[t] \in {"off", "idle"}
  BY DEF Init
<1>4. CopiesCurrent
  BY <1>3 DEF CopiesCurrent
<1>5. SwitchInv
  BY <1>3 DEF Init, SwitchInv, EveryRequestSwitches, OneSwitching, Switching, Threads
<1> QED BY <1>1, <1>2, <1>4, <1>5 DEF Inv

LEMMA LoadStep ==
  ASSUME Inv, SwitchInv, NEW t \in Threads, Load(t)
  PROVE  Inv' /\ SwitchInv'
<1> USE DEF Load, Goto, history
<1>1. LedType'
  BY TargetType DEF Inv, LedType, Locations
<1>2. OtherPinsKept'
  BY DEF Inv, OtherPinsKept
<1>3. CopiesCurrent'
  BY TargetType DEF Inv, LedType, OtherPinsKept, CopiesCurrent, Target
<1>4. EveryRequestSwitches'
  BY DEF SwitchInv, EveryRequestSwitches
<1>5. Switching' = Switching
  BY DEF Inv, LedType, Switching, Threads
<1>6. OneSwitching'
  BY <1>5 DEF SwitchInv, OneSwitching
<1> QED BY <1>1, <1>2, <1>3, <1>4, <1>6 DEF Inv, SwitchInv

LEMMA StoreStep ==
  ASSUME Inv, SwitchInv, NEW t \in Threads, Store(t)
  PROVE  Inv' /\ SwitchInv'
<1> DEFINE bit == IF t \in Programs THEN TRUE ELSE Switched(status[t])
           new == WithBit(copy[t], bit)
<1>1. bit \in BOOLEAN
  BY DEF Switched
<1>2. /\ new \in Levels
      /\ new["PF2"] = bit
      /\ new["other"] = copy[t]["other"]
  <2>1. copy[t] \in Levels
    BY DEF Inv, LedType
  <2> QED BY <1>1, <2>1, StoredBits
<1>3. register' = [register EXCEPT ![Target(t)] = new]
  BY DEF Store
<1>4. /\ pc[t] = "store"
      /\ pc' = [pc EXCEPT ![t] = IF t \in Programs THEN "serves" ELSE "idle"]
      /\ UNCHANGED <<kernel, torn, overlapped>>
      /\ copy' = [copy EXCEPT ![t] = Clear]
      /\ status' = [h \in Requests |-> h # t /\ status[h]]
      /\ level' = IF t \in Requests THEN ~level ELSE level
  BY DEF Store, Goto
<1> HIDE DEF new
<1>5. LedType'
  <2>1. register' \in [Registers -> Levels]
    BY <1>2, <1>3, TargetType DEF Inv, LedType
  <2>2. pc' \in [Threads -> Locations]
    BY <1>4 DEF Inv, LedType, Locations
  <2>3. copy' \in [Threads -> Levels]
    BY <1>4 DEF Inv, LedType, Levels, Clear
  <2>4. status' \in [Requests -> BOOLEAN]
    BY <1>4
  <2>5. level' \in BOOLEAN
    BY <1>4 DEF Inv, LedType
  <2> QED BY <1>4, <2>1, <2>2, <2>3, <2>4, <2>5 DEF Inv, LedType
<1>6. OtherPinsKept'
  BY <1>2, <1>3, <1>4, TargetType DEF Inv, LedType, OtherPinsKept, CopiesCurrent
<1>7. CopiesCurrent'
  BY <1>4 DEF Inv, LedType, CopiesCurrent, Target
<1>8. CASE t \in Programs
  <2>1. register'["GPIODAT"] = register["GPIODAT"]
    BY <1>3, <1>8 DEF Inv, LedType, Registers, Target
  <2>2. t \notin Requests
    BY <1>8, DistinctAssumption
  <2>3. EveryRequestSwitches'
    BY <1>4, <2>1, <2>2 DEF SwitchInv, EveryRequestSwitches
  <2>4. Switching' = Switching /\ \A h \in Requests : status'[h] = status[h]
    BY <1>4, <2>2 DEF Inv, LedType, Switching, Threads
  <2>5. OneSwitching'
    BY <1>4, <2>1, <2>4 DEF SwitchInv, OneSwitching, Switching
  <2> QED BY <1>5, <1>6, <1>7, <2>3, <2>5 DEF Inv, SwitchInv
<1>9. CASE t \in Requests
  <2>1. t \notin Programs
    BY <1>9, DistinctAssumption
  <2>2. register'["GPIODAT"]["PF2"] = ~status[t]
    BY <1>2, <1>3, <2>1 DEF Inv, LedType, Registers, Target, Switched
  <2>3. t \in Switching
    BY <1>4, <1>9 DEF Switching
  <2>4. ~overlapped => (status[t] <=> level)
    BY <2>3 DEF SwitchInv, OneSwitching, EveryRequestSwitches
  <2>5. EveryRequestSwitches'
    BY <1>4, <1>9, <2>2, <2>4 DEF EveryRequestSwitches
  <2>6. ~overlapped => Switching' = {}
    BY <1>4, <1>9, <2>1, <2>3 DEF SwitchInv, OneSwitching, Switching, Inv, LedType, Threads
  <2>7. OneSwitching'
    BY <1>4, <2>6 DEF OneSwitching
  <2> QED BY <1>5, <1>6, <1>7, <2>5, <2>7 DEF Inv, SwitchInv
<1> QED BY <1>8, <1>9 DEF Threads

LEMMA StartStep ==
  ASSUME Inv, SwitchInv, NEW p \in Programs, Start(p)
  PROVE  Inv' /\ SwitchInv'
<1> USE DEF Start, Goto, history
<1>1. LedType'
  BY DEF Inv, LedType, Locations, Threads
<1>2. OtherPinsKept' /\ EveryRequestSwitches'
  BY DEF Inv, SwitchInv, OtherPinsKept, EveryRequestSwitches
<1>3. CopiesCurrent'
  BY DEF Inv, LedType, CopiesCurrent, Target
<1>4. Switching' = Switching
  BY DistinctAssumption DEF Inv, LedType, Switching, Threads
<1>5. OneSwitching'
  BY <1>4 DEF SwitchInv, OneSwitching
<1> QED BY <1>1, <1>2, <1>3, <1>5 DEF Inv, SwitchInv

LEMMA RequestStep ==
  ASSUME Inv, SwitchInv, NEW h \in Requests, Request(h) \/ ReadStatus(h)
  PROVE  Inv' /\ SwitchInv'
<1>1. /\ UNCHANGED <<register, copy, kernel, torn, level>>
      /\ pc' = [pc EXCEPT ![h] = IF pc[h] = "idle" THEN "status" ELSE "load"]
      /\ pc[h] \in {"idle", "status"}
  BY DEF Request, ReadStatus, Goto, history
<1>2. LedType'
  <2>1. pc' \in [Threads -> Locations]
    BY <1>1 DEF Inv, LedType, Locations
  <2>2. status' \in [Requests -> BOOLEAN] /\ overlapped' \in BOOLEAN
    BY DEF Request, ReadStatus, Inv, LedType, Levels, Registers, Pins, history
  <2> QED BY <1>1, <2>1, <2>2 DEF Inv, LedType
<1>3. OtherPinsKept'
  BY <1>1 DEF Inv, OtherPinsKept
<1>4. CopiesCurrent'
  BY <1>1 DEF Inv, LedType, CopiesCurrent, Target
<1>5. CASE Request(h)
  <2>1. Switching' = Switching
    BY <1>5, <1>1 DEF Request, Inv, LedType, Switching, Threads
  <2>2. SwitchInv'
    BY <1>5, <2>1 DEF Request, history, SwitchInv, EveryRequestSwitches, OneSwitching
  <2> QED BY <1>2, <1>3, <1>4, <2>2 DEF Inv
<1>6. CASE ReadStatus(h)
  <2>1. ~overlapped' => ~overlapped /\ Switching = {}
    BY <1>6 DEF ReadStatus
  <2>2. EveryRequestSwitches'
    BY <1>1, <2>1 DEF SwitchInv, EveryRequestSwitches
  <2>3. Switching' = Switching \cup {h}
    BY <1>6, <1>1 DEF ReadStatus, Inv, LedType, Switching, Threads
  <2>4. status'[h] = register["GPIODAT"]["PF2"]
    BY <1>6 DEF ReadStatus, Inv, LedType
  <2>5. OneSwitching'
    BY <1>1, <2>1, <2>3, <2>4 DEF OneSwitching
  <2> QED BY <1>2, <1>3, <1>4, <2>2, <2>5 DEF Inv, SwitchInv
<1> QED BY <1>5, <1>6

LEMMA KernelStep ==
  ASSUME Inv, SwitchInv, NEW r \in Registers, NEW bit \in BOOLEAN, KernelSets(r, bit)
  PROVE  Inv' /\ SwitchInv'
<1> USE DEF KernelSets
<1>1. LedType'
  <2>1. register' \in [Registers -> Levels]
    BY DEF Inv, LedType, Levels, Pins
  <2>2. kernel' \in [Registers -> BOOLEAN] /\ torn' \in [Registers -> BOOLEAN]
    BY DEF Inv, LedType
  <2> QED BY <2>1, <2>2 DEF Inv, LedType
<1>2. /\ register'[r]["other"] = bit
      /\ \A q \in Registers : /\ register'[q]["PF2"] = register[q]["PF2"]
                              /\ q # r => register'[q] = register[q]
  BY DEF Inv, LedType, Levels, Pins
<1>3. OtherPinsKept'
  BY <1>2 DEF Inv, LedType, OtherPinsKept
<1>4. CopiesCurrent'
  BY TargetType DEF Inv, LedType, CopiesCurrent, Target
<1>5. EveryRequestSwitches'
  BY <1>2 DEF SwitchInv, EveryRequestSwitches, Registers
<1>6. OneSwitching'
  BY <1>2 DEF SwitchInv, OneSwitching, Switching, Registers
<1> QED BY <1>1, <1>3, <1>4, <1>5, <1>6 DEF Inv, SwitchInv

LEMMA LedStep == Inv /\ SwitchInv /\ [Next]_vars => Inv' /\ SwitchInv'
<1> SUFFICES ASSUME Inv, SwitchInv, [Next]_vars PROVE Inv' /\ SwitchInv'
  OBVIOUS
<1>1. CASE UNCHANGED vars
  BY <1>1 DEF vars, history, Inv, SwitchInv, LedType, OtherPinsKept, CopiesCurrent,
              EveryRequestSwitches, OneSwitching, Switching
<1>2. CASE Next
  BY <1>2, LoadStep, StoreStep, StartStep, RequestStep, KernelStep DEF Next
<1> QED BY <1>1, <1>2

----------------------------------------------------------------------------
(***************************************************************************)
(* The servers change no pin but their own (GPIOFSetDir, GPIOFSetData),    *)
(* except when the kernel writes between their load and their store.       *)
(***************************************************************************)
THEOREM ServersKeepPins == Spec => []OtherPinsKept
<1>1. Inv /\ SwitchInv => OtherPinsKept
  BY DEF Inv
<1> QED BY LedInit, LedStep, <1>1, PTL DEF Spec

(***************************************************************************)
(* Requests that do not overlap all switch the LED, in either server.      *)
(***************************************************************************)
THEOREM RequestsSwitch == Spec => []EveryRequestSwitches
<1>1. Inv /\ SwitchInv => EveryRequestSwitches
  BY DEF SwitchInv
<1> QED BY LedInit, LedStep, <1>1, PTL DEF Spec
=============================================================================
