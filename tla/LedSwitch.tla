----------------------------- MODULE LedSwitch -----------------------------
(***************************************************************************)
(* The LED at pin PF2, switched by the web server (nanopiWeb.go) and by    *)
(* the BLE server (nanopi_ble_server.go) through the Go library GPIO.go.   *)
(* Both programs map the registers of port F and change them by reading a  *)
(* whole register, changing the bits of PF2 and writing the register back. *)
(* Every request has a goroutine of its own.  The kernel drives the other  *)
(* pins of the port for other programs; its drivers exclude each other,    *)
(* but not a program that has mapped the registers.                        *)
(***************************************************************************)
CONSTANTS
  Programs,     \* the servers that share the LED
  Requests      \* bound: the switch requests handled at the same time

ASSUME DistinctAssumption == Programs \cap Requests = {}

Registers == {"GPIOCON", "GPIODAT"}
Pins == {"PF2", "other"}
Threads == Programs \cup Requests     \* main and the handlers

VARIABLES
  register,    \* bit of each pin: GPIOCON output or not, GPIODAT its level
  pc,          \* a thread is "idle", or at "status", "load" or "store";
               \* a main is "off" before and "serves" after its set-up
  status,      \* the level of PF2 each handler read
  copy,        \* the register each thread loaded
  kernel,      \* history: what the kernel last wrote for the other pin
  torn,        \* history: it wrote that between a load and the store
  level,       \* history: the level if every request had switched the LED
  overlapped   \* history: a request read the status during another one

history == <<kernel, torn, level, overlapped>>
\* A local that is not in use.
Clear == [p \in Pins |-> FALSE]

vars == <<register, pc, status, copy, history>>

Init ==
  /\ register \in [Registers -> [Pins -> BOOLEAN]]
  /\ pc = [t \in Threads |-> IF t \in Programs THEN "off" ELSE "idle"]
  /\ status = [t \in Requests |-> FALSE]
  /\ copy = [t \in Threads |-> Clear]
  /\ kernel = [r \in Registers |-> register[r]["other"]]
  /\ torn = [r \in Registers |-> FALSE]
  /\ level = register["GPIODAT"]["PF2"]
  /\ overlapped = FALSE

Goto(t, l) == pc' = [pc EXCEPT ![t] = l]

----------------------------------------------------------------------------
(* GPIO.go: GPIOFSetDir changes GPIOCON, GPIOFSetData GPIODAT.             *)

Target(t) == IF t \in Programs THEN "GPIOCON" ELSE "GPIODAT"

Load(t) ==
  /\ pc[t] = "load"
  /\ copy' = [copy EXCEPT ![t] = register[Target(t)]]
  /\ Goto(t, "store")
  /\ UNCHANGED <<register, status, history>>

\* Mutant: the register is written with the bit of PF2 alone.
WithBitAlone(old, bit) == [p \in Pins |-> p = "PF2" /\ bit]
WithBit(old, bit) == [old EXCEPT !["PF2"] = bit]

\* The level that follows the one read.  Mutant: the LED only goes on.
SwitchedOn(on) == TRUE
Switched(on) == ~on

Store(t) ==
  /\ pc[t] = "store"
  /\ register' = [register EXCEPT ![Target(t)] =
       WithBit(copy[t], IF t \in Programs THEN TRUE ELSE Switched(status[t]))]
  /\ Goto(t, IF t \in Programs THEN "serves" ELSE "idle")
  /\ level' = IF t \in Requests THEN ~level ELSE level
  /\ copy' = [copy EXCEPT ![t] = Clear]
  /\ status' = [h \in Requests |-> h # t /\ status[h]]
  /\ UNCHANGED <<kernel, torn, overlapped>>

----------------------------------------------------------------------------
(* The programs: main makes PF2 an output, then requests come: a POST of   *)
(* the Switch button, a BLE write that contains LedSwitch.  Other requests *)
(* only read.                                                              *)

Start(p) ==
  /\ pc[p] = "off"
  /\ Goto(p, "load")
  /\ UNCHANGED <<register, status, copy, history>>

Request(h) ==
  /\ pc[h] = "idle" /\ \E p \in Programs : pc[p] = "serves"
  /\ Goto(h, "status")
  /\ UNCHANGED <<register, status, copy, history>>

Switching == {h \in Requests : pc[h] \in {"load", "store"}}

ReadStatus(h) ==
  /\ pc[h] = "status"
  /\ status' = [status EXCEPT ![h] = register["GPIODAT"]["PF2"]]
  /\ overlapped' = (overlapped \/ Switching # {})
  /\ Goto(h, "load")
  /\ UNCHANGED <<register, copy, kernel, torn, level>>

\* The kernel sets the direction or the level of the other pin.
KernelSets(r, bit) ==
  /\ register' = [register EXCEPT ![r]["other"] = bit]
  /\ kernel' = [kernel EXCEPT ![r] = bit]
  /\ torn' = [torn EXCEPT ![r] = \E t \in Threads : pc[t] = "store" /\ Target(t) = r]
  /\ UNCHANGED <<pc, status, copy, level, overlapped>>

Next ==
  \/ \E t \in Threads : Load(t) \/ Store(t)
  \/ \E p \in Programs : Start(p)
  \/ \E h \in Requests : Request(h) \/ ReadStatus(h)
  \/ \E r \in Registers, bit \in BOOLEAN : KernelSets(r, bit)

Spec == Init /\ [][Next]_vars

----------------------------------------------------------------------------
(***************************************************************************)
(* The servers change no pin but their own: the other pin is as the kernel *)
(* left it, unless the kernel wrote it last between a load and the store   *)
(* of a server, however the requests and the starts interleave.            *)
(***************************************************************************)
OtherPinsKept ==
  \A r \in Registers : ~torn[r] => register[r]["other"] = kernel[r]

(***************************************************************************)
(* Every request switches the LED, whichever server received it, as long   *)
(* as no request reads the level while another is between reading and      *)
(* writing it; torn stores of the other pin do not matter.                 *)
(***************************************************************************)
EveryRequestSwitches ==
  ~overlapped => (register["GPIODAT"]["PF2"] <=> level)
=============================================================================
