---------------------------- MODULE CarCommands ----------------------------
(***************************************************************************)
(* The command language of the smart car: how receiveCommand (remotCar/    *)
(* Matrix-remotecar.c) picks the one command it obeys out of the bytes a   *)
(* recv returned, and which outputs each command drives.                   *)
(*                                                                         *)
(* A command is a short sequence of words ("LEFTUPSTART" is <<"LEFT",      *)
(* "UP", "START">>), the received bytes are a sequence of words, and       *)
(* strstr finds a command when its words occur in a row.  A word that the  *)
(* network cut in two matches nothing: it is the word "cut".               *)
(***************************************************************************)
EXTENDS Integers, Sequences, FiniteSetsExt

(***************************************************************************)
(* The strstr tests of receiveCommand in the order of its if/else chain.   *)
(***************************************************************************)
Chain ==
  << <<"AUTO">>, <<"MENU">>,
     <<"UP", "START">>,            <<"UP", "STOP">>,
     <<"BACK", "START">>,          <<"BACK", "STOP">>,
     <<"LEFT", "START">>,          <<"LEFT", "STOP">>,
     <<"LEFT", "UP", "START">>,    <<"LEFT", "UP", "STOP">>,
     <<"LEFT", "BACK", "START">>,  <<"LEFT", "BACK", "STOP">>,
     <<"RIGHT", "START">>,         <<"RIGHT", "STOP">>,
     <<"RIGHT", "UP", "START">>,   <<"RIGHT", "UP", "STOP">>,
     <<"RIGHT", "BACK", "START">>, <<"RIGHT", "BACK", "STOP">> >>

Words ==
  {"AUTO", "MENU", "UP", "BACK", "LEFT", "RIGHT", "START", "STOP",
   "open", "close", "cut"}

Command == {Chain[k] : k \in DOMAIN Chain}

\* The commands that steer and drive at once.
Composite == {c \in Command : Len(c) = 3}

NoCommand == << >>

\* strstr(mesg, tok) # NULL.
Occurs(tok, mesg) ==
  \E i \in 0 .. Len(mesg) - Len(tok) :
     \A j \in 1 .. Len(tok) : mesg[i + j] = tok[j]

\* The branch an if/else chain of strstr tests takes: the first that succeeds.
FirstIn(chain, mesg) ==
  LET matching == {k \in DOMAIN chain : Occurs(chain[k], mesg)}
  IN  IF matching = {} THEN NoCommand ELSE chain[Min(matching)]

\* Mutant: the chain as one would write it, composites first.
DispatchCompositesFirst(mesg) ==
  FirstIn(SubSeq(Chain, 9, 12) \o SubSeq(Chain, 15, 18) \o SubSeq(Chain, 1, 8)
            \o SubSeq(Chain, 13, 14), mesg)

Dispatch(mesg) == FirstIn(Chain, mesg)

(***************************************************************************)
(* The earlier car (nanopi2/RemoteCar/Matrix-remotecar.c, directControl)   *)
(* has no modes and no composite commands.                                 *)
(***************************************************************************)
DirectChainStopsFirst ==   \* mutant: each STOP is tested before its START
  << <<"UP", "STOP">>,   <<"UP", "START">>,   <<"BACK", "STOP">>,  <<"BACK", "START">>,
     <<"LEFT", "STOP">>, <<"LEFT", "START">>, <<"RIGHT", "STOP">>, <<"RIGHT", "START">> >>

DirectChain ==
  << <<"UP", "START">>,   <<"UP", "STOP">>,   <<"BACK", "START">>,  <<"BACK", "STOP">>,
     <<"LEFT", "START">>, <<"LEFT", "STOP">>, <<"RIGHT", "START">>, <<"RIGHT", "STOP">> >>

DirectDispatch(mesg) == FirstIn(DirectChain, mesg)

(***************************************************************************)
(* The LED server (nanopiWIFI/Matrix-wificom.c, do_echo) knows two words.  *)
(***************************************************************************)
LedChain == << <<"open">>, <<"close">> >>
LedCommand == {LedChain[k] : k \in DOMAIN LedChain}
LedDispatch(mesg) == FirstIn(LedChain, mesg)

(***************************************************************************)
(* The outputs: two PWM channels and four GPIO pins.  Since the drive      *)
(* moved to PWM (setforward ... stopbackward), the plain UP and BACK       *)
(* commands drive PWM0 and PWM1, the composite ones still the pins.        *)
(***************************************************************************)
Outputs ==
  {"PWM0", "PWM1", "forwardPin", "backwardPin", "leftPin", "rightPin"}

Targets(cmd) ==
  CASE cmd[1] = "UP"   -> {"PWM0"}
    [] cmd[1] = "BACK" -> {"PWM1"}
    [] cmd[1] \in {"LEFT", "RIGHT"} ->
         {IF cmd[1] = "LEFT" THEN "leftPin" ELSE "rightPin"}
           \cup (IF Len(cmd) = 2 THEN {}
                 ELSE IF cmd[2] = "UP" THEN {"forwardPin"}
                                       ELSE {"backwardPin"})

\* START commands raise their outputs, STOP commands lower them.
Level(cmd) == cmd[Len(cmd)] = "START"

DriveCommand == Command \ {<<"AUTO">>, <<"MENU">>}
============================================================================
