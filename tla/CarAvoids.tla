----------------------------- MODULE CarAvoids -----------------------------
(***************************************************************************)
(* The car implements Avoidance.  The driver of Avoidance is the automode  *)
(* thread, its watcher the ultrasonic thread, its motors the PWM channels. *)
(* A notice the thread has received counts as told until its second motor  *)
(* call is done.                                                           *)
(***************************************************************************)
EXTENDS RemoteCar

\* The notice an automode thread is acting on.
InHand ==
  IF \E t \in AutoThreads : autoPc[t] \in {"stopBackward", "setForward"}
  THEN <<"safe">>
  ELSE IF \E t \in AutoThreads : autoPc[t] \in {"stopForward", "setBackward"}
       THEN <<"danger">>
       ELSE << >>

Promise == INSTANCE Avoidance WITH
  Capacity <- QueueMax + 1,
  verdict  <- carDistance,
  told     <- InHand \o queue,
  halted   <- \E t \in AutoThreads : autoPc[t] \in {"setForward", "setBackward"},
  forward  <- out["PWM0"],
  backward <- out["PWM1"]

(***************************************************************************)
(* Every step of the car is a step of Avoidance or none of its business,   *)
(* wherever a MENU finds the threads.  Claimed of a car one client drives  *)
(* by AUTO and MENU only.                                                  *)
(***************************************************************************)
AvoidsObstacles == Promise!Spec

(***************************************************************************)
(* While an automode thread stays, the car also acts on every verdict in   *)
(* the end: it is as fair as the driver of Avoidance.                      *)
(***************************************************************************)
ActsOnEveryVerdict == AutoStays => Promise!Driven
============================================================================
