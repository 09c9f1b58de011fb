----------------------------- MODULE Avoidance -----------------------------
(***************************************************************************)
(* What obstacle avoidance promises (README.md 3.2.3.1), without threads,  *)
(* signals or control points: every change of the verdict is told to the   *)
(* driver, who acts on them one by one and in order; acting means halting  *)
(* the motor of the other direction before driving in the new one.         *)
(***************************************************************************)
EXTENDS Integers, Sequences

CONSTANT Capacity   \* verdicts that can wait for the driver

VARIABLES
  verdict,    \* what the watcher told last
  told,       \* the verdicts the driver has not acted on, oldest first
  halted,     \* the driver has halted the motor that Head(told) opposes
  forward,    \* the forward motor is on
  backward    \* the backward motor is on

vars == <<verdict, told, halted, forward, backward>>

Init ==
  /\ verdict = "safe"
  /\ told = << >>
  /\ halted = FALSE
  /\ forward = FALSE
  /\ backward = FALSE

Tell(v) ==
  /\ v # verdict
  /\ Len(told) < Capacity
  /\ verdict' = v
  /\ told' = Append(told, v)
  /\ UNCHANGED <<halted, forward, backward>>

Halt ==
  /\ told # << >> /\ ~halted
  /\ halted' = TRUE
  /\ IF Head(told) = "safe"
     THEN backward' = FALSE /\ UNCHANGED forward
     ELSE forward' = FALSE /\ UNCHANGED backward
  /\ UNCHANGED <<verdict, told>>

Drive ==
  /\ halted
  /\ halted' = FALSE
  /\ told' = Tail(told)
  /\ IF Head(told) = "safe"
     THEN forward' = TRUE /\ UNCHANGED backward
     ELSE backward' = TRUE /\ UNCHANGED forward
  /\ UNCHANGED verdict

Next == (\E v \in {"safe", "danger"} : Tell(v)) \/ Halt \/ Drive

Spec == Init /\ [][Next]_vars

\* The driver keeps driving.
Driven == WF_vars(Halt \/ Drive)
============================================================================
