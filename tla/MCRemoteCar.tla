---------------------------- MODULE MCRemoteCar ----------------------------
(***************************************************************************)
(* Instances of RemoteCar for TLC: what the clients send.                  *)
(***************************************************************************)
EXTENDS RemoteCar

LOCAL INSTANCE TLC

\* The two mode commands.
Modes == { <<"AUTO">>, <<"MENU">> }
\* Every command, and two that arrived in one recv.
Everything == Command \cup { <<"UP", "START", "UP", "STOP">> }

\* The threads of a kind are interchangeable (only safety is checked with it).
ThreadSymmetry ==
  Permutations(Receivers) \cup Permutations(AutoThreads) \cup Permutations(UltraThreads)
============================================================================
