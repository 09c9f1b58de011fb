------------------------------ MODULE MCHcsr04 ------------------------------
(* Instances of Hcsr04; the callers are interchangeable for safety. *)
EXTENDS Hcsr04

LOCAL INSTANCE TLC

CallerSymmetry == Permutations(Callers)
============================================================================
