---------------------------- MODULE MCLedSwitch ----------------------------
(* Instance of LedSwitch: programs and requests are interchangeable. *)
EXTENDS LedSwitch

LOCAL INSTANCE TLC

LedSymmetry == Permutations(Programs) \cup Permutations(Requests)
=============================================================================
