---------------------------- MODULE MCClientRing ----------------------------
(***************************************************************************)
(* An instance of ClientRing: two clients and the -1 of a failed accept;   *)
(* malloc may return any node.                                             *)
(***************************************************************************)
EXTENDS ClientRing

LOCAL INSTANCE TLC

SomeDescriptors == {4, 5, -1}

NodeSymmetry == Permutations(Nodes)
=============================================================================
