---------------------------- MODULE MCCarAvoids ----------------------------
(* Instances of CarAvoids. *)
EXTENDS MCRemoteCar, CarAvoids
============================================================================
