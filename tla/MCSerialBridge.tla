--------------------------- MODULE MCSerialBridge ---------------------------
(***************************************************************************)
(* Instance of SerialBridge: a client of two bytes and one of a single     *)
(* byte, out of the zero byte that strlen stops at and a byte of eight     *)
(* bits that seven would not keep, and one byte of noise.                  *)
(***************************************************************************)
EXTENDS SerialBridge

LOCAL INSTANCE TLC

CONSTANTS c1, c2

TwoAndOne == (c1 :> 2) @@ (c2 :> 1)
SomeBytes == {0, 193}
OneNoise == {<<9>>}
=============================================================================
