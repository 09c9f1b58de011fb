----------------------------- MODULE MCWifiUart -----------------------------
(* Instances of WifiUart; the nodes malloc returns are interchangeable. *)
EXTENDS WifiUart

LOCAL INSTANCE TLC

OneFd == {4}
TwoFds == {4, 5}

BridgeSymmetry ==
  Permutations(Connections) \cup Permutations(Threads) \cup Permutations(Nodes)
=============================================================================
