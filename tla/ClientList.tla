----------------------------- MODULE ClientList -----------------------------
(***************************************************************************)
(* What the client list of the WiFi-UART bridge promises: a sequence of    *)
(* descriptors, appended to at the end, from which the first entry of a    *)
(* descriptor can be deleted.                                              *)
(***************************************************************************)
EXTENDS Integers, SequencesExt

CONSTANT Descriptors

VARIABLES
  members,     \* the descriptors in the order in which they are written to
  ret          \* what the last deleteNode returned

Init == members = <<>> /\ ret = 0

Add(d) == members' = Append(members, d) /\ UNCHANGED ret

Delete(d) ==
  /\ d \in Range(members)
  /\ members' = RemoveFirst(members, d)
  /\ ret' = 0

DeleteUnlisted(d) ==
  /\ d \notin Range(members)
  /\ ret' = -1
  /\ UNCHANGED members

Next == \E d \in Descriptors : Add(d) \/ Delete(d) \/ DeleteUnlisted(d)

Spec == Init /\ [][Next]_<<members, ret>>
=============================================================================
