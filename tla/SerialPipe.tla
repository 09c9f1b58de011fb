----------------------------- MODULE SerialPipe -----------------------------
(***************************************************************************)
(* What a bridge ("wifi uart transparent") does for the way from the       *)
(* clients to the serial line.  Carriers take runs of a client's bytes and *)
(* deliver each in one piece, interrupted by nobody's.  As long as one     *)
(* carrier at a time takes from a client, the client's bytes arrive in     *)
(* order; a client that is shared by two may find them in another.  An     *)
(* exact bridge delivers each run whole; the other one stops before the    *)
(* first zero byte of a run, and may add bytes nobody sent to the first    *)
(* run a carrier delivers.                                                 *)
(***************************************************************************)
EXTENDS Integers, Sequences

CONSTANTS Clients, Nobody, Carriers, Bytes,
          Noise        \* what may follow a first run

VARIABLES
  stream,   \* the bytes of each client on their way
  hand,     \* what each carrier holds: the client it is from, and the run
  shared,   \* the clients that more than one carrier takes from
  line,     \* the bytes on the serial line
  fresh,    \* the carriers that have delivered nothing yet
  exact

vars == <<stream, hand, shared, line, fresh, exact>>

Empty == [from |-> Nobody, run |-> << >>]

Init ==
  /\ stream = [c \in Clients |-> << >>]
  /\ hand = [k \in Carriers |-> Empty]
  /\ shared = {}
  /\ line = << >>
  /\ fresh = Carriers
  /\ exact \in BOOLEAN

Send(c, b) ==
  /\ stream' = [stream EXCEPT ![c] = Append(@, b)]
  /\ UNCHANGED <<hand, shared, line, fresh, exact>>

Share(c) ==
  /\ shared' = shared \cup {c}
  /\ UNCHANGED <<stream, hand, line, fresh, exact>>

Take(k, c, n) ==
  /\ hand[k] = Empty
  /\ c \notin shared => \A other \in Carriers : hand[other].from # c
  /\ hand' = [hand EXCEPT ![k] = [from |-> c, run |-> SubSeq(stream[c], 1, n)]]
  /\ stream' = [stream EXCEPT ![c] = SubSeq(@, n + 1, Len(@))]
  /\ UNCHANGED <<shared, line, fresh, exact>>

NoZero(s) == \A i \in DOMAIN s : s[i] # 0

\* The parts of a run that may arrive.
Arrives(k, run) ==
  IF exact THEN {run}
  ELSE IF NoZero(run)
  THEN {run} \cup (IF k \in fresh THEN {run \o n : n \in Noise} ELSE {})
  ELSE {SubSeq(run, 1, n - 1) : n \in {i \in DOMAIN run :
          run[i] = 0 /\ NoZero(SubSeq(run, 1, i - 1))}}

Deliver(k) ==
  /\ hand[k] # Empty
  /\ \E part \in Arrives(k, hand[k].run) : line' = line \o part
  /\ hand' = [hand EXCEPT ![k] = Empty]
  /\ fresh' = fresh \ {k}
  /\ UNCHANGED <<stream, shared, exact>>

Next ==
  \/ \E c \in Clients : \E b \in Bytes : Send(c, b)
  \/ \E c \in Clients : Share(c)
  \/ \E c \in Clients, k \in Carriers : \E n \in DOMAIN stream[c] : Take(k, c, n)
  \/ \E k \in Carriers : Deliver(k)

Spec == Init /\ [][Next]_vars
=============================================================================
