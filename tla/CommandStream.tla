--------------------------- MODULE CommandStream ---------------------------
(***************************************************************************)
(* One client and the loop of recv, strstr tests and memset that serves    *)
(* it, joined by a TCP stream.  TCP keeps the order of the bytes but not   *)
(* the boundaries of the client's writes: one recv may return several      *)
(* commands, half of one, or both.  Three servers have that loop: the car, *)
(* the earlier car, and the LED server, which accepts one client and       *)
(* switches an LED.  Here all three read the same stream.                  *)
(***************************************************************************)
EXTENDS CarCommands

CONSTANTS
  Vocabulary,   \* the commands this client sends
  MaxIssued     \* bound on the commands issued

ASSUME StreamAssumption ==
  /\ Vocabulary \subseteq Command \cup LedCommand
  /\ MaxIssued \in Nat

VARIABLES
  stream,     \* the words written by the client and not yet received
  issued,     \* history: the commands written, in order
  executed,   \* history: the commands receiveCommand obeyed, in order
  direct,     \* history: those directControl of the earlier car would obey
  onOff,      \* led0.onOff of the LED server
  unset,      \* history: the last setGPIOValue of the LED server failed
  overrun,    \* history: a recv wrote past the five bytes of the LED server's mesg
  pipelined,  \* history: a command was written before the previous was read
  split       \* history: some recv left words of the stream unread

vars == <<stream, issued, executed, direct, onOff, unset, overrun,
          pipelined, split>>

Init ==
  /\ stream = << >>
  /\ issued = << >>
  /\ executed = << >>
  /\ direct = << >>
  /\ onOff = FALSE
  /\ unset = FALSE
  /\ overrun = FALSE
  /\ pipelined = FALSE
  /\ split = FALSE

\* The client writes a command.
Issue(cmd) ==
  /\ Len(issued) < MaxIssued
  /\ stream' = stream \o cmd
  /\ issued' = Append(issued, cmd)
  /\ pipelined' = (pipelined \/ stream # << >>)
  /\ UNCHANGED <<executed, direct, onOff, unset, overrun, split>>

\* The words of the stream a recv returns when it ends after word n, or, if
\* inside, in the middle of word n.
Received(n, inside) ==
  IF inside THEN Append(SubSeq(stream, 1, n - 1), "cut")
            ELSE SubSeq(stream, 1, n)

\* Mutant: the buffer is not cleared, its last word is seen again.
UnreadStale(n, inside) ==
  (IF inside THEN <<"cut">> ELSE << >>) \o SubSeq(stream, n, Len(stream))

Unread(n, inside) ==
  (IF inside THEN <<"cut">> ELSE << >>) \o SubSeq(stream, n + 1, Len(stream))

Obey(log, cmd) == IF cmd = NoCommand THEN log ELSE Append(log, cmd)

\* The buffers: the cars receive up to 4096 bytes into 1024 and then look for
\* the terminating zero; a longer recv is undefined behaviour and left out.
MAXRECVBUFF == 1024
LongestWord == 5

\* The LED server receives them into five.  Every word fits, no two words do.
Overruns(mesg) == Len(mesg) > 1

\* do_echo's chain calls operateLed, whose setGPIOValue may fail.  A recv that
\* overran mesg left bytes behind it that memset never clears and that every
\* later strstr may run into: from then on the LED may do anything.  (A "close"
\* fills mesg to its last byte; what lies behind it holds no "open" unless a
\* recv put it there.)
operateLed(cmd) ==
  \/ overrun' /\ onOff' \in BOOLEAN /\ unset' \in BOOLEAN
  \/ ~overrun' /\ cmd = NoCommand /\ UNCHANGED <<onOff, unset>>
  \/ ~overrun' /\ cmd # NoCommand /\ unset' \in BOOLEAN
       /\ onOff' = (IF unset' THEN onOff ELSE cmd = <<"open">>)

\* One iteration of the loop: recv, the if/else chain, memset(mesg).
ReceiveCommand(n, inside) ==
  /\ stream' = Unread(n, inside)
  /\ executed' = Obey(executed, Dispatch(Received(n, inside)))
  /\ direct' = Obey(direct, DirectDispatch(Received(n, inside)))
  /\ overrun' = (overrun \/ Overruns(Received(n, inside)))
  /\ operateLed(LedDispatch(Received(n, inside)))
  /\ split' = (split \/ stream' # << >>)
  /\ UNCHANGED <<issued, pipelined>>

Next ==
  \/ \E cmd \in Vocabulary : Issue(cmd)
  \/ \E n \in DOMAIN stream, inside \in BOOLEAN :
        /\ inside => stream[n] # "cut"
        /\ LongestWord * n < MAXRECVBUFF
        /\ ReceiveCommand(n, inside)

Spec == Init /\ [][Next]_vars

----------------------------------------------------------------------------
(***************************************************************************)
(* The parts of an issued command that receiveCommand may obey in its      *)
(* place: itself, or a command hidden inside it.                           *)
(***************************************************************************)
ObeysPartOf(cmd, sent) == Occurs(cmd, sent)

(***************************************************************************)
(* Whatever the network coalesces or cuts, the car never obeys a command   *)
(* out of order, twice, or one that no single issued command contains:     *)
(* the obeyed commands match distinct issued ones in increasing order      *)
(* (receiveCommand obeys at most one per recv and clears the buffer).      *)
(***************************************************************************)
ObeysInOrder ==
  \E match \in [DOMAIN executed -> DOMAIN issued] :
     /\ \A k \in DOMAIN executed : ObeysPartOf(executed[k], issued[match[k]])
     /\ \A k, l \in DOMAIN executed : k < l => match[k] < match[l]

(***************************************************************************)
(* The branches of the composite commands (LEFTUPSTART ... RIGHTBACKSTOP)  *)
(* are never taken, however the bytes arrive: each of them contains an UP  *)
(* or BACK command that the chain tests first.                             *)
(***************************************************************************)
CompositesNeverObeyed ==
  \A k \in DOMAIN executed : executed[k] \notin Composite

(***************************************************************************)
(* A client that waits until each command was read, over a network that    *)
(* cuts none of them, is obeyed command for command: a plain command as    *)
(* itself, a composite one as the UP or BACK command it contains.  If its  *)
(* commands also fit the LED server's buffer, the LED shows its last open  *)
(* or close, unless setting the pin failed then.                           *)
(***************************************************************************)
Plain(cmd) == IF cmd \in Composite THEN Tail(cmd) ELSE cmd

PacedClientIsObeyed ==
  (~pipelined /\ ~split /\ stream = << >>) =>
    /\ \E at \in [DOMAIN executed -> DOMAIN issued] :
         /\ \A k, l \in DOMAIN executed : k < l => at[k] < at[l]
         /\ \A i \in DOMAIN issued :
              issued[i] \in LedCommand \/ \E k \in DOMAIN executed : at[k] = i
         /\ \A k \in DOMAIN executed :
              /\ issued[at[k]] \notin LedCommand
              /\ executed[k] = Plain(issued[at[k]])
    /\ ((\A i \in DOMAIN issued : ~Overruns(issued[i])) /\ ~unset) =>
         (onOff <=> \E i \in DOMAIN issued :
                       /\ issued[i] = <<"open">>
                       /\ \A j \in DOMAIN issued : j > i => issued[j] # <<"close">>)

(***************************************************************************)
(* A client of the earlier car, which sends no mode command, is obeyed by  *)
(* the later one exactly as before, however the bytes arrive.              *)
(***************************************************************************)
SameAsEarlierCar ==
  (\A k \in DOMAIN issued : issued[k] \in DriveCommand) => executed = direct
============================================================================
