------------------------- MODULE SerialBridgeProofs -------------------------
(***************************************************************************)
(* Proofs about the bytes that pass through the bridges, for any clients,  *)
(* any bytes, any noise and any failures.                                  *)
(***************************************************************************)
EXTENDS SerialBridge, SequenceTheorems, WellFoundedInduction, TLAPS

Byte == 0 .. 255
AsSetUp == SetOpt(9600, 8, "N", 1)

(***************************************************************************)
(* The port as main sets it up keeps every byte, both ways.                *)
(***************************************************************************)
LEMMA EightBitsKept ==
  \A b \in Byte : OnLine(AsSetUp, b) = b /\ FromLine(AsSetUp, b) = b
<1>1. AsSetUp.size = 8 /\ AsSetUp.iflag = {}
  BY DEF AsSetUp, SetOpt
<1>2. 2 ^ AsSetUp.size = 256
  <2>1. 2 ^ 8 = 256
    OBVIOUS
  <2> QED BY <1>1, <2>1
<1>3. \A b \in Byte : b % 256 = b
  BY DEF Byte
<1> QED BY <1>1, <1>2, <1>3 DEF OnLine, FromLine

(***************************************************************************)
(* The first n of a sequence and the rest of it make the sequence.         *)
(***************************************************************************)
LEMMA CutInTwo ==
  ASSUME NEW S, NEW seq \in Seq(S), NEW n \in DOMAIN seq
  PROVE  /\ SubSeq(seq, 1, n) \in Seq(S) /\ Len(SubSeq(seq, 1, n)) = n
         /\ \A i \in 1 .. n : SubSeq(seq, 1, n)[i] = seq[i]
         /\ SubSeq(seq, n + 1, Len(seq)) \in Seq(S)
         /\ SubSeq(seq, 1, n) \o SubSeq(seq, n + 1, Len(seq)) = seq
<1>1. PICK l \in Nat : l = Len(seq)
  OBVIOUS
<1>2. n \in 1 .. l /\ \A i \in 1 .. l : seq[i] \in S
  BY <1>1
<1>3. /\ SubSeq(seq, 1, n) \in Seq(S) /\ Len(SubSeq(seq, 1, n)) = n
      /\ \A i \in 1 .. n : SubSeq(seq, 1, n)[i] = seq[i]
  <2>1. /\ SubSeq(seq, 1, n) \in Seq(S) /\ Len(SubSeq(seq, 1, n)) = n - 1 + 1
        /\ \A i \in 1 .. n - 1 + 1 : SubSeq(seq, 1, n)[i] = seq[1 + i - 1]
    <3>1. 1 \in Int /\ n \in Int /\ 1 <= n /\ \A i \in 1 .. n : seq[i] \in S
      BY <1>2
    <3> QED BY <3>1, SubSeqProperties
  <2>2. n - 1 + 1 = n /\ \A i \in 1 .. n : 1 + i - 1 = i
    BY <1>2
  <2> QED BY <2>1, <2>2
<1>4. SubSeq(seq, n + 1, l) \in Seq(S)
  <2>1. n + 1 \in Int /\ l \in Int /\ \A i \in n + 1 .. l : seq[i] \in S
    BY <1>1, <1>2
  <2> QED BY <2>1, SubSeqProperties
<1>5. SubSeq(seq, 1, n) \o SubSeq(seq, n + 1, l) = SubSeq(seq, 1, l)
  <2>1. 1 \in 1 .. l + 1 /\ n \in 1 - 1 .. l /\ l \in n .. l
    BY <1>1, <1>2
  <2> QED BY <1>1, <2>1, ConcatAdjacentSubSeq
<1> QED BY <1>1, <1>3, <1>4, <1>5, SubSeqFull

(***************************************************************************)
(* A byte added to the second of two sequences is added to both together.  *)
(***************************************************************************)
LEMMA AppendBehind ==
  ASSUME NEW S, NEW s \in Seq(S), NEW t \in Seq(S), NEW b \in S
  PROVE  s \o Append(t, b) = Append(s \o t, b)
<1>1. s \o t \in Seq(S) /\ <<b>> \in Seq(S)
  BY ConcatProperties
<1>2. Append(t, b) = t \o <<b>> /\ Append(s \o t, b) = (s \o t) \o <<b>>
  BY <1>1, AppendIsConcat
<1>3. (s \o t) \o <<b>> = s \o (t \o <<b>>)
  BY <1>1, ConcatAssociative
<1> QED BY <1>2, <1>3

(***************************************************************************)
(* strlen counts up to the first zero byte, or all when there is none.     *)
(***************************************************************************)
LEMMA UpToZeroStops ==
  ASSUME NEW buf \in Seq(Byte)
  PROVE  \E m \in 0 .. Len(buf) :
           /\ UpToZero(buf) = SubSeq(buf, 1, m)
           /\ UpToZero(buf) \in Seq(Byte) /\ Len(UpToZero(buf)) = m
           /\ \A i \in 1 .. m : UpToZero(buf)[i] = buf[i] /\ buf[i] # 0
           /\ m < Len(buf) => buf[m + 1] = 0
<1>1. PICK l \in Nat : l = Len(buf)
  OBVIOUS
<1>2. ASSUME NEW m \in 0 .. l
      PROVE  /\ SubSeq(buf, 1, m) \in Seq(Byte) /\ Len(SubSeq(buf, 1, m)) = m
             /\ \A i \in 1 .. m : SubSeq(buf, 1, m)[i] = buf[i]
  <2>1. CASE m = 0
    <3>1. SubSeq(buf, 1, m) = << >>
      BY <2>1, SubSeqEmpty
    <3> QED BY <2>1, <3>1
  <2>2. CASE m # 0
    <3>1. m \in DOMAIN buf
      BY <1>1, <2>2
    <3> QED BY <3>1, CutInTwo
  <2> QED BY <2>1, <2>2
<1> DEFINE zeros == {i \in 1 .. l : buf[i] = 0}
<1>3. PICK m \in 0 .. l :
        /\ \A i \in 1 .. m : buf[i] # 0
        /\ m < l => buf[m + 1] = 0
  <2>1. CASE zeros = {}
    <3>1. l \in 0 .. l /\ ~(l < l)
      BY <1>1
    <3> QED BY <2>1, <3>1
  <2>2. CASE zeros # {}
    <3>1. zeros \subseteq Nat
      OBVIOUS
    <3>2. PICK x \in zeros : \A y \in zeros : ~(<<y, x>> \in OpToRel(<, Nat))
      BY <2>2, <3>1, WFMin, NatLessThanWellFounded
    <3>3. \A y \in zeros : ~(y < x)
      BY <3>1, <3>2 DEF OpToRel
    <3> HIDE DEF zeros
    <3>4. x \in 1 .. l /\ buf[x] = 0
      BY <3>2 DEF zeros
    <3>5. x - 1 \in 0 .. l /\ (x - 1) + 1 = x
      BY <1>1, <3>4
    <3>6. ASSUME NEW i \in 1 .. x - 1 PROVE i \in 1 .. l /\ i < x
      BY <1>1, <3>4
    <3>7. \A i \in 1 .. x - 1 : buf[i] # 0
      BY <3>3, <3>6 DEF zeros
    <3> QED BY <3>4, <3>5, <3>7
  <2> QED BY <2>1, <2>2
<1> DEFINE parts == {SubSeq(buf, 1, n) : n \in 0 .. Len(buf)}
           Stops(s) == /\ \A i \in DOMAIN s : s[i] # 0
                       /\ Len(s) < Len(buf) => buf[Len(s) + 1] = 0
<1>4. SubSeq(buf, 1, m) \in parts /\ Stops(SubSeq(buf, 1, m))
  <2>1. DOMAIN SubSeq(buf, 1, m) = 1 .. m
    BY <1>2, LenProperties
  <2> QED BY <1>1, <1>2, <1>3, <2>1
<1>5. UpToZero(buf) = CHOOSE s \in parts : Stops(s)
  BY DEF UpToZero
<1>6. UpToZero(buf) \in parts /\ Stops(UpToZero(buf))
  <2> HIDE DEF parts, Stops
  <2> QED BY <1>4, <1>5
<1>7. PICK k \in 0 .. l : UpToZero(buf) = SubSeq(buf, 1, k)
  BY <1>1, <1>6
<1>8. DOMAIN UpToZero(buf) = 1 .. k
  BY <1>2, <1>7, LenProperties
<1>9. /\ UpToZero(buf) \in Seq(Byte) /\ Len(UpToZero(buf)) = k
      /\ \A i \in 1 .. k : UpToZero(buf)[i] = buf[i]
  BY <1>2, <1>7
<1>10. \A i \in 1 .. k : buf[i] # 0
  BY <1>6, <1>8, <1>9
<1>11. k < l => buf[k + 1] = 0
  BY <1>1, <1>6, <1>9
<1> QED BY <1>1, <1>7, <1>9, <1>10, <1>11
----------------------------------------------------------------------------
(* Types, and who is where. *)

Types ==
  /\ program \in {"wifiuart", "wificom"}
  /\ main \in {"setup", "accept", "create", "serves", "exited"}
  /\ main # "setup" => termios = AsSetUp
  /\ conn \in [Clients -> {"away", "waiting", "connected", "left"}]
  /\ file \in [Fds -> Clients \cup {Nobody}]
  /\ pc \in [Threads ->
               {"none", "start", "recv", "waits", "got", "write", "close", "exited"}]
  /\ DOMAIN fd = Threads
  /\ served \in [Threads -> Clients \cup {Nobody}]
  /\ stream \in [Clients -> Seq(Bytes)]
  /\ mesg \in [Threads -> Seq(Byte)]
  /\ fresh \subseteq Threads
  /\ line \in Seq(Byte)
  /\ uart2WiFi \in BOOLEAN
  /\ incoming \in Seq(Bytes) /\ shown \in Seq(Bytes) /\ arrived \in Seq(Bytes)

(***************************************************************************)
(* wificom has one loop, on the descriptor that its only accept returned,  *)
(* and enters it when it has created the UART thread.                      *)
(***************************************************************************)
Single ==
  /\ uart2WiFi => program = "wificom" /\ main \in {"serves", "exited"}
  /\ program = "wificom" =>
       /\ \A t, u \in Threads : pc[t] # "none" /\ pc[u] # "none" => t = u
       /\ \A t \in Threads : pc[t] # "none" =>
            /\ main \in {"serves", "exited"}
            /\ pc[t] \in {"recv", "waits", "got", "write"}
            /\ fd[t] = clifd /\ Handoff!IsOpen(clifd)

(***************************************************************************)
(* What a loop waits on, or holds a message of, is a client; and a client  *)
(* that two loops have waited on is known to be shared.                    *)
(***************************************************************************)
SharedKnown ==
  /\ \A t \in Threads : pc[t] \in {"waits", "got", "write"} => served[t] \in Clients
  /\ \A t, u \in Threads :
       t # u /\ served[t] = served[u] /\ served[t] \in Clients => served[t] \in shared

\* The semaphore admits one thread of wifiuart to write.
OneWriter ==
  /\ program = "wifiuart" => /\ uart_sem \in {0, 1}
                             /\ (\E t \in Threads : pc[t] = "write") => uart_sem = 0
  /\ \A t, u \in Threads : pc[t] = "write" /\ pc[u] = "write" => t = u

(***************************************************************************)
(* What the UART thread has sent and what read has yet to return is what   *)
(* the UART received: as long as wificom's client is there, and before     *)
(* the UART thread runs, when nothing is sent or read.                     *)
(***************************************************************************)
Seen == shown \o incoming = arrived

BackInv ==
  /\ ~uart2WiFi => Seen
  /\ program = "wificom" /\ Accepted # Nobody /\ conn[Accepted] = "connected" => Seen

LEMMA BytesAreBytes == Bytes \subseteq Byte /\ Seq(Bytes) \subseteq Seq(Byte)
<1>1. Bytes \subseteq Byte
  BY SerialAssumption DEF Byte
<1>2. ASSUME NEW s \in Seq(Bytes) PROVE s \in Seq(Byte)
  BY <1>1, SeqMonotonic
<1> QED BY <1>1, <1>2

LEMMA NoiseIsBytes == Noise \subseteq Seq(1 .. 255) /\ Noise \subseteq Seq(Byte)
<1>1. ASSUME NEW s \in Noise PROVE s \in Seq(Byte)
  <2>1. s \in Seq(1 .. 255) /\ 1 .. 255 \subseteq Byte
    BY SerialAssumption DEF Byte
  <2> QED BY <2>1, SeqMonotonic
<1> QED BY <1>1, SerialAssumption

(***************************************************************************)
(* What the UART thread sends are the bytes it read, with which the others *)
(* make what it found.                                                     *)
(***************************************************************************)
Sent(n) == [i \in 1 .. n |-> FromLine(termios, incoming[i])]

LEMMA SentAsRead ==
  ASSUME Types, termios = AsSetUp, NEW n \in DOMAIN incoming
  PROVE  /\ Sent(n) \in Seq(Bytes)
         /\ SubSeq(incoming, n + 1, Len(incoming)) \in Seq(Bytes)
         /\ Sent(n) \o SubSeq(incoming, n + 1, Len(incoming)) = incoming
<1>1. incoming \in Seq(Bytes)
  BY DEF Types
<1>2. /\ SubSeq(incoming, 1, n) \in Seq(Bytes) /\ Len(SubSeq(incoming, 1, n)) = n
      /\ \A i \in 1 .. n : SubSeq(incoming, 1, n)[i] = incoming[i]
      /\ SubSeq(incoming, n + 1, Len(incoming)) \in Seq(Bytes)
      /\ SubSeq(incoming, 1, n) \o SubSeq(incoming, n + 1, Len(incoming)) = incoming
  BY <1>1, CutInTwo
<1>3. ASSUME NEW i \in 1 .. n PROVE FromLine(termios, incoming[i]) = incoming[i]
  <2>1. incoming[i] \in Bytes
    BY <1>1
  <2> QED BY <2>1, BytesAreBytes, EightBitsKept
<1>4. SubSeq(incoming, 1, n) = [i \in 1 .. n |-> incoming[i]]
  BY <1>2
<1>5. Sent(n) = SubSeq(incoming, 1, n)
  BY <1>3, <1>4 DEF Sent
<1> QED BY <1>2, <1>5

(***************************************************************************)
(* What the steps of the hand-off, and of the clients, leave alone.        *)
(***************************************************************************)
LEMMA AcceptShape ==
  ASSUME Types, Accept
  PROVE  /\ main = "accept" /\ main' = "create"
         /\ file' \in [Fds -> Clients \cup {Nobody}]
         /\ conn' \in [Clients -> {"away", "waiting", "connected", "left"}]
         /\ UNCHANGED <<port, sending, loops, shared, back, pc, fd, served>>
<1> USE DEF Types
<1>1. main = "accept" /\ main' = "create"
      /\ UNCHANGED <<port, sending, loops, shared, back, pc, fd, served>>
  BY DEF Accept, Handoff!Accept
<1>2. ASSUME UNCHANGED <<file, conn>>
      PROVE  /\ file' \in [Fds -> Clients \cup {Nobody}]
             /\ conn' \in [Clients -> {"away", "waiting", "connected", "left"}]
  BY <1>2
<1>3. ASSUME NEW c \in Clients,
             file' = [file EXCEPT ![Handoff!Min(Handoff!FreeFds)] = c],
             conn' = [conn EXCEPT ![c] = "connected"]
      PROVE  /\ file' \in [Fds -> Clients \cup {Nobody}]
             /\ conn' \in [Clients -> {"away", "waiting", "connected", "left"}]
  BY <1>3
<1>4. \/ UNCHANGED <<file, conn>>
      \/ \E c \in Clients : /\ file' = [file EXCEPT ![Handoff!Min(Handoff!FreeFds)] = c]
                            /\ conn' = [conn EXCEPT ![c] = "connected"]
  <2>1. Handoff!Accept
    BY DEF Accept
  <2> QED BY <2>1 DEF Handoff!Accept, Handoff!kernel
<1>5. /\ file' \in [Fds -> Clients \cup {Nobody}]
      /\ conn' \in [Clients -> {"away", "waiting", "connected", "left"}]
  BY <1>2, <1>3, <1>4
<1> QED BY <1>1, <1>5

LEMMA CreateShape ==
  ASSUME Types, CreateThread
  PROVE  /\ program = "wifiuart" /\ main = "create" /\ main' = "accept"
         /\ UNCHANGED <<port, sending, loops, shared, back, clifd, file, conn, fd, served>>
         /\ \/ pc' = pc
            \/ \E t \in Threads : pc[t] = "none" /\ pc' = [pc EXCEPT ![t] = "start"]
BY DEF CreateThread, Handoff!Create, Handoff!kernel

LEMMA CopyShape ==
  ASSUME Types, NEW t \in Threads, CopyFd(t)
  PROVE  /\ pc[t] = "start" /\ pc' = [pc EXCEPT ![t] = "recv"]
         /\ fd' = [fd EXCEPT ![t] = clifd]
         /\ UNCHANGED <<port, sending, loops, shared, back, main, clifd, file, conn, served>>
BY DEF CopyFd, Handoff!CopyFd, Handoff!kernel

LEMMA CallRecvShape ==
  ASSUME Types, NEW t \in Threads, CallRecv(t)
  PROVE  /\ pc[t] = "recv"
         /\ UNCHANGED <<port, sending, loops, back, main, clifd, file, conn, fd>>
         /\ \/ /\ Handoff!IsOpen(fd[t]) /\ file[fd[t]] \in Clients
               /\ served' = [served EXCEPT ![t] = file[fd[t]]]
               /\ pc' = [pc EXCEPT ![t] = "waits"]
            \/ /\ ~Handoff!IsOpen(fd[t])
               /\ pc' = [pc EXCEPT ![t] = "close"] /\ served' = served
         /\ \/ shared' = shared /\ (Handoff!IsOpen(fd[t]) => Others(t) = {})
            \/ Handoff!IsOpen(fd[t]) /\ shared' = shared \cup {file[fd[t]]}
<1>1. Handoff!CallRecv(t) /\ UNCHANGED <<port, sending, loops, back>>
  BY DEF CallRecv
<1>2. pc[t] = "recv" /\ UNCHANGED <<main, clifd, file, conn, fd>>
  BY <1>1 DEF Handoff!CallRecv, Handoff!kernel
<1>3. Handoff!IsOpen(fd[t]) => file[fd[t]] \in Clients
  BY DEF Handoff!IsOpen, Types
<1>4. \/ /\ Handoff!IsOpen(fd[t]) /\ file[fd[t]] \in Clients
         /\ served' = [served EXCEPT ![t] = file[fd[t]]]
         /\ pc' = [pc EXCEPT ![t] = "waits"]
      \/ /\ ~Handoff!IsOpen(fd[t])
         /\ pc' = [pc EXCEPT ![t] = "close"] /\ served' = served
  BY <1>1, <1>3 DEF Handoff!CallRecv
<1>5. \/ shared' = shared /\ (Handoff!IsOpen(fd[t]) => Others(t) = {})
      \/ Handoff!IsOpen(fd[t]) /\ shared' = shared \cup {file[fd[t]]}
  BY DEF CallRecv
<1> QED BY <1>1, <1>2, <1>4, <1>5

LEMMA EndShape ==
  ASSUME Types, NEW t \in Threads, EndOfStream(t)
  PROVE  /\ program = "wifiuart" /\ pc[t] = "waits" /\ pc' = [pc EXCEPT ![t] = "close"]
         /\ UNCHANGED <<port, sending, loops, shared, back, main, clifd, file, conn,
                        fd, served>>
BY DEF EndOfStream, Handoff!EndOfStream, Handoff!kernel

LEMMA CloseShape ==
  ASSUME Types, NEW t \in Threads, Close(t)
  PROVE  /\ pc[t] = "close" /\ pc' = [pc EXCEPT ![t] = "exited"]
         /\ file' \in [Fds -> Clients \cup {Nobody}]
         /\ UNCHANGED <<port, sending, loops, shared, back, main, clifd, conn, fd, served>>
<1> USE DEF Types
<1>1. pc[t] = "close" /\ pc' = [pc EXCEPT ![t] = "exited"]
      /\ UNCHANGED <<port, sending, loops, shared, back, main, clifd, conn, fd, served>>
  BY DEF Close, Handoff!Close, Goto, StaysHandedOff
<1>2. CASE file' = file
  BY <1>1, <1>2
<1>3. CASE file' = [file EXCEPT ![Handoff!ClosedFd(t)] = Nobody]
  BY <1>1, <1>3
<1> QED BY <1>1, <1>2, <1>3 DEF Close, Handoff!Close, StaysHandedOff

LEMMA ClientShape ==
  ASSUME Types, NEW c \in Clients, ConnectOrLeave(c)
  PROVE  /\ conn' \in [Clients -> {"away", "waiting", "connected", "left"}]
         /\ \A d \in Clients : conn'[d] = "connected" => conn[d] = "connected"
         /\ UNCHANGED <<port, sending, loops, shared, back, main, clifd, file, pc, fd, served>>
BY DEF ConnectOrLeave, Handoff!Connect, Handoff!Leave, Types

LEMMA UART2WiFiShape ==
  ASSUME Types, UART2WiFi
  PROVE  /\ main \notin {"setup", "exited"} /\ uart2WiFi
         /\ main' \in {main, "exited"} /\ termios = AsSetUp
         /\ UNCHANGED <<port, sending, loops, shared, clifd, file, conn, pc, fd, served,
                        uart2WiFi, arrived>>
         /\ \E n \in DOMAIN incoming :
              /\ incoming' = SubSeq(incoming, n + 1, Len(incoming))
              /\ IF Accepted # Nobody /\ conn[Accepted] = "connected"
                 THEN shown' = shown \o Sent(n) ELSE shown' = shown
<1>1. /\ main \notin {"setup", "exited"} /\ uart2WiFi
      /\ UNCHANGED <<port, sending, loops, shared, clifd, file, conn, pc, fd, served,
                     uart2WiFi, arrived>>
  BY DEF UART2WiFi, Running
<1>2. PICK n \in DOMAIN incoming :
        /\ incoming' = SubSeq(incoming, n + 1, Len(incoming))
        /\ IF Accepted # Nobody /\ conn[Accepted] = "connected"
           THEN /\ shown' = shown \o Sent(n)
                /\ UNCHANGED main
           ELSE /\ main' \in {main} \cup (IF Accepted = Nobody THEN {} ELSE {"exited"})
                /\ UNCHANGED shown
  BY DEF UART2WiFi, Sent
<1>3. main' \in {main, "exited"}
  BY <1>2
<1>4. termios = AsSetUp
  BY <1>1 DEF Types
<1> QED BY <1>1, <1>2, <1>3, <1>4

LEMMA TypesStep ==
  ASSUME Types, SharedKnown, [Next]_vars
  PROVE  Types'
<1> USE DEF Types, handoff, port, sending, loops, back
<1>1. CASE SetUp
  BY <1>1 DEF SetUp, AsSetUp
<1>2. CASE Accept
  BY <1>2, AcceptShape
<1>3. CASE CreateThread
  BY <1>3, CreateShape
<1>4. CASE UART2WiFi
  <2>1. termios = AsSetUp
    BY <1>4, UART2WiFiShape
  <2>2. PICK n \in DOMAIN incoming :
          /\ incoming' = SubSeq(incoming, n + 1, Len(incoming))
          /\ shown' \in {shown, shown \o Sent(n)}
    BY <1>4, UART2WiFiShape
  <2>3. Sent(n) \in Seq(Bytes) /\ incoming' \in Seq(Bytes)
    BY <2>1, <2>2, SentAsRead
  <2>4. shown' \in Seq(Bytes)
    <3>1. shown \o Sent(n) \in Seq(Bytes)
      BY <2>3, ConcatProperties
    <3> QED BY <2>2, <3>1
  <2>5. /\ main' \in {main, "exited"} /\ main # "setup"
        /\ UNCHANGED <<port, sending, loops, shared, clifd, file, conn, pc, fd, served,
                       uart2WiFi, arrived>>
    BY <1>4, UART2WiFiShape
  <2> QED BY <2>1, <2>3, <2>4, <2>5
<1>5. ASSUME NEW t \in Threads, EnterLoop(t) PROVE Types'
  <2>1. uart2WiFi' \in BOOLEAN
    BY <1>5 DEF EnterLoop, Succeeds
  <2>2. DOMAIN fd' = Threads /\ pc' \in {pc, [pc EXCEPT ![t] = "recv"]}
    BY <1>5 DEF EnterLoop
  <2> QED BY <1>5, <2>1, <2>2 DEF EnterLoop
<1>6. ASSUME NEW t \in Threads, CopyFd(t) PROVE Types'
  BY <1>6, CopyShape
<1>7. ASSUME NEW t \in Threads, CallRecv(t) PROVE Types'
  BY <1>7, CallRecvShape
<1>8. ASSUME NEW t \in Threads, Recv(t) PROVE Types'
  <2>1. PICK c \in Clients : c = served[t]
    BY <1>8 DEF Recv, SharedKnown
  <2>2. PICK n \in DOMAIN stream[c] :
          /\ mesg' = [mesg EXCEPT ![t] = SubSeq(stream[c], 1, n)]
          /\ stream' = [stream EXCEPT ![c] = SubSeq(@, n + 1, Len(@))]
    BY <1>8, <2>1 DEF Recv
  <2>3. /\ SubSeq(stream[c], 1, n) \in Seq(Byte)
        /\ SubSeq(stream[c], n + 1, Len(stream[c])) \in Seq(Bytes)
    BY CutInTwo, BytesAreBytes
  <2> QED BY <1>8, <2>2, <2>3 DEF Recv, StaysHandedOff, Goto
<1>9. ASSUME NEW t \in Threads, BeginWrite(t) PROVE Types'
  <2>1. mesg' \in [Threads -> Seq(Byte)]
    <3>1. CASE LockedWrite(t)
      <4>1. PICK rest \in {<< >>} \cup (IF t \in fresh THEN Noise ELSE {}) :
              mesg' = [mesg EXCEPT ![t] = UpToZero(@ \o rest)]
        BY <3>1 DEF LockedWrite
      <4>2. mesg[t] \o rest \in Seq(Byte)
        BY <4>1, NoiseIsBytes, EmptySeq, ConcatProperties
      <4>3. UpToZero(mesg[t] \o rest) \in Seq(Byte)
        BY <4>2, UpToZeroStops
      <4> QED BY <4>1, <4>3
    <3>2. CASE PlainWrite(t)
      BY <3>2 DEF PlainWrite
    <3> QED BY <1>9, <3>1, <3>2 DEF BeginWrite
  <2> QED BY <1>9, <2>1 DEF BeginWrite, StaysHandedOff, Goto
<1>10. ASSUME NEW t \in Threads, WriteByte(t) PROVE Types'
  <2>1. Head(mesg[t]) \in Byte /\ Tail(mesg[t]) \in Seq(Byte)
    BY <1>10, HeadTailProperties DEF WriteByte
  <2>2. OnLine(termios, Head(mesg[t])) \in Byte
    BY <1>10, <2>1, EightBitsKept DEF WriteByte, Running
  <2>3. line' \in Seq(Byte)
    BY <1>10, <2>2, AppendProperties DEF WriteByte
  <2> QED BY <1>10, <2>1, <2>3 DEF WriteByte
<1>11. ASSUME NEW t \in Threads, Written(t) PROVE Types'
  BY <1>11 DEF Written, StaysHandedOff, Goto
<1>12. ASSUME NEW t \in Threads, EndOfStream(t) PROVE Types'
  BY <1>12, EndShape
<1>13. ASSUME NEW t \in Threads, Close(t) PROVE Types'
  BY <1>13, CloseShape
<1>14. ASSUME NEW c \in Clients, ConnectOrLeave(c) PROVE Types'
  BY <1>14, ClientShape
<1>15. ASSUME NEW b \in Bytes, Arrive(b) PROVE Types'
  BY <1>15 DEF Arrive
<1>16. ASSUME NEW c \in Clients, NEW b \in Bytes, Send(c, b) PROVE Types'
  BY <1>16 DEF Send
<1>17. CASE UNCHANGED vars
  BY <1>17 DEF vars
<1> QED
  BY <1>1, <1>2, <1>3, <1>4, <1>5, <1>6, <1>7, <1>8, <1>9, <1>10, <1>11, <1>12,
     <1>13, <1>14, <1>15, <1>16, <1>17 DEF Next, Loop

\* What recv, the beginning and the end of a write, and a byte written move.
LEMMA LoopShape ==
  ASSUME Types, NEW t \in Threads,
         Recv(t) \/ BeginWrite(t) \/ WriteByte(t) \/ Written(t)
  PROVE  /\ UNCHANGED <<main, conn, clifd, file, fd, served, program, shared, back>>
         /\ pc[t] \in {"waits", "got", "write"}
         /\ \E l \in {"recv", "got", "write"} : pc' = [pc EXCEPT ![t] = l]
<1>1. CASE Recv(t)
  BY <1>1 DEF Recv, StaysHandedOff, Goto, port
<1>2. CASE BeginWrite(t)
  BY <1>2 DEF BeginWrite, StaysHandedOff, Goto, port
<1>3. CASE WriteByte(t)
  <2>1. pc[t] = "write" /\ pc' = pc
    BY <1>3 DEF WriteByte, handoff
  <2>2. pc' = [pc EXCEPT ![t] = "write"]
    BY <2>1 DEF Types
  <2> QED BY <1>3, <2>1, <2>2 DEF WriteByte, handoff, port
<1>4. CASE Written(t)
  BY <1>4 DEF Written, StaysHandedOff, Goto, port
<1> QED BY <1>1, <1>2, <1>3, <1>4

LEMMA EnterShape ==
  ASSUME NEW t \in Threads, EnterLoop(t)
  PROVE  /\ program = "wificom" /\ main = "create" /\ main' = "serves"
         /\ pc[t] = "none"
         /\ UNCHANGED <<conn, clifd, file, served, program, shared, sending, loops,
                        incoming, shown, arrived>>
         /\ \/ /\ Handoff!IsOpen(clifd) /\ fd' = [fd EXCEPT ![t] = clifd]
               /\ pc' = [pc EXCEPT ![t] = "recv"]
            \/ pc' = pc /\ fd' = fd
BY DEF EnterLoop, port

LEMMA SingleStep ==
  ASSUME Types, Single, [Next]_vars
  PROVE  Single'
<1> USE DEF Types, port, back, Handoff!IsOpen
<1>1. ASSUME UNCHANGED <<program, main, clifd, file, fd, pc, uart2WiFi>> PROVE Single'
  BY <1>1 DEF Single
<1>2. CASE SetUp
  BY <1>2 DEF SetUp, Single
<1>3. CASE Accept
  <2>1. \A t \in Threads : program = "wificom" => pc[t] = "none"
    BY <1>3, AcceptShape DEF Single
  <2> QED BY <1>3, <2>1, AcceptShape DEF Single
<1>4. CASE CreateThread
  BY <1>4, CreateShape DEF Single
<1>5. CASE UART2WiFi
  BY <1>5, UART2WiFiShape DEF Single
<1>6. ASSUME NEW t \in Threads, EnterLoop(t) PROVE Single'
  <2>1. \A u \in Threads : pc[u] = "none"
    BY <1>6, EnterShape DEF Single
  <2>2. UNCHANGED <<clifd, file, program>> /\ program = "wificom" /\ main' = "serves"
    BY <1>6, EnterShape
  <2>3. CASE Handoff!IsOpen(clifd) /\ fd' = [fd EXCEPT ![t] = clifd]
                /\ pc' = [pc EXCEPT ![t] = "recv"]
    BY <2>1, <2>2, <2>3 DEF Single
  <2>4. CASE pc' = pc
    BY <2>1, <2>2, <2>4 DEF Single
  <2> QED BY <1>6, <2>3, <2>4, EnterShape
<1>7. ASSUME NEW t \in Threads, CopyFd(t) PROVE Single'
  BY <1>7, CopyShape DEF Single
<1>8. ASSUME NEW t \in Threads, CallRecv(t) PROVE Single'
  <2>1. /\ UNCHANGED <<program, uart2WiFi, main, clifd, file, fd>> /\ pc[t] = "recv"
        /\ program = "wificom" => pc' = [pc EXCEPT ![t] = "waits"]
    BY <1>8, CallRecvShape DEF Single
  <2> QED BY <2>1 DEF Single
<1>9. ASSUME NEW t \in Threads, Recv(t) \/ BeginWrite(t) \/ WriteByte(t) \/ Written(t)
      PROVE  Single'
  <2>1. PICK l \in {"recv", "got", "write"} : pc' = [pc EXCEPT ![t] = l]
    BY <1>9, LoopShape
  <2>2. /\ UNCHANGED <<program, uart2WiFi, main, clifd, file, fd>> /\ pc[t] # "none"
    BY <1>9, LoopShape
  <2> QED BY <2>1, <2>2 DEF Single
<1>10. ASSUME NEW t \in Threads, EndOfStream(t) PROVE Single'
  BY <1>10, EndShape DEF Single
<1>11. ASSUME NEW t \in Threads, Close(t) PROVE Single'
  BY <1>11, CloseShape DEF Single
<1>12. ASSUME NEW c \in Clients, ConnectOrLeave(c) PROVE Single'
  BY <1>1, <1>12, ClientShape
<1>13. ASSUME NEW b \in Bytes, Arrive(b) \/ \E c \in Clients : Send(c, b) PROVE Single'
  BY <1>1, <1>13 DEF Arrive, Send, handoff
<1>14. CASE UNCHANGED vars
  BY <1>1, <1>14 DEF vars, handoff
<1> QED
  BY <1>2, <1>3, <1>4, <1>5, <1>6, <1>7, <1>8, <1>9, <1>10, <1>11, <1>12, <1>13,
     <1>14 DEF Next, Loop

LEMMA SharedStep ==
  ASSUME Types, SharedKnown, [Next]_vars
  PROVE  SharedKnown'
<1> USE DEF Types, SharedKnown
<1>1. ASSUME UNCHANGED <<served, shared>>,
             \A t \in Threads : pc'[t] \in {"waits", "got", "write"} =>
                                  pc[t] \in {"waits", "got", "write"}
      PROVE  SharedKnown'
  BY <1>1
<1>2. CASE SetUp \/ Accept \/ CreateThread \/ UART2WiFi
  <2>1. UNCHANGED <<served, shared>>
    BY <1>2, AcceptShape, CreateShape, UART2WiFiShape DEF SetUp
  <2>2. \A t \in Threads : pc'[t] \in {"waits", "got", "write"} => pc'[t] = pc[t]
    BY <1>2, AcceptShape, CreateShape, UART2WiFiShape DEF SetUp
  <2> QED BY <1>1, <2>1, <2>2
<1>3. ASSUME NEW t \in Threads, EnterLoop(t) PROVE SharedKnown'
  BY <1>3, EnterShape
<1>4. ASSUME NEW t \in Threads, CallRecv(t) PROVE SharedKnown'
  <2>1. CASE Handoff!IsOpen(fd[t])
    <3>1. PICK c \in Clients : c = file[fd[t]]
      BY <1>4, <2>1, CallRecvShape
    <3>2. /\ served' = [served EXCEPT ![t] = c] /\ pc' = [pc EXCEPT ![t] = "waits"]
          /\ \/ shared' = shared /\ Others(t) = {}
             \/ shared' = shared \cup {c}
      BY <1>4, <2>1, <3>1, CallRecvShape
    <3>3. \A u \in Threads : u # t /\ served[u] = c => c \in shared'
      BY <3>1, <3>2 DEF Others
    <3>4. \A u \in Threads : u # t => served'[u] = served[u]
      BY <3>2
    <3>5. shared \subseteq shared' /\ served'[t] = c
      BY <3>2
    <3> QED BY <3>2, <3>3, <3>4, <3>5
  <2>2. CASE ~Handoff!IsOpen(fd[t])
    BY <1>4, <2>2, CallRecvShape
  <2> QED BY <2>1, <2>2
<1>5. ASSUME NEW t \in Threads, Loop(t), ~CallRecv(t) PROVE SharedKnown'
  <2>1. CASE Recv(t) \/ BeginWrite(t) \/ WriteByte(t) \/ Written(t)
    <3>1. PICK l \in {"recv", "got", "write"} : pc' = [pc EXCEPT ![t] = l]
      BY <2>1, LoopShape
    <3>2. pc[t] \in {"waits", "got", "write"} /\ UNCHANGED <<served, shared>>
      BY <2>1, LoopShape
    <3> QED BY <1>1, <3>1, <3>2
  <2>2. CASE CopyFd(t) \/ EndOfStream(t) \/ Close(t)
    BY <1>1, <2>2, CopyShape, EndShape, CloseShape
  <2> QED BY <1>5, <2>1, <2>2 DEF Loop
<1>6. ASSUME NEW c \in Clients, ConnectOrLeave(c) PROVE SharedKnown'
  BY <1>6, ClientShape
<1>7. ASSUME NEW b \in Bytes, Arrive(b) \/ \E c \in Clients : Send(c, b)
      PROVE  SharedKnown'
  BY <1>7 DEF Arrive, Send, handoff
<1>8. CASE UNCHANGED vars
  BY <1>8 DEF vars, handoff
<1> QED BY <1>2, <1>3, <1>4, <1>5, <1>6, <1>7, <1>8 DEF Next

LEMMA OneWriterStep ==
  ASSUME Types, Single, OneWriter, [Next]_vars
  PROVE  OneWriter'
<1> USE DEF Types
<1>1. ASSUME UNCHANGED <<program, uart_sem>>,
             \A t \in Threads : pc'[t] = "write" => pc[t] = "write"
      PROVE  OneWriter'
  BY <1>1 DEF OneWriter
<1>2. CASE SetUp \/ Accept \/ CreateThread \/ UART2WiFi
  <2>1. UNCHANGED <<program, uart_sem>>
    BY <1>2, AcceptShape, CreateShape, UART2WiFiShape DEF SetUp, port, loops
  <2>2. \A t \in Threads : pc'[t] = "write" => pc[t] = "write"
    BY <1>2, AcceptShape, CreateShape, UART2WiFiShape DEF SetUp
  <2> QED BY <1>1, <2>1, <2>2
<1>3. ASSUME NEW t \in Threads, EnterLoop(t) PROVE OneWriter'
  BY <1>1, <1>3, EnterShape DEF loops
<1>4. ASSUME NEW t \in Threads,
             CopyFd(t) \/ CallRecv(t) \/ EndOfStream(t) \/ Close(t) \/ Recv(t)
      PROVE  OneWriter'
  <2>1. CASE CopyFd(t) \/ CallRecv(t) \/ EndOfStream(t) \/ Close(t)
    <3>1. UNCHANGED <<program, uart_sem>>
      BY <2>1, CopyShape, CallRecvShape, EndShape, CloseShape DEF port, loops
    <3>2. \E l \in {"recv", "waits", "close", "exited"} : pc' = [pc EXCEPT ![t] = l]
      BY <2>1, CopyShape, CallRecvShape, EndShape, CloseShape
    <3> QED BY <1>1, <3>1, <3>2
  <2>2. CASE Recv(t)
    BY <1>1, <2>2 DEF Recv, Goto, port
  <2> QED BY <1>4, <2>1, <2>2
<1>5. ASSUME NEW t \in Threads, BeginWrite(t) PROVE OneWriter'
  <2>1. program' = program /\ pc[t] = "got" /\ pc' = [pc EXCEPT ![t] = "write"]
    BY <1>5 DEF BeginWrite, Goto, port
  <2>2. CASE LockedWrite(t)
    <3>1. program = "wifiuart" /\ uart_sem = 1 /\ uart_sem' = 0
      BY <2>2 DEF LockedWrite, SemFree, OneWriter
    <3>2. \A u \in Threads : pc'[u] = "write" => u = t
      BY <2>1, <3>1 DEF OneWriter
    <3> QED BY <2>1, <3>1, <3>2 DEF OneWriter
  <2>3. CASE PlainWrite(t)
    <3>1. program = "wificom"
      BY <2>3 DEF PlainWrite
    <3>2. \A u \in Threads : pc'[u] = "write" => u = t
      BY <2>1, <3>1 DEF Single
    <3> QED BY <2>1, <3>1, <3>2 DEF OneWriter
  <2> QED BY <1>5, <2>2, <2>3 DEF BeginWrite
<1>6. ASSUME NEW t \in Threads, WriteByte(t) PROVE OneWriter'
  BY <1>1, <1>6 DEF WriteByte, handoff, port
<1>7. ASSUME NEW t \in Threads, Written(t) PROVE OneWriter'
  <2>1. program' = program
    BY <1>7 DEF Written, port
  <2>2. \A u \in Threads : pc'[u] # "write"
    BY <1>7 DEF Written, Goto, OneWriter
  <2>3. program = "wifiuart" => uart_sem' = 1
    <3>1. program = "wifiuart" => uart_sem = 0
      BY <1>7 DEF Written, OneWriter
    <3> QED BY <1>7, <3>1 DEF Written, Posted
  <2> QED BY <2>1, <2>2, <2>3 DEF OneWriter
<1>8. ASSUME NEW c \in Clients, ConnectOrLeave(c) PROVE OneWriter'
  BY <1>1, <1>8, ClientShape DEF port, loops
<1>9. ASSUME NEW b \in Bytes, Arrive(b) \/ \E c \in Clients : Send(c, b)
      PROVE  OneWriter'
  BY <1>1, <1>9 DEF Arrive, Send, handoff, port, loops
<1>10. CASE UNCHANGED vars
  BY <1>1, <1>10 DEF vars, handoff, port, loops
<1> QED
  BY <1>2, <1>3, <1>4, <1>5, <1>6, <1>7, <1>8, <1>9, <1>10 DEF Next, Loop

LEMMA BytesRegroup == \A s, t, u \in Seq(Bytes) : (s \o t) \o u = s \o (t \o u)
BY ConcatAssociative

LEMMA BackStep ==
  ASSUME Types, Single, BackInv, [Next]_vars
  PROVE  BackInv'
<1> USE DEF Types, back
<1>1. ASSUME UNCHANGED <<incoming, shown, arrived>>,
             uart2WiFi => uart2WiFi' /\ UNCHANGED <<program, clifd, file>>,
             uart2WiFi => \A c \in Clients : conn'[c] = "connected" => conn[c] = "connected"
      PROVE  BackInv'
  <2>1. CASE ~uart2WiFi
    <3>1. Seen
      BY <2>1 DEF BackInv
    <3>2. Seen'
      BY <1>1, <3>1 DEF Seen
    <3> QED BY <3>2 DEF BackInv
  <2>2. CASE uart2WiFi
    <3>1. Accepted' = Accepted
      BY <1>1, <2>2 DEF Accepted, Handoff!IsOpen
    <3>2. Accepted # Nobody => Accepted \in Clients
      BY DEF Accepted, Handoff!IsOpen
    <3>3. Seen' = Seen
      BY <1>1 DEF Seen
    <3> QED BY <1>1, <2>2, <3>1, <3>2, <3>3 DEF BackInv
  <2> QED BY <2>1, <2>2
<1>2. CASE SetUp \/ UNCHANGED vars
  BY <1>1, <1>2 DEF SetUp, vars, handoff, port
<1>3. CASE Accept
  BY <1>1, <1>3, AcceptShape DEF Single
<1>4. CASE CreateThread
  BY <1>1, <1>4, CreateShape DEF Single
<1>5. CASE UART2WiFi
  <2>1. uart2WiFi /\ termios = AsSetUp
        /\ UNCHANGED <<program, clifd, file, conn, uart2WiFi, arrived>>
    BY <1>5, UART2WiFiShape DEF port
  <2>2. Accepted' = Accepted
    BY <2>1 DEF Accepted, Handoff!IsOpen
  <2>3. SUFFICES ASSUME program = "wificom", Accepted # Nobody,
                        conn[Accepted] = "connected"
                 PROVE  Seen'
    BY <2>1, <2>2 DEF BackInv
  <2>4. PICK n \in DOMAIN incoming :
          /\ incoming' = SubSeq(incoming, n + 1, Len(incoming))
          /\ shown' = shown \o Sent(n)
    BY <1>5, <2>3, UART2WiFiShape
  <2>5. Sent(n) \in Seq(Bytes) /\ incoming' \in Seq(Bytes)
    BY <2>1, <2>4, SentAsRead
  <2>6. Sent(n) \o incoming' = incoming
    BY <2>1, <2>4, SentAsRead
  <2>7. (shown \o Sent(n)) \o incoming' = shown \o (Sent(n) \o incoming')
    <3>1. shown \in Seq(Bytes)
      OBVIOUS
    <3> QED BY <2>5, <3>1, BytesRegroup, Zenon
  <2>8. Seen
    BY <2>3 DEF BackInv
  <2> QED BY <2>1, <2>4, <2>6, <2>7, <2>8 DEF Seen
<1>6. ASSUME NEW t \in Threads, EnterLoop(t) PROVE BackInv'
  BY <1>1, <1>6, EnterShape DEF Single
<1>7. ASSUME NEW t \in Threads, Loop(t) PROVE BackInv'
  <2>1. CASE Close(t)
    BY <1>1, <2>1, CloseShape DEF Single
  <2>2. CASE Recv(t) \/ BeginWrite(t) \/ WriteByte(t) \/ Written(t)
    BY <1>1, <2>2, LoopShape
  <2>3. CASE CopyFd(t) \/ CallRecv(t) \/ EndOfStream(t)
    BY <1>1, <2>3, CopyShape, CallRecvShape, EndShape DEF port
  <2> QED BY <1>7, <2>1, <2>2, <2>3 DEF Loop
<1>8. ASSUME NEW c \in Clients, ConnectOrLeave(c) PROVE BackInv'
  BY <1>1, <1>8, ClientShape DEF port
<1>9. ASSUME NEW b \in Bytes, Arrive(b) PROVE BackInv'
  <2>1. incoming' = Append(incoming, b) /\ arrived' = Append(arrived, b)
        /\ UNCHANGED <<shown, program, clifd, file, conn, uart2WiFi>>
    BY <1>9 DEF Arrive, handoff, port
  <2>2. Accepted' = Accepted
    BY <2>1 DEF Accepted, Handoff!IsOpen
  <2>3. ASSUME Seen PROVE Seen'
    <3>1. shown \in Seq(Bytes) /\ incoming \in Seq(Bytes)
      OBVIOUS
    <3>2. shown \o Append(incoming, b) = Append(shown \o incoming, b)
      BY <3>1, AppendBehind
    <3> QED BY <2>1, <2>3, <3>2 DEF Seen
  <2> QED BY <2>1, <2>2, <2>3 DEF BackInv
<1>10. ASSUME NEW c \in Clients, NEW b \in Bytes, Send(c, b) PROVE BackInv'
  BY <1>1, <1>10 DEF Send, handoff, port
<1> QED
  BY <1>2, <1>3, <1>4, <1>5, <1>6, <1>7, <1>8, <1>9, <1>10 DEF Next

LEMMA AlwaysServed ==
  Spec => [](Types /\ Single /\ SharedKnown /\ OneWriter /\ BackInv)
<1>1. Init => Types /\ Single /\ SharedKnown /\ OneWriter /\ BackInv
  <2> SUFFICES ASSUME Init PROVE Types /\ Single /\ SharedKnown /\ OneWriter /\ BackInv
    OBVIOUS
  <2>1. Types
    <3>1. << >> \in Seq(Bytes) /\ << >> \in Seq(Byte)
      BY EmptySeq
    <3>2. stream \in [Clients -> Seq(Bytes)] /\ mesg \in [Threads -> Seq(Byte)]
      BY <3>1 DEF Init
    <3> QED BY <3>1, <3>2 DEF Init, Types
  <2>2. Single
    BY DEF Init, Single
  <2>3. SharedKnown
    BY SerialAssumption DEF Init, SharedKnown
  <2>4. OneWriter
    BY DEF Init, OneWriter
  <2>5. BackInv
    <3>1. Seen
      BY DEF Init, Seen
    <3> QED BY <3>1 DEF BackInv
  <2> QED BY <2>1, <2>2, <2>3, <2>4, <2>5
<1> QED BY <1>1, TypesStep, SingleStep, SharedStep, OneWriterStep, BackStep, PTL DEF Spec

(***************************************************************************)
(* As long as wificom's client is there, it has received in order and      *)
(* unchanged what the UART received, up to what read has not returned.     *)
(***************************************************************************)
THEOREM UartIsSeen == Spec => []ClientSeesUart
<1>1. BackInv => ClientSeesUart
  BY DEF BackInv, ClientSeesUart, Seen
<1> QED BY <1>1, AlwaysServed, PTL

----------------------------------------------------------------------------
(* The bridges implement SerialPipe. *)

(***************************************************************************)
(* The line is what was written and what the one writer has still to.      *)
(***************************************************************************)
LEMMA LineWithout ==
  ASSUME \A t \in Threads : pc[t] # "write"
  PROVE  PipeLine = line
BY DEF PipeLine, Writers

LEMMA LineWith ==
  ASSUME OneWriter, NEW t \in Threads, pc[t] = "write"
  PROVE  PipeLine = line \o mesg[t]
<1>1. Writers = {t}
  BY DEF Writers, OneWriter
<1>2. (CHOOSE u \in Writers : TRUE) = t
  BY <1>1
<1> QED BY <1>1, <1>2 DEF PipeLine

(***************************************************************************)
(* A step that moves no bytes past the places SerialPipe tells apart.      *)
(***************************************************************************)
LEMMA NothingMoved ==
  ASSUME UNCHANGED <<mesg, line>>,
         \A t \in Threads : pc'[t] \in {"got", "write"} \/ pc[t] \in {"got", "write"}
                              => pc'[t] = pc[t] /\ served'[t] = served[t]
  PROVE  UNCHANGED <<PipeHand, PipeLine>>
<1>1. PipeHand' = PipeHand
  BY DEF PipeHand
<1>2. Writers' = Writers
  BY DEF Writers
<1>3. PipeLine' = PipeLine
  BY <1>2 DEF PipeLine
<1> QED BY <1>1, <1>3

(***************************************************************************)
(* What strlen leaves of a message and noise is what SerialPipe lets       *)
(* arrive of the message.                                                  *)
(***************************************************************************)
LEMMA CountedArrives ==
  ASSUME Types, program = "wifiuart", NEW t \in Threads,
         NEW rest \in {<< >>} \cup (IF t \in fresh THEN Noise ELSE {})
  PROVE  UpToZero(mesg[t] \o rest) \in Pipe!Arrives(t, mesg[t])
<1>1. PICK run : run = mesg[t]
  OBVIOUS
<1>2. run \in Seq(Byte) /\ rest \in Seq(Byte) /\ \A i \in 1 .. Len(rest) : rest[i] # 0
  <2>1. run \in Seq(Byte)
    BY <1>1 DEF Types
  <2>2. CASE rest = << >>
    BY <2>1, <2>2
  <2>3. CASE rest \in Noise
    <3>1. rest \in Seq(1 .. 255) /\ rest \in Seq(Byte)
      BY <2>3, NoiseIsBytes
    <3>2. \A i \in 1 .. Len(rest) : rest[i] \in 1 .. 255
      BY <3>1, ElementOfSeq, Zenon
    <3>3. \A k \in 1 .. 255 : k # 0
      OBVIOUS
    <3>4. \A i \in 1 .. Len(rest) : rest[i] # 0
      BY <3>2, <3>3
    <3> QED BY <2>1, <3>1, <3>4
  <2> QED BY <2>2, <2>3
<1>3. PICK r \in Nat, q \in Nat : r = Len(run) /\ q = Len(rest)
  BY <1>2
<1>4. PICK buf : buf = run \o rest
  OBVIOUS
<1>5. /\ buf \in Seq(Byte) /\ Len(buf) = r + q
      /\ \A i \in 1 .. r + q : buf[i] = IF i <= r THEN run[i] ELSE rest[i - r]
  BY <1>2, <1>3, <1>4, ConcatProperties
<1>6. PICK part : part = UpToZero(buf)
  OBVIOUS
<1>7. PICK m \in 0 .. r + q :
        /\ part = SubSeq(buf, 1, m) /\ part \in Seq(Byte) /\ Len(part) = m
        /\ \A i \in 1 .. m : part[i] = buf[i] /\ buf[i] # 0
        /\ m < r + q => buf[m + 1] = 0
  BY <1>5, <1>6, UpToZeroStops
<1>8. DOMAIN run = 1 .. r
  BY <1>2, <1>3
<1>9. Pipe!NoZero(run) <=> \A i \in 1 .. r : run[i] # 0
  BY <1>8 DEF Pipe!NoZero
<1>10. CASE Pipe!NoZero(run)
  <2>1. m = r + q
    <3>1. SUFFICES ASSUME m < r + q PROVE FALSE
      BY <1>7
    <3>2. m + 1 \in 1 .. r + q /\ buf[m + 1] = 0
      BY <1>7, <3>1
    <3>3. CASE m + 1 <= r
      <4>1. m + 1 \in 1 .. r
        BY <3>2, <3>3
      <4> QED BY <1>5, <1>9, <1>10, <3>2, <3>3, <4>1
    <3>4. CASE ~(m + 1 <= r)
      <4>1. (m + 1) - r \in 1 .. q
        BY <3>2, <3>4
      <4> QED BY <1>2, <1>3, <1>5, <3>2, <3>4, <4>1
    <3> QED BY <3>3, <3>4
  <2>2. part = run \o rest
    BY <1>4, <1>5, <1>7, <2>1, SubSeqFull
  <2>3. rest = << >> => part = run
    BY <1>2, <2>2, ConcatEmptySeq
  <2>4. Pipe!Arrives(t, run) =
          {run} \cup (IF t \in fresh THEN {run \o n : n \in Noise} ELSE {})
    BY <1>10 DEF Pipe!Arrives
  <2> QED BY <1>1, <1>4, <1>6, <2>2, <2>3, <2>4
<1>11. CASE ~Pipe!NoZero(run)
  <2>1. m < r
    <3>1. SUFFICES ASSUME r <= m PROVE FALSE
      BY <1>7
    <3>2. \A i \in 1 .. r : i \in 1 .. m /\ i \in 1 .. r + q /\ i <= r
      BY <1>7, <3>1
    <3>3. \A i \in 1 .. r : run[i] # 0
      BY <1>5, <1>7, <3>2
    <3> QED BY <1>9, <1>11, <3>3
  <2>2. m + 1 \in 1 .. r /\ m + 1 \in 1 .. r + q /\ m < r + q /\ (m + 1) - 1 = m
    BY <1>7, <2>1
  <2>3. run[m + 1] = 0
    BY <1>5, <1>7, <2>2
  <2>4. SubSeq(run, 1, m) = part
    <3>1. CASE m = 0
      <4>1. SubSeq(run, 1, m) = << >> /\ SubSeq(buf, 1, m) = << >>
        BY <3>1, SubSeqEmpty
      <4> QED BY <1>7, <4>1
    <3>2. CASE m # 0
      <4>1. m \in 1 .. Len(run) /\ 1 \in 1 .. Len(run)
        BY <1>3, <2>1, <3>2
      <4> QED BY <1>2, <1>4, <1>7, <4>1, SubSeqOfConcat1
    <3> QED BY <3>1, <3>2
  <2>5. Pipe!NoZero(part)
    <3>1. DOMAIN part = 1 .. m
      BY <1>7, LenProperties
    <3> QED BY <1>7, <3>1 DEF Pipe!NoZero
  <2>6. Pipe!Arrives(t, run) = {SubSeq(run, 1, n - 1) : n \in {k \in DOMAIN run :
                                  run[k] = 0 /\ Pipe!NoZero(SubSeq(run, 1, k - 1))}}
    BY <1>11 DEF Pipe!Arrives
  <2>7. m + 1 \in {k \in DOMAIN run : run[k] = 0 /\ Pipe!NoZero(SubSeq(run, 1, k - 1))}
    BY <1>8, <2>2, <2>3, <2>4, <2>5
  <2> QED BY <1>1, <1>4, <1>6, <2>2, <2>4, <2>6, <2>7
<1> QED BY <1>10, <1>11

(***************************************************************************)
(* Each step of a bridge is a step of SerialPipe, or moves nothing it      *)
(* knows of.                                                               *)
(***************************************************************************)
LEMMA SendSends ==
  ASSUME Types, NEW c \in Clients, NEW b \in Bytes, Send(c, b)
  PROVE  Pipe!Send(c, b)
<1>1. /\ stream' = [stream EXCEPT ![c] = Append(@, b)]
      /\ UNCHANGED <<program, pc, served, mesg, fresh, line, shared>>
  BY DEF Send, loops, handoff, port
<1>2. UNCHANGED <<PipeHand, PipeLine>>
  BY <1>1, NothingMoved
<1> QED BY <1>1, <1>2 DEF Pipe!Send

\* What recv returns is in the loop's hands.
LEMMA RecvTakes ==
  ASSUME Types, SharedKnown, NEW t \in Threads, Recv(t)
  PROVE  \E c \in Clients : \E n \in DOMAIN stream[c] : Pipe!Take(t, c, n)
<1>1. PICK c \in Clients : c = served[t]
  BY DEF Recv, SharedKnown
<1>2. PICK n \in DOMAIN stream[c] :
        /\ mesg' = [mesg EXCEPT ![t] = SubSeq(stream[c], 1, n)]
        /\ stream' = [stream EXCEPT ![c] = SubSeq(@, n + 1, Len(@))]
  BY <1>1 DEF Recv
<1>3. /\ pc[t] = "waits" /\ pc' = [pc EXCEPT ![t] = "got"]
      /\ UNCHANGED <<program, served, fresh, line, shared>>
  BY DEF Recv, StaysHandedOff, Goto, port
<1>4. PipeHand[t] = Pipe!Empty
  BY <1>3 DEF PipeHand, Pipe!Empty
<1>5. c \notin shared => \A u \in Threads : PipeHand[u].from # c
  <2>1. SUFFICES ASSUME c \notin shared, NEW u \in Threads PROVE PipeHand[u].from # c
    OBVIOUS
  <2>2. CASE pc[u] = "got"
    <3>1. u # t /\ served[u] # c
      BY <1>1, <1>3, <2>1, <2>2 DEF SharedKnown
    <3> QED BY <2>2, <3>1 DEF PipeHand
  <2>3. CASE pc[u] # "got"
    <3>1. PipeHand[u].from = Nobody
      BY <2>3 DEF PipeHand
    <3> QED BY <3>1, SerialAssumption
  <2> QED BY <2>2, <2>3
<1>6. PipeHand' = [PipeHand EXCEPT ![t] = [from |-> c, run |-> SubSeq(stream[c], 1, n)]]
  <2>1. PipeHand'[t] = [from |-> c, run |-> SubSeq(stream[c], 1, n)]
    BY <1>1, <1>2, <1>3 DEF PipeHand, Types
  <2>2. \A u \in Threads : u # t => PipeHand'[u] = PipeHand[u]
    BY <1>2, <1>3 DEF PipeHand, Types
  <2> QED BY <2>1, <2>2 DEF PipeHand
<1>7. PipeLine' = PipeLine
  <2>1. Writers' = Writers /\ t \notin Writers
    BY <1>3 DEF Writers, Types
  <2>2. CASE Writers = {}
    BY <1>3, <2>1, <2>2 DEF PipeLine
  <2>3. CASE Writers # {}
    <3>1. PICK u \in Writers : u = CHOOSE w \in Writers : TRUE
      BY <2>3
    <3>2. mesg'[u] = mesg[u]
      BY <1>2, <2>1, <3>1 DEF Types, Writers
    <3> QED BY <1>3, <2>1, <2>3, <3>1, <3>2 DEF PipeLine
  <2> QED BY <2>2, <2>3
<1>8. Pipe!Take(t, c, n)
  BY <1>2, <1>3, <1>4, <1>5, <1>6, <1>7 DEF Pipe!Take
<1> QED BY <1>8

\* The loop that may write delivers its message.
LEMMA BeginDelivers ==
  ASSUME Types, Single, SharedKnown, OneWriter, OneWriter', NEW t \in Threads, BeginWrite(t)
  PROVE  Pipe!Deliver(t)
<1>1. /\ pc[t] = "got" /\ pc' = [pc EXCEPT ![t] = "write"]
      /\ fresh' = fresh \ {t}
      /\ UNCHANGED <<program, served, stream, line, shared>>
  BY DEF BeginWrite, StaysHandedOff, Goto, port, sending
<1>2. mesg' = [mesg EXCEPT ![t] = mesg'[t]]
      /\ mesg'[t] \in Pipe!Arrives(t, mesg[t])
      /\ \A u \in Threads : pc[u] # "write"
  <2>1. CASE LockedWrite(t)
    <3>1. PICK rest \in {<< >>} \cup (IF t \in fresh THEN Noise ELSE {}) :
            mesg' = [mesg EXCEPT ![t] = UpToZero(@ \o rest)]
      BY <2>1 DEF LockedWrite
    <3>2. program = "wifiuart" /\ uart_sem > 0
      BY <2>1 DEF LockedWrite, SemFree
    <3>3. mesg'[t] = UpToZero(mesg[t] \o rest)
      BY <3>1 DEF Types
    <3>4. UpToZero(mesg[t] \o rest) \in Pipe!Arrives(t, mesg[t])
      BY <3>2, CountedArrives
    <3>5. \A u \in Threads : pc[u] # "write"
      BY <3>2 DEF OneWriter
    <3>6. mesg' = [mesg EXCEPT ![t] = mesg'[t]]
      BY <3>1, <3>3
    <3> QED BY <3>3, <3>4, <3>5, <3>6
  <2>2. CASE PlainWrite(t)
    <3>1. program = "wificom" /\ mesg' = mesg
      BY <2>2 DEF PlainWrite
    <3>2. Pipe!Arrives(t, mesg[t]) = {mesg[t]}
      BY <3>1 DEF Pipe!Arrives
    <3>3. \A u \in Threads : pc[u] # "write"
      BY <1>1, <3>1 DEF Single
    <3>4. mesg' = [mesg EXCEPT ![t] = mesg'[t]]
      BY <3>1 DEF Types
    <3> QED BY <3>1, <3>2, <3>3, <3>4
  <2> QED BY <2>1, <2>2 DEF BeginWrite
<1>3. PipeHand[t] = [from |-> served[t], run |-> mesg[t]]
  BY <1>1 DEF PipeHand
<1>4. PipeHand[t] # Pipe!Empty
  <2>1. served[t] # Nobody
    BY <1>1, SerialAssumption DEF SharedKnown
  <2> QED BY <1>3, <2>1 DEF Pipe!Empty
<1>5. PipeHand' = [PipeHand EXCEPT ![t] = Pipe!Empty]
  <2>1. PipeHand'[t] = Pipe!Empty
    BY <1>1 DEF PipeHand, Pipe!Empty, Types
  <2>2. \A u \in Threads : u # t => mesg'[u] = mesg[u] /\ pc'[u] = pc[u]
    BY <1>1, <1>2 DEF Types
  <2>3. \A u \in Threads : u # t => PipeHand'[u] = PipeHand[u]
    BY <1>1, <2>2 DEF PipeHand
  <2> QED BY <2>1, <2>3 DEF PipeHand
<1>6. PipeLine' = PipeLine \o mesg'[t]
  <2>1. PipeLine = line
    BY <1>2, LineWithout
  <2>2. Writers' = {t}
    BY <1>1, <1>2 DEF Writers, Types
  <2>3. (CHOOSE u \in Writers' : TRUE) = t
    BY <2>2
  <2>4. PipeLine' = line' \o mesg'[t]
    BY <2>2, <2>3 DEF PipeLine
  <2> QED BY <1>1, <2>1, <2>4
<1>7. \E part \in Pipe!Arrives(t, PipeHand[t].run) : PipeLine' = PipeLine \o part
  <2>1. PipeHand[t].run = mesg[t]
    BY <1>3
  <2> QED BY <1>2, <1>6, <2>1, Zenon
<1>8. UNCHANGED <<stream, shared, program = "wificom">>
  BY <1>1
<1> QED BY <1>1, <1>4, <1>5, <1>7, <1>8 DEF Pipe!Deliver

\* write puts on the line what already counts as delivered.
LEMMA WriteKeeps ==
  ASSUME Types, OneWriter, NEW t \in Threads, WriteByte(t)
  PROVE  UNCHANGED <<PipeHand, PipeLine>>
<1>1. /\ pc[t] = "write" /\ mesg[t] # << >> /\ termios = AsSetUp
      /\ line' = Append(line, OnLine(termios, Head(mesg[t])))
      /\ mesg' = [mesg EXCEPT ![t] = Tail(@)]
      /\ UNCHANGED <<pc, served>>
  BY DEF WriteByte, Running, Types, handoff
<1>2. PICK s \in Seq(Byte) : s = mesg[t]
  BY DEF Types
<1>3. Head(s) \in Byte /\ Tail(s) \in Seq(Byte) /\ line \in Seq(Byte) /\ <<Head(s)>> \in Seq(Byte)
  BY <1>1, <1>2, HeadTailProperties DEF Types
<1>4. line' = line \o <<Head(s)>>
  BY <1>1, <1>2, <1>3, EightBitsKept, AppendIsConcat
<1>5. <<Head(s)>> \o Tail(s) = s
  <2>1. 1 \in 1 .. Len(s) /\ Len(s) \in 1 .. Len(s)
    BY <1>1, <1>2, EmptySeq
  <2>2. SubSeq(s, 1, Len(s)) = <<s[1]>> \o SubSeq(s, 1 + 1, Len(s))
    BY <2>1, SubSeqRecursiveFirst
  <2>3. Tail(s) = SubSeq(s, 2, Len(s)) /\ Head(s) = s[1] /\ 1 + 1 = 2
    BY <1>1, <1>2, TailIsSubSeq
  <2> QED BY <2>2, <2>3, SubSeqFull
<1>6. (line \o <<Head(s)>>) \o Tail(s) = line \o s
  BY <1>3, <1>5, ConcatAssociative
<1>7. PipeLine = line \o s
  BY <1>1, <1>2, LineWith
<1>8. PipeLine' = line' \o mesg'[t]
  <2>1. Writers = {t} /\ Writers' = {t}
    BY <1>1 DEF Writers, OneWriter
  <2>2. (CHOOSE u \in Writers' : TRUE) = t
    BY <2>1
  <2> QED BY <2>1, <2>2 DEF PipeLine
<1>9. mesg'[t] = Tail(s)
  BY <1>1, <1>2 DEF Types
<1>10. PipeHand' = PipeHand
  <2>1. \A u \in Threads : pc[u] = "got" => mesg'[u] = mesg[u]
    BY <1>1 DEF Types
  <2> QED BY <1>1, <2>1 DEF PipeHand
<1> QED BY <1>4, <1>6, <1>7, <1>8, <1>9, <1>10

\* At the end of its message a writer has nothing left to count.
LEMMA WrittenKeeps ==
  ASSUME Types, OneWriter, NEW t \in Threads, Written(t)
  PROVE  UNCHANGED <<PipeHand, PipeLine>>
<1>1. /\ pc[t] = "write" /\ mesg[t] = << >> /\ pc' = [pc EXCEPT ![t] = "recv"]
      /\ UNCHANGED <<served, mesg, line>>
  BY DEF Written, StaysHandedOff, Goto
<1>2. PipeLine = line
  <2>1. PipeLine = line \o << >>
    BY <1>1, LineWith
  <2> QED BY <2>1, ConcatEmptySeq DEF Types
<1>3. PipeLine' = line'
  <2>1. Writers' = {}
    BY <1>1 DEF Writers, OneWriter, Types
  <2> QED BY <2>1 DEF PipeLine
<1>4. PipeHand' = PipeHand
  <2>1. \A u \in Threads : pc'[u] = "got" <=> pc[u] = "got"
    BY <1>1 DEF Types
  <2> QED BY <1>1, <2>1 DEF PipeHand
<1> QED BY <1>1, <1>2, <1>3, <1>4

LEMMA PipeStep ==
  ASSUME Types, Single, SharedKnown, OneWriter, OneWriter', [Next]_vars
  PROVE  [Pipe!Next]_(Pipe!vars)
<1>1. ASSUME UNCHANGED <<program, stream, fresh, shared, PipeHand, PipeLine>>
      PROVE  UNCHANGED Pipe!vars
  BY <1>1 DEF Pipe!vars
<1>2. CASE SetUp \/ Accept \/ CreateThread \/ UART2WiFi \/ UNCHANGED vars
  <2>1. UNCHANGED <<program, stream, mesg, fresh, line, shared>>
    BY <1>2, AcceptShape, CreateShape, UART2WiFiShape
    DEF SetUp, vars, port, sending, loops
  <2>2. \A t \in Threads : pc'[t] \in {"got", "write"} \/ pc[t] \in {"got", "write"}
                             => pc'[t] = pc[t] /\ served'[t] = served[t]
    BY <1>2, AcceptShape, CreateShape, UART2WiFiShape DEF SetUp, vars, handoff, Types
  <2>3. UNCHANGED <<PipeHand, PipeLine>>
    BY <2>1, <2>2, NothingMoved
  <2> QED BY <1>1, <2>1, <2>3
<1>3. ASSUME NEW t \in Threads, EnterLoop(t) PROVE UNCHANGED Pipe!vars
  <2>1. UNCHANGED <<program, stream, mesg, fresh, line, shared, served>>
    BY <1>3, EnterShape DEF sending, loops
  <2>2. \A u \in Threads : pc'[u] \in {"got", "write"} \/ pc[u] \in {"got", "write"}
                             => pc'[u] = pc[u]
    BY <1>3, EnterShape DEF Types
  <2>3. UNCHANGED <<PipeHand, PipeLine>>
    BY <2>1, <2>2, NothingMoved
  <2> QED BY <1>1, <2>1, <2>3
<1>4. ASSUME NEW t \in Threads, CopyFd(t) \/ CallRecv(t) \/ EndOfStream(t) \/ Close(t)
      PROVE  Pipe!Next \/ UNCHANGED Pipe!vars
  <2>1. UNCHANGED <<program, stream, mesg, fresh, line>>
    BY <1>4, CopyShape, CallRecvShape, EndShape, CloseShape DEF port, sending, loops
  <2>2. \A u \in Threads : pc'[u] \in {"got", "write"} \/ pc[u] \in {"got", "write"}
                             => pc'[u] = pc[u] /\ served'[u] = served[u]
    <3>1. /\ pc[t] \notin {"got", "write"}
          /\ \E l \in {"recv", "waits", "close", "exited"} : pc' = [pc EXCEPT ![t] = l]
      BY <1>4, CopyShape, CallRecvShape, EndShape, CloseShape
    <3>2. \A u \in Threads : u # t => served'[u] = served[u]
      BY <1>4, CopyShape, CallRecvShape, EndShape, CloseShape DEF Types
    <3> QED BY <3>1, <3>2 DEF Types
  <2>3. UNCHANGED <<PipeHand, PipeLine>>
    BY <2>1, <2>2, NothingMoved
  <2>4. shared' = shared \/ \E c \in Clients : shared' = shared \cup {c}
    BY <1>4, CopyShape, CallRecvShape, EndShape, CloseShape
  <2>5. ASSUME NEW c \in Clients, shared' = shared \cup {c} PROVE Pipe!Next
    <3>1. Pipe!Share(c)
      BY <2>1, <2>3, <2>5 DEF Pipe!Share
    <3> QED BY <3>1 DEF Pipe!Next
  <2> QED BY <1>1, <2>1, <2>3, <2>4, <2>5
<1>5. ASSUME NEW t \in Threads, Recv(t) PROVE Pipe!Next
  <2>1. PICK c \in Clients : \E n \in DOMAIN stream[c] : Pipe!Take(t, c, n)
    BY <1>5, RecvTakes
  <2> QED BY <2>1 DEF Pipe!Next
<1>6. ASSUME NEW t \in Threads, BeginWrite(t) PROVE Pipe!Next
  <2>1. Pipe!Deliver(t)
    BY <1>6, BeginDelivers
  <2> QED BY <2>1 DEF Pipe!Next
<1>7. ASSUME NEW t \in Threads, WriteByte(t) \/ Written(t) PROVE UNCHANGED Pipe!vars
  <2>1. UNCHANGED <<program, stream, fresh, shared>>
    BY <1>7 DEF WriteByte, Written, port, sending
  <2>2. UNCHANGED <<PipeHand, PipeLine>>
    BY <1>7, WriteKeeps, WrittenKeeps
  <2> QED BY <1>1, <2>1, <2>2
<1>8. ASSUME NEW c \in Clients, ConnectOrLeave(c) PROVE UNCHANGED Pipe!vars
  <2>1. UNCHANGED <<program, stream, mesg, fresh, line, shared, pc, served>>
    BY <1>8, ClientShape DEF port, sending, loops
  <2> QED BY <1>1, <2>1, NothingMoved
<1>9. ASSUME NEW b \in Bytes, Arrive(b) PROVE UNCHANGED Pipe!vars
  <2>1. UNCHANGED <<program, stream, mesg, fresh, line, shared, pc, served>>
    BY <1>9 DEF Arrive, handoff, port, sending, loops
  <2> QED BY <1>1, <2>1, NothingMoved
<1>10. ASSUME NEW c \in Clients, NEW b \in Bytes, Send(c, b) PROVE Pipe!Next
  <2>1. Pipe!Send(c, b)
    BY <1>10, SendSends
  <2> QED BY <2>1 DEF Pipe!Next
<1> QED
  BY <1>2, <1>3, <1>4, <1>5, <1>6, <1>7, <1>8, <1>9, <1>10 DEF Next, Loop

(***************************************************************************)
(* Both bridges implement SerialPipe, with two threads on one connection   *)
(* too: whatever recv cuts, no message is mixed with another and the bytes *)
(* of a client that one loop serves leave in order; wifiuart loses what    *)
(* follows a zero byte and may add noise to a thread's first message, and  *)
(* makes nothing else of the bytes; wificom, nothing at all.               *)
(***************************************************************************)
THEOREM BridgesCarryAsPipe == Spec => CarriesAsPipe
<1>1. Init => Pipe!Init
  <2> SUFFICES ASSUME Init PROVE Pipe!Init
    OBVIOUS
  <2>1. PipeHand = [t \in Threads |-> Pipe!Empty]
    BY DEF Init, PipeHand, Pipe!Empty
  <2>2. PipeLine = << >>
    BY LineWithout DEF Init
  <2> QED BY <2>1, <2>2 DEF Init, Pipe!Init
<1> QED BY <1>1, AlwaysServed, PipeStep, OneWriterStep, PTL
        DEF Spec, CarriesAsPipe, Pipe!Spec
=============================================================================
