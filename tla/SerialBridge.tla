---------------------------- MODULE SerialBridge ----------------------------
(***************************************************************************)
(* The bytes that pass through the bridges.  Two programs share the serial *)
(* port code and the loop around recv and write:                           *)
(*                                                                         *)
(*   wifiuart  (Matrix-wifiuart.c and its nanopi2 copy) has a thread for   *)
(*             each connection and a semaphore around write.  It hands the *)
(*             connections to its threads as AcceptHandoff does, so that   *)
(*             two threads may serve one.  The client list, and what it    *)
(*             sends to the clients, is in WifiUart;                       *)
(*   wificom   (matrix_wifiuart/Matrix-wificom.c) accepts once.  main      *)
(*             serves that client for ever, a second thread sends it what  *)
(*             the UART delivers.                                          *)
(*                                                                         *)
(* write puts its bytes on the line one by one.  It does not fail.         *)
(***************************************************************************)
EXTENDS Integers, Sequences, FiniteSets, UartPort

CONSTANTS
  Clients,
  Threads,       \* bound: the loops that can ever run
  Fds,           \* the descriptors accept may return
  Nobody,        \* what a free descriptor refers to
  Bytes,         \* the bytes clients and the UART send
  Noise,         \* what may follow a message in a buffer not yet cleared
  MaxSent,       \* bound: the bytes each client sends at most
  MaxArrived,    \* bound on the bytes the UART delivers
  Failures       \* what may fail: a subset of {"setup", "accept", "create"}

ASSUME SerialAssumption ==
  /\ Nobody \notin Clients
  /\ Fds \subseteq Nat /\ IsFiniteSet(Fds)
  /\ Bytes \subseteq 0 .. 255
  /\ Noise \subseteq Seq(1 .. 255)

VARIABLES
  program,     \* "wifiuart" or "wificom"
  main,        \* main is at "setup", "accept" or "create", "serves", or "exited"
  termios,     \* the settings of the port, << >> before main made them
  conn,        \* each client is "away", "waiting", "connected" or "left"
  clifd, file, pc, fd, served, overtaken, unserved,    \* of AcceptHandoff
  stream,      \* the bytes each client wrote and recv has not returned
  budget,      \* the bytes each client may still send
  mesg,        \* each loop's buffer: the bytes still to be written
  fresh,       \* the loops whose buffer was never cleared
  shared,      \* history: the clients two loops have waited on
  uart_sem,
  line,        \* history: the bytes written to the UART
  uart2WiFi,   \* wificom's UART thread runs
  incoming,    \* the bytes the UART received and read has not returned
  shown,       \* history: the bytes sent to wificom's client
  arrived      \* history: the bytes the UART received

Handoff == INSTANCE AcceptHandoff WITH
  Connections <- Clients, mainPc <- main, client <- conn

handoff == <<main, conn, clifd, file, pc, fd, served, overtaken, unserved>>
port    == <<program, termios>>
sending == <<stream, budget>>
loops   == <<mesg, fresh, uart_sem, line>>
back    == <<uart2WiFi, incoming, shown, arrived>>
vars == <<handoff, port, sending, loops, shared, back>>

Init ==
  /\ program \in {"wifiuart", "wificom"}
  /\ main = "setup"
  /\ termios = << >>
  /\ conn = [c \in Clients |-> "away"]
  /\ clifd = 0
  /\ file = [d \in Fds |-> Nobody]
  /\ pc = [t \in Threads |-> "none"]
  /\ fd = [t \in Threads |-> Handoff!NoFd]
  /\ served = [t \in Threads |-> Nobody]
  /\ overtaken = FALSE /\ unserved = FALSE
  /\ stream = [c \in Clients |-> << >>]
  /\ budget = MaxSent
  /\ mesg = [t \in Threads |-> << >>]
  /\ fresh = Threads
  /\ shared = {}
  /\ uart_sem = 1
  /\ line = << >>
  /\ uart2WiFi = FALSE
  /\ incoming = << >> /\ shown = << >> /\ arrived = << >>

Succeeds(call) == IF call \in Failures THEN BOOLEAN ELSE {TRUE}

----------------------------------------------------------------------------
(* main.  A call of the set-up that fails ends the program: socket, bind,  *)
(* listen, open_port, set_opt.                                             *)

SetUp ==
  /\ main = "setup"
  /\ \E others, opens \in Succeeds("setup") :
       main' = IF others /\ OpenPort(0, 4, opens) # NoPort THEN "accept"
                                                           ELSE "exited"
  /\ termios' = SetOpt(9600, 8, "N", 1)
  /\ UNCHANGED <<conn, clifd, file, pc, fd, served, overtaken, unserved,
                 program, sending, loops, shared, back>>

Accept ==
  /\ Handoff!Accept
  /\ UNCHANGED <<port, sending, loops, shared, back>>

\* wifiuart creates a thread and accepts the next connection.
CreateThread ==
  /\ program = "wifiuart"
  /\ Handoff!Create
  /\ UNCHANGED <<port, sending, loops, shared, back>>

\* wificom creates the UART thread and enters the loop with what accept
\* returned.  On the -1 of a failed accept recv fails for ever, which changes
\* nothing.
EnterLoop(t) ==
  /\ program = "wificom" /\ main = "create" /\ pc[t] = "none"
  /\ main' = "serves"
  /\ uart2WiFi' \in Succeeds("create")
  /\ IF Handoff!IsOpen(clifd)
     THEN fd' = [fd EXCEPT ![t] = clifd] /\ pc' = [pc EXCEPT ![t] = "recv"]
     ELSE UNCHANGED <<fd, pc>>
  /\ UNCHANGED <<conn, clifd, file, served, overtaken, unserved, port, sending,
                 loops, shared, incoming, shown, arrived>>

----------------------------------------------------------------------------
(* pthread_wifiUart and wifi2uart.  wifiuart writes strlen(mesg) bytes     *)
(* under the semaphore, wificom the n bytes it received, without one.      *)

Running == main \notin {"setup", "exited"}
Goto(t, l) == pc' = [pc EXCEPT ![t] = l]
StaysHandedOff == UNCHANGED <<main, conn, clifd, file, fd, served, overtaken, unserved>>

CopyFd(t) ==
  /\ Running
  /\ Handoff!CopyFd(t)
  /\ UNCHANGED <<port, sending, loops, shared, back>>

\* The other loops that have waited on what recv finds behind t's descriptor.
Others(t) == {s \in Threads \ {t} : served[s] = file[fd[t]]}

CallRecv(t) ==
  /\ Running
  /\ Handoff!CallRecv(t)
  /\ shared' = IF Handoff!IsOpen(fd[t]) /\ Others(t) # {}
               THEN shared \cup {file[fd[t]]} ELSE shared
  /\ UNCHANGED <<port, sending, loops, back>>

\* recv asks for 4096 bytes.  More than mesg holds (with the zero that strlen
\* needs) would overrun it: undefined behaviour, left out.
MAXLINE == 5
MAXRECVBUFF == 1024
Fits(n) == IF program = "wificom" THEN n <= MAXLINE ELSE n < MAXRECVBUFF

Recv(t) ==
  /\ Running /\ pc[t] = "waits"
  /\ \E n \in DOMAIN stream[served[t]] :
       /\ Fits(n)
       /\ mesg' = [mesg EXCEPT ![t] = SubSeq(stream[served[t]], 1, n)]
       /\ stream' = [stream EXCEPT ![served[t]] = SubSeq(@, n + 1, Len(@))]
  /\ Goto(t, "got")
  /\ StaysHandedOff
  /\ UNCHANGED <<port, budget, fresh, uart_sem, line, shared, back>>

\* What strlen counts in a buffer.
UpToZero(buf) ==
  CHOOSE s \in {SubSeq(buf, 1, n) : n \in 0 .. Len(buf)} :
    /\ \A i \in DOMAIN s : s[i] # 0
    /\ Len(s) < Len(buf) => buf[Len(s) + 1] = 0

\* Mutant: the semaphore is not waited for.
SemFreeAlways == TRUE
SemFree == uart_sem > 0

\* wifiuart's sem_wait and the strlen behind it.  (The memset that follows the
\* write is nothing another loop can tell, so fresh is updated here.)
LockedWrite(t) ==
  /\ program = "wifiuart"
  /\ SemFree
  /\ uart_sem' = uart_sem - 1
  /\ \E rest \in {<< >>} \cup (IF t \in fresh THEN Noise ELSE {}) :
       mesg' = [mesg EXCEPT ![t] = UpToZero(@ \o rest)]

PlainWriteStrlen(t) ==   \* mutant: wificom counts as wifiuart does
  /\ program = "wificom"
  /\ mesg' = [mesg EXCEPT ![t] = UpToZero(@)]
  /\ UNCHANGED uart_sem

PlainWrite(t) == program = "wificom" /\ UNCHANGED <<uart_sem, mesg>>

BeginWrite(t) ==
  /\ Running /\ pc[t] = "got"
  /\ LockedWrite(t) \/ PlainWrite(t)
  /\ fresh' = fresh \ {t}
  /\ Goto(t, "write")
  /\ StaysHandedOff
  /\ UNCHANGED <<port, sending, line, shared, back>>

WriteByte(t) ==
  /\ Running /\ pc[t] = "write" /\ mesg[t] # << >>
  /\ line' = Append(line, OnLine(termios, Head(mesg[t])))
  /\ mesg' = [mesg EXCEPT ![t] = Tail(@)]
  /\ UNCHANGED <<handoff, port, sending, fresh, uart_sem, shared, back>>

\* Mutant: sem_post is forgotten.
PostedNever == uart_sem
Posted == IF program = "wifiuart" THEN uart_sem + 1 ELSE uart_sem

\* sem_post, and back to recv.
Written(t) ==
  /\ Running /\ pc[t] = "write" /\ mesg[t] = << >>
  /\ uart_sem' = Posted
  /\ Goto(t, "recv")
  /\ StaysHandedOff
  /\ UNCHANGED <<port, sending, mesg, fresh, line, shared, back>>

\* recv returns 0: wifiuart's loop ends; wificom's main tries again for ever,
\* which changes nothing.
EndOfStream(t) ==
  /\ Running /\ program = "wifiuart"
  /\ Handoff!EndOfStream(t) /\ stream[served[t]] = << >>
  /\ UNCHANGED <<port, sending, loops, shared, back>>

\* Only a thread that found its entry in the client list closes: see WifiUart.
Close(t) ==
  /\ Running
  /\ \/ Handoff!Close(t)
     \/ pc[t] = "close" /\ Goto(t, "exited") /\ StaysHandedOff
  /\ UNCHANGED <<port, sending, loops, shared, back>>

Loop(t) ==
  \/ CopyFd(t) \/ CallRecv(t) \/ Recv(t) \/ BeginWrite(t) \/ WriteByte(t)
  \/ Written(t) \/ EndOfStream(t) \/ Close(t)

----------------------------------------------------------------------------
(* pthread_UART2WiFi of wificom: read, then send to clifd.  What is sent   *)
(* to a client that has left is lost, or ends the process by SIGPIPE.      *)
(* (read asks for 256 bytes, of which buff holds half: as with recv.)      *)

Accepted == IF Handoff!IsOpen(clifd) THEN file[clifd] ELSE Nobody

UART2WiFi ==
  /\ Running /\ uart2WiFi /\ incoming # << >>
  /\ \E n \in DOMAIN incoming :
       /\ n <= 128
       /\ incoming' = SubSeq(incoming, n + 1, Len(incoming))
       /\ IF Accepted # Nobody /\ conn[Accepted] = "connected"
          THEN /\ shown' = shown \o [i \in 1 .. n |-> FromLine(termios, incoming[i])]
               /\ UNCHANGED main
          ELSE /\ main' \in {main} \cup (IF Accepted = Nobody THEN {} ELSE {"exited"})
               /\ UNCHANGED shown
  /\ UNCHANGED <<conn, clifd, file, pc, fd, served, overtaken, unserved, port,
                 sending, loops, shared, uart2WiFi, arrived>>

----------------------------------------------------------------------------
(* The clients, and the device at the other end of the serial line. *)

ConnectOrLeave(c) ==
  /\ Running
  /\ Handoff!Connect(c) \/ Handoff!Leave(c)
  /\ UNCHANGED <<port, sending, loops, shared, back>>

Send(c, b) ==
  /\ conn[c] \in {"waiting", "connected"} /\ budget[c] > 0
  /\ stream' = [stream EXCEPT ![c] = Append(@, b)]
  /\ budget' = [budget EXCEPT ![c] = @ - 1]
  /\ UNCHANGED <<handoff, port, loops, shared, back>>

Arrive(b) ==
  /\ program = "wificom" /\ main # "setup" /\ Len(arrived) < MaxArrived
  /\ incoming' = Append(incoming, b)
  /\ arrived' = Append(arrived, b)
  /\ UNCHANGED <<handoff, port, sending, loops, shared, uart2WiFi, shown>>

Next ==
  \/ SetUp \/ Accept \/ CreateThread \/ UART2WiFi
  \/ \E t \in Threads : EnterLoop(t) \/ Loop(t)
  \/ \E c \in Clients : ConnectOrLeave(c)
  \/ \E b \in Bytes : Arrive(b) \/ \E c \in Clients : Send(c, b)

Spec == Init /\ [][Next]_vars

\* The loops and the UART thread are scheduled.
FairSpec ==
  Spec /\ WF_vars(UART2WiFi) /\ \A t \in Threads : WF_vars(Loop(t))

----------------------------------------------------------------------------
(***************************************************************************)
(* Both bridges implement SerialPipe: whatever recv cuts, the bytes of a   *)
(* client that one loop serves leave in order, and no message is mixed     *)
(* with another, though the threads race; wifiuart loses what follows the  *)
(* first zero byte of a message (strlen), may add noise to the first       *)
(* message of a thread, and makes nothing else of the bytes.  The messages *)
(* of a connection that two threads have taken over (see AcceptHandoff)    *)
(* leave whole, in the order in which the threads get the semaphore.       *)
(***************************************************************************)
Writers == {t \in Threads : pc[t] = "write"}

PipeHand ==
  [t \in Threads |-> IF pc[t] = "got" THEN [from |-> served[t], run |-> mesg[t]]
                                      ELSE [from |-> Nobody, run |-> << >>]]
PipeLine ==
  IF Writers = {} THEN line ELSE line \o mesg[CHOOSE t \in Writers : TRUE]

Pipe == INSTANCE SerialPipe WITH
  Carriers <- Threads,
  exact    <- program = "wificom",
  hand     <- PipeHand,
  line     <- PipeLine

CarriesAsPipe == Pipe!Spec

(***************************************************************************)
(* No message is left lying: as long as descriptors are handed over in     *)
(* time, a loop receives all its client sent, also what the client left    *)
(* behind; what it holds it writes and then goes back to recv, also when   *)
(* it had to wait for the others; and what the UART received is read,      *)
(* unless the process ends.  (What of a message is written is what         *)
(* CarriesAsPipe says.)                                                    *)
(***************************************************************************)
SentIsWritten ==
  /\ \A c \in Clients :
       (stream[c] # << >> /\ \E t \in Threads : served[t] = c /\ pc[t] # "exited") ~>
         (main = "exited" \/ overtaken \/ stream[c] = << >>)
  /\ \A t \in Threads : pc[t] = "got" ~> (main = "exited" \/ pc[t] = "recv")
  /\ (uart2WiFi /\ incoming # << >>) ~> (main = "exited" \/ incoming = << >>)

(***************************************************************************)
(* wificom's client may count: once main serves it, every byte it sends,   *)
(* or sent before, leaves on the line, also after it has left.             *)
(***************************************************************************)
AllBytesLeave ==
  \A c \in Clients : \A k \in 1 .. MaxSent[c] :
    (program = "wificom" /\ main = "serves" /\ Accepted = c
       /\ MaxSent[c] - budget[c] >= k) ~>
      (main = "exited" \/ Len(line) >= k)

(***************************************************************************)
(* As long as wificom's client is there, it has received in order and      *)
(* unchanged what the UART received, up to what read has not returned: the *)
(* port set up for eight bits keeps them, and bytes from before the accept *)
(* wait for the client.                                                    *)
(***************************************************************************)
ClientSeesUart ==
  (program = "wificom" /\ Accepted # Nobody /\ conn[Accepted] = "connected") =>
    shown \o incoming = arrived
=============================================================================
