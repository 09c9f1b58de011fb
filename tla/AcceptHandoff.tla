--------------------------- MODULE AcceptHandoff ---------------------------
(***************************************************************************)
(* How main hands an accepted connection to its receiver thread, in both   *)
(* cars and in the bridge: it stores the descriptor in the global clifd,   *)
(* creates the thread with &clifd, and accepts the next one, while the     *)
(* thread copies what that points to when it first runs.  Descriptors are  *)
(* the kernel's: a closed one is given out again, lowest first.  Checked   *)
(* as a part of WifiUart.                                                  *)
(***************************************************************************)
EXTENDS Integers, FiniteSets, FiniteSetsExt

CONSTANTS
  Connections,   \* the connections clients make, each once
  Threads,       \* bound: the receiver threads that can be created
  Fds,           \* the descriptors accept may return
  Nobody,        \* what a free descriptor refers to
  Failures       \* the calls that may fail: a subset of {"accept", "create"}

HandoffAssumption ==
  /\ Fds \subseteq Nat /\ IsFiniteSet(Fds)
  /\ Nobody \notin Connections
  /\ Failures \subseteq {"accept", "create"}

NoFd == -1

VARIABLES
  mainPc,       \* main is at "accept" or at "create"
  clifd,        \* the global
  file,         \* what each descriptor refers to
  client,       \* each client is "away", "waiting", "connected" or "left"
  pc,           \* control of each receiver thread
  fd,           \* each thread's copy of the descriptor
  served,       \* the connection a thread's recv waits on
  overtaken,    \* history: clifd was overwritten before a thread copied it
  unserved      \* history: a pthread_create failed

kernel  == <<file, client>>
history == <<overtaken, unserved>>
vars == <<mainPc, clifd, kernel, pc, fd, served, history>>

Init ==
  /\ mainPc = "accept"
  /\ clifd = 0
  /\ file = [d \in Fds |-> Nobody]
  /\ client = [c \in Connections |-> "away"]
  /\ pc = [t \in Threads |-> "none"]
  /\ fd = [t \in Threads |-> NoFd]
  /\ served = [t \in Threads |-> Nobody]
  /\ overtaken = FALSE
  /\ unserved = FALSE

FreeFds == {d \in Fds : file[d] = Nobody}

----------------------------------------------------------------------------
(* The clients. *)

Connect(c) ==
  /\ client[c] = "away"
  /\ client' = [client EXCEPT ![c] = "waiting"]
  /\ UNCHANGED <<mainPc, clifd, file, pc, fd, served, history>>

Leave(c) ==
  /\ client[c] = "connected"
  /\ client' = [client EXCEPT ![c] = "left"]
  /\ UNCHANGED <<mainPc, clifd, file, pc, fd, served, history>>

----------------------------------------------------------------------------
(* main: the accept loop.  A failed accept is printed and its -1 handed    *)
(* on.  The bound on Threads keeps main from accepting.                    *)

Accept ==
  /\ mainPc = "accept"
  /\ \E t \in Threads : pc[t] = "none"
  /\ \/ \E c \in Connections :
          /\ client[c] = "waiting" /\ FreeFds # {}
          /\ clifd' = Min(FreeFds)
          /\ file' = [file EXCEPT ![Min(FreeFds)] = c]
          /\ client' = [client EXCEPT ![c] = "connected"]
     \/ /\ "accept" \in Failures
        /\ clifd' = NoFd
        /\ UNCHANGED kernel
  /\ overtaken' = (overtaken \/ \E t \in Threads : pc[t] = "start")
  /\ mainPc' = "create"
  /\ UNCHANGED <<pc, fd, served, unserved>>

Create ==
  /\ mainPc = "create"
  /\ mainPc' = "accept"
  /\ \/ \E t \in Threads :
          /\ pc[t] = "none"
          /\ pc' = [pc EXCEPT ![t] = "start"]
          /\ UNCHANGED unserved
     \/ /\ "create" \in Failures
        /\ unserved' = TRUE
        /\ UNCHANGED pc
  /\ UNCHANGED <<clifd, kernel, fd, served, overtaken>>

----------------------------------------------------------------------------
(* The receiver threads: pthread_wifiCon and the loop of receiveCommand.   *)

CopyFd(t) ==
  /\ pc[t] = "start"
  /\ fd' = [fd EXCEPT ![t] = clifd]
  /\ pc' = [pc EXCEPT ![t] = "recv"]
  /\ UNCHANGED <<mainPc, clifd, kernel, served, history>>

IsOpen(d) == d \in Fds /\ file[d] # Nobody

\* recv looks its descriptor up once and waits on that connection; on a
\* descriptor that is not open it fails at once.
CallRecv(t) ==
  /\ pc[t] = "recv"
  /\ IF IsOpen(fd[t])
     THEN /\ served' = [served EXCEPT ![t] = file[fd[t]]]
          /\ pc' = [pc EXCEPT ![t] = "waits"]
     ELSE /\ pc' = [pc EXCEPT ![t] = "close"]
          /\ UNCHANGED served
  /\ UNCHANGED <<mainPc, clifd, kernel, fd, history>>

\* Where the loop goes on after n > 0 bytes.
AfterCommandQuit == "exited"   \* mutant: one command per connection
AfterCommand == "recv"

ReceiveCommand(t) ==
  /\ pc[t] = "waits" /\ client[served[t]] = "connected"
  /\ pc' = [pc EXCEPT ![t] = AfterCommand]
  /\ UNCHANGED <<mainPc, clifd, kernel, fd, served, history>>

\* recv returned 0: the client has left.
EndOfStream(t) ==
  /\ pc[t] = "waits" /\ client[served[t]] = "left"
  /\ pc' = [pc EXCEPT ![t] = "close"]
  /\ UNCHANGED <<mainPc, clifd, kernel, fd, served, history>>

\* The descriptor the thread closes.  Mutants: the global; none at all.
ClosedFdGlobal(t) == clifd
ClosedFdNone(t) == NoFd
ClosedFd(t) == fd[t]

Close(t) ==
  /\ pc[t] = "close"
  /\ file' = IF IsOpen(ClosedFd(t)) THEN [file EXCEPT ![ClosedFd(t)] = Nobody]
                                    ELSE file
  /\ pc' = [pc EXCEPT ![t] = "exited"]
  /\ UNCHANGED <<mainPc, clifd, client, fd, served, history>>

Receiver(t) ==
  CopyFd(t) \/ CallRecv(t) \/ ReceiveCommand(t) \/ EndOfStream(t) \/ Close(t)

Next ==
  \/ \E c \in Connections : Connect(c) \/ Leave(c)
  \/ Accept \/ Create
  \/ \E t \in Threads : Receiver(t)

Spec == Init /\ [][Next]_vars

----------------------------------------------------------------------------
(***************************************************************************)
(* The threads that hold, or are about to copy, descriptor d.              *)
(***************************************************************************)
Holders(d) ==
  {t \in Threads : \/ pc[t] \in {"recv", "waits", "close"} /\ fd[t] = d
                   \/ pc[t] = "start" /\ clifd = d}

(***************************************************************************)
(* As long as every thread copies clifd before main accepts again (and no  *)
(* pthread_create fails), an open connection has exactly one thread, or    *)
(* main is about to create it.                                             *)
(***************************************************************************)
OneThreadPerConnection ==
  ~overtaken /\ ~unserved =>
    \A d \in Fds : file[d] # Nobody =>
       Cardinality(Holders(d)) =
         IF mainPc = "create" /\ clifd = d THEN 0 ELSE 1

(***************************************************************************)
(* On the same condition a thread closes no connection but its own, though *)
(* descriptors are reused.                                                 *)
(***************************************************************************)
ClosesOnlyItsOwn ==
  [][ ~overtaken => \A t \in Threads, d \in Fds :
        (pc[t] = "close" /\ pc'[t] = "exited" /\ file'[d] # file[d]) =>
           file[d] = served[t] /\ client[file[d]] = "left" ]_vars
============================================================================
