--------------------------- MODULE WifiUartProofs ---------------------------
(***************************************************************************)
(* Theorems about WifiUart and, on the way, about AcceptHandoff, for any   *)
(* numbers of connections, threads, descriptors and nodes, from            *)
(* BridgeAssumption.                                                       *)
(*                                                                         *)
(* Three invariants build on each other. ListInv says where an open        *)
(* descriptor is: about to be listed by main, in the list, or about to be  *)
(* closed by the thread that deleted it, and in one of these places only.  *)
(* HandoffInv says who uses a descriptor: while no clifd was overwritten,  *)
(* one thread, or main, and what is used is open. It needs ListInv,        *)
(* because a thread that finds no entry ends without closing. WalkInv says *)
(* what the UART thread has sent. What the list operations do is taken     *)
(* from ClientRingProofs.                                                  *)
(***************************************************************************)
EXTENDS WifiUart, TLAPS, FiniteSetTheorems, WellFoundedInduction

Rings == INSTANCE ClientRingProofs WITH Descriptors <- Fds \cup {Handoff!NoFd}

\* What the assumptions say of descriptors and of the two null values.
LEMMA FdFacts ==
  /\ Fds \subseteq Nat /\ 0 \notin Fds /\ Handoff!NoFd = -1 /\ -1 \notin Fds
  /\ Nobody \notin Connections /\ NULL \notin Nodes
BY BridgeAssumption DEF Handoff!HandoffAssumption, Ring!RingAssumption, Handoff!NoFd

\* The kernel gives out a free descriptor, if there is one.
LEMMA LowestFree == Handoff!FreeFds # {} => Handoff!Min(Handoff!FreeFds) \in Handoff!FreeFds
<1>1. Handoff!FreeFds \subseteq Nat
  BY FdFacts DEF Handoff!FreeFds
<1> SUFFICES ASSUME Handoff!FreeFds # {} PROVE Handoff!Min(Handoff!FreeFds) \in Handoff!FreeFds
  OBVIOUS
<1>2. PICK d \in Handoff!FreeFds : \A e \in Handoff!FreeFds : ~(<<e, d>> \in OpToRel(<, Nat))
  BY <1>1, WFMin, NatLessThanWellFounded
<1>3. \A e \in Handoff!FreeFds : ~(e < d)
  BY <1>1, <1>2 DEF OpToRel
<1>4. \A e \in Handoff!FreeFds : d <= e
  BY <1>1, <1>3
<1> QED BY <1>4 DEF Handoff!Min

----------------------------------------------------------------------------
(* The hand-off of descriptors, in the bridge as in the cars. *)

HandoffTypes ==
  /\ mainPc \in {"accept", "create"}
  /\ clifd \in Int
  /\ file \in [Fds -> Connections \cup {Nobody}]
  /\ client \in [Connections -> {"away", "waiting", "connected", "left"}]
  /\ pc \in [Threads -> {"none", "start", "recv", "waits", "close", "exited"}]
  /\ fd \in [Threads -> Int]
  /\ served \in [Threads -> Connections \cup {Nobody}]
  /\ overtaken \in BOOLEAN /\ unserved \in BOOLEAN

\* A thread that has not copied clifd yet, one that has, and a clifd that
\* nobody has copied yet.
Starting(t) == pc[t] = "start"
Holding(t) == pc[t] \in {"recv", "waits", "close"}
Handing == mainPc = "create" \/ \E t \in Threads : Starting(t)

\* No descriptor has two users, and the one that main hands on has none yet.
OneUser ==
  /\ mainPc = "create" => \A t \in Threads : ~Starting(t)
  /\ \A t, u \in Threads : Starting(t) /\ Starting(u) => t = u
  /\ \A t, u \in Threads :
       Holding(t) /\ Holding(u) /\ fd[t] = fd[u] /\ fd[t] \in Fds => t = u
  /\ Handing /\ clifd \in Fds => \A t \in Threads : Holding(t) => fd[t] # clifd

\* What is used is open, and a thread knows whom it serves.
UsedAreOpen ==
  /\ Handing /\ clifd \in Fds => file[clifd] # Nobody
  /\ \A t \in Threads : Holding(t) /\ fd[t] \in Fds => file[fd[t]] # Nobody
  /\ \A t \in Threads : pc[t] = "waits" => fd[t] \in Fds /\ served[t] = file[fd[t]]
  /\ \A t \in Threads : pc[t] = "close" /\ fd[t] \in Fds =>
       served[t] = file[fd[t]] /\ client[served[t]] = "left"

\* And what is open is used.
OpenAreUsed ==
  \A d \in Fds : file[d] # Nobody /\ ~(mainPc = "create" /\ clifd = d) =>
    \E t \in Threads : \/ Holding(t) /\ fd[t] = d
                       \/ Starting(t) /\ clifd = d

\* Overwriting clifd breaks all but the types; a failing pthread_create
\* leaves a connection open that nobody uses.
HandoffInv ==
  /\ HandoffTypes
  /\ ~overtaken => OneUser /\ UsedAreOpen
  /\ ~overtaken /\ ~unserved => OpenAreUsed

\* The thread ends without closing, as the bridge's does when its entry is
\* not listed.
GiveUp(t) ==
  /\ pc[t] = "close"
  /\ pc' = [pc EXCEPT ![t] = "exited"]
  /\ UNCHANGED <<mainPc, clifd, file, client, fd, served, overtaken, unserved>>

\* A step of the hand-off, in the cars or in the bridge.
HandoffStep == Handoff!Next \/ \E t \in Threads : GiveUp(t)

LEMMA HandoffInit == Handoff!Init => HandoffInv
<1> SUFFICES ASSUME Handoff!Init PROVE HandoffInv
  OBVIOUS
<1> USE DEF Handoff!Init
<1>1. HandoffTypes
  <2>1. fd \in [Threads -> Int] /\ clifd \in Int
    BY FdFacts
  <2> QED BY <2>1 DEF HandoffTypes
<1>2. mainPc = "accept" /\ \A t \in Threads : ~Starting(t) /\ ~Holding(t)
  BY DEF Starting, Holding
<1>3. OneUser
  BY <1>2 DEF OneUser, Handing
<1>4. UsedAreOpen
  BY <1>2 DEF UsedAreOpen, Handing, Holding
<1>5. OpenAreUsed
  BY DEF OpenAreUsed
<1> QED BY <1>1, <1>3, <1>4, <1>5 DEF HandoffInv

LEMMA HandoffTypesStep ==
  ASSUME HandoffTypes, [HandoffStep]_handoff PROVE HandoffTypes'
<1> USE DEF HandoffTypes, Handoff!kernel, Handoff!history
<1>1. ASSUME NEW c \in Connections, Handoff!Connect(c) PROVE HandoffTypes'
  BY <1>1 DEF Handoff!Connect
<1>2. ASSUME NEW c \in Connections, Handoff!Leave(c) PROVE HandoffTypes'
  BY <1>2 DEF Handoff!Leave
<1>3. ASSUME Handoff!Accept PROVE HandoffTypes'
  <2>1. overtaken' \in BOOLEAN
    BY <1>3 DEF Handoff!Accept
  <2>2. CASE \E c \in Connections :
               /\ client[c] = "waiting" /\ Handoff!FreeFds # {}
               /\ clifd' = Handoff!Min(Handoff!FreeFds)
               /\ file' = [file EXCEPT ![Handoff!Min(Handoff!FreeFds)] = c]
               /\ client' = [client EXCEPT ![c] = "connected"]
    <3>1. Handoff!Min(Handoff!FreeFds) \in Fds /\ Fds \subseteq Int
      <4>1. Handoff!Min(Handoff!FreeFds) \in Handoff!FreeFds
        BY <2>2, LowestFree
      <4>2. Handoff!FreeFds \subseteq Fds /\ Fds \subseteq Int
        BY FdFacts DEF Handoff!FreeFds
      <4> QED BY <4>1, <4>2
    <3>2. mainPc' = "create" /\ UNCHANGED <<pc, fd, served, unserved>>
      BY <1>3 DEF Handoff!Accept
    <3>3. PICK c \in Connections, d \in Fds :
            /\ clifd' = d /\ file' = [file EXCEPT ![d] = c]
            /\ client' = [client EXCEPT ![c] = "connected"]
      BY <2>2, <3>1
    <3> QED BY <2>1, <3>1, <3>2, <3>3
  <2>3. CASE clifd' = Handoff!NoFd /\ UNCHANGED Handoff!kernel
    BY <1>3, <2>1, <2>3, FdFacts DEF Handoff!Accept
  <2> QED BY <1>3, <2>2, <2>3 DEF Handoff!Accept
<1>4. ASSUME Handoff!Create PROVE HandoffTypes'
  BY <1>4 DEF Handoff!Create
<1>5. ASSUME NEW t \in Threads, Handoff!CopyFd(t) PROVE HandoffTypes'
  BY <1>5 DEF Handoff!CopyFd
<1>6. ASSUME NEW t \in Threads, Handoff!CallRecv(t) PROVE HandoffTypes'
  <2>1. CASE Handoff!IsOpen(fd[t])
    BY <1>6, <2>1 DEF Handoff!CallRecv, Handoff!IsOpen
  <2>2. CASE ~Handoff!IsOpen(fd[t])
    BY <1>6, <2>2 DEF Handoff!CallRecv
  <2> QED BY <2>1, <2>2
<1>7. ASSUME NEW t \in Threads, Handoff!ReceiveCommand(t) \/ Handoff!EndOfStream(t)
      PROVE  HandoffTypes'
  BY <1>7 DEF Handoff!ReceiveCommand, Handoff!EndOfStream, Handoff!AfterCommand
<1>8. ASSUME NEW t \in Threads, Handoff!Close(t) PROVE HandoffTypes'
  BY <1>8 DEF Handoff!Close, Handoff!ClosedFd
<1>9. ASSUME NEW t \in Threads, GiveUp(t) PROVE HandoffTypes'
  BY <1>9 DEF GiveUp
<1>10. ASSUME UNCHANGED handoff PROVE HandoffTypes'
  BY <1>10 DEF handoff
<1> HIDE DEF HandoffTypes, Handoff!kernel, Handoff!history
<1> QED BY <1>1, <1>2, <1>3, <1>4, <1>5, <1>6, <1>7, <1>8, <1>9, <1>10
        DEF HandoffStep, Handoff!Next, Handoff!Receiver

LEMMA OneUserStep ==
  ASSUME HandoffTypes, OneUser, UsedAreOpen, HandoffStep, ~overtaken'
  PROVE  OneUser'
<1> USE DEF HandoffTypes, Handoff!kernel, Handoff!history
<1>1. ASSUME NEW c \in Connections, Handoff!Connect(c) \/ Handoff!Leave(c) PROVE OneUser'
  BY <1>1 DEF Handoff!Connect, Handoff!Leave, OneUser, Starting, Holding, Handing
<1>2. ASSUME Handoff!Accept PROVE OneUser'
  <2>1. /\ mainPc' = "create" /\ UNCHANGED <<pc, fd>>
        /\ \A t \in Threads : ~Starting(t)
    BY <1>2 DEF Handoff!Accept, Starting
  <2>2. clifd' \in Fds => clifd' \in Handoff!FreeFds
    BY <1>2, LowestFree, FdFacts DEF Handoff!Accept
  <2>3. clifd' \in Fds => \A t \in Threads : Holding(t) => fd[t] # clifd'
    BY <2>2 DEF UsedAreOpen, Handoff!FreeFds
  <2> QED BY <2>1, <2>3 DEF OneUser, Starting, Holding, Handing
<1>3. ASSUME Handoff!Create PROVE OneUser'
  <2>1. mainPc = "create" /\ mainPc' = "accept" /\ UNCHANGED <<clifd, fd>>
    BY <1>3 DEF Handoff!Create
  <2>2. CASE \E t \in Threads : pc[t] = "none" /\ pc' = [pc EXCEPT ![t] = "start"]
    BY <2>1, <2>2 DEF OneUser, Starting, Holding, Handing
  <2>3. CASE pc' = pc
    BY <2>1, <2>3 DEF OneUser, Starting, Holding, Handing
  <2> QED BY <1>3, <2>2, <2>3 DEF Handoff!Create
<1>4. ASSUME NEW t \in Threads, Handoff!CopyFd(t) PROVE OneUser'
  <2>1. /\ Starting(t) /\ fd' = [fd EXCEPT ![t] = clifd] /\ pc' = [pc EXCEPT ![t] = "recv"]
        /\ UNCHANGED <<mainPc, clifd>>
    BY <1>4 DEF Handoff!CopyFd, Starting
  <2>2. mainPc = "accept" /\ \A u \in Threads : Starting(u) => u = t
    BY <2>1 DEF OneUser
  <2>3. \A u \in Threads : ~Starting(u)'
    BY <2>1, <2>2 DEF Starting
  <2>4. clifd \in Fds => \A u \in Threads : Holding(u) => fd[u] # clifd
    BY <2>1 DEF OneUser, Handing
  <2>5. \A u, v \in Threads :
          Holding(u)' /\ Holding(v)' /\ fd'[u] = fd'[v] /\ fd'[u] \in Fds => u = v
    <3>1. \A u \in Threads : u # t => (Holding(u)' <=> Holding(u)) /\ fd'[u] = fd[u]
      BY <2>1 DEF Holding
    <3>2. fd'[t] = clifd
      BY <2>1
    <3> QED BY <2>4, <3>1, <3>2 DEF OneUser
  <2> QED BY <2>1, <2>2, <2>3, <2>5 DEF OneUser, Handing
<1>5. ASSUME NEW t \in Threads,
             \/ Handoff!CallRecv(t) \/ Handoff!ReceiveCommand(t) \/ Handoff!EndOfStream(t)
             \/ Handoff!Close(t) \/ GiveUp(t)
      PROVE  OneUser'
  <2>1. UNCHANGED <<mainPc, clifd, fd>>
    BY <1>5 DEF Handoff!CallRecv, Handoff!ReceiveCommand, Handoff!EndOfStream, Handoff!Close,
                GiveUp
  <2>2. pc[t] \in {"recv", "waits", "close"}
    BY <1>5 DEF Handoff!CallRecv, Handoff!ReceiveCommand, Handoff!EndOfStream, Handoff!Close,
                GiveUp
  <2>3. \E l \in {"recv", "waits", "close", "exited"} : pc' = [pc EXCEPT ![t] = l]
    BY <1>5 DEF Handoff!CallRecv, Handoff!ReceiveCommand, Handoff!EndOfStream, Handoff!Close,
                GiveUp, Handoff!AfterCommand
  <2>4. \A u \in Threads : (Starting(u)' <=> Starting(u)) /\ (Holding(u)' => Holding(u))
    BY <2>2, <2>3 DEF Starting, Holding
  <2> HIDE DEF HandoffTypes
  <2> QED BY <2>1, <2>4 DEF OneUser, Handing
<1> HIDE DEF HandoffTypes, Handoff!kernel, Handoff!history
<1> QED BY <1>1, <1>2, <1>3, <1>4, <1>5 DEF HandoffStep, Handoff!Next, Handoff!Receiver

LEMMA UsedAreOpenStep ==
  ASSUME HandoffTypes, OneUser, UsedAreOpen, HandoffStep, ~overtaken'
  PROVE  UsedAreOpen'
<1> USE DEF HandoffTypes, Handoff!kernel, Handoff!history
<1>1. ASSUME NEW c \in Connections, Handoff!Connect(c) \/ Handoff!Leave(c) PROVE UsedAreOpen'
  <2>1. UNCHANGED <<mainPc, clifd, file, pc, fd, served>>
    BY <1>1 DEF Handoff!Connect, Handoff!Leave
  <2>2. \A x \in Connections : client[x] = "left" => client'[x] = "left"
    BY <1>1 DEF Handoff!Connect, Handoff!Leave
  <2>3. \A t \in Threads : Holding(t) /\ fd[t] \in Fds => file[fd[t]] \in Connections
    BY DEF UsedAreOpen
  <2> QED BY <2>1, <2>2, <2>3 DEF UsedAreOpen, Starting, Holding, Handing
<1>2. ASSUME Handoff!Accept PROVE UsedAreOpen'
  <2>1. /\ mainPc' = "create" /\ UNCHANGED <<pc, fd, served>>
    BY <1>2 DEF Handoff!Accept
  <2>2. CASE clifd' = Handoff!NoFd /\ UNCHANGED <<file, client>>
    BY <2>1, <2>2, FdFacts DEF UsedAreOpen, Starting, Holding
  <2>3. CASE \E c \in Connections :
               /\ client[c] = "waiting" /\ Handoff!FreeFds # {}
               /\ clifd' = Handoff!Min(Handoff!FreeFds)
               /\ file' = [file EXCEPT ![Handoff!Min(Handoff!FreeFds)] = c]
               /\ client' = [client EXCEPT ![c] = "connected"]
    <3>1. PICK c \in Connections : /\ client[c] = "waiting" /\ clifd' \in Handoff!FreeFds
                                   /\ file' = [file EXCEPT ![clifd'] = c]
                                   /\ client' = [client EXCEPT ![c] = "connected"]
      BY <2>3, LowestFree
    <3>2. clifd' \in Fds /\ file[clifd'] = Nobody /\ file'[clifd'] # Nobody
      BY <3>1, FdFacts DEF Handoff!FreeFds
    <3>3. \A t \in Threads : Holding(t) /\ fd[t] \in Fds => file'[fd[t]] = file[fd[t]]
      BY <3>1, <3>2 DEF UsedAreOpen
    <3>4. \A x \in Connections : client[x] = "left" => client'[x] = "left"
      BY <3>1
    <3>5. \A t \in Threads : Holding(t) /\ fd[t] \in Fds => file[fd[t]] \in Connections
      BY DEF UsedAreOpen
    <3> QED BY <2>1, <3>2, <3>3, <3>4, <3>5 DEF UsedAreOpen, Starting, Holding
  <2> QED BY <1>2, <2>2, <2>3 DEF Handoff!Accept
<1>3. ASSUME Handoff!Create PROVE UsedAreOpen'
  <2>1. mainPc = "create" /\ mainPc' = "accept" /\ UNCHANGED <<clifd, file, client, fd, served>>
    BY <1>3 DEF Handoff!Create
  <2>2. \A t \in Threads : pc'[t] = pc[t] \/ pc'[t] = "start"
    BY <1>3 DEF Handoff!Create
  <2> QED BY <2>1, <2>2 DEF UsedAreOpen, Holding, Handing
<1>4. ASSUME NEW t \in Threads, Handoff!CopyFd(t) PROVE UsedAreOpen'
  <2>1. /\ Starting(t) /\ fd' = [fd EXCEPT ![t] = clifd] /\ pc' = [pc EXCEPT ![t] = "recv"]
        /\ UNCHANGED <<mainPc, clifd, file, client, served>>
    BY <1>4 DEF Handoff!CopyFd, Starting
  <2>2. clifd \in Fds => file[clifd] # Nobody
    BY <2>1 DEF UsedAreOpen, Handing
  <2> QED BY <2>1, <2>2 DEF UsedAreOpen, Starting, Holding, Handing
<1>5. ASSUME NEW t \in Threads, Handoff!CallRecv(t) PROVE UsedAreOpen'
  <2>1. UNCHANGED <<mainPc, clifd, file, client, fd>> /\ pc[t] = "recv"
    BY <1>5 DEF Handoff!CallRecv
  <2>2. CASE Handoff!IsOpen(fd[t])
    <3>1. /\ served' = [served EXCEPT ![t] = file[fd[t]]]
          /\ pc' = [pc EXCEPT ![t] = "waits"] /\ fd[t] \in Fds
      BY <1>5, <2>2 DEF Handoff!CallRecv, Handoff!IsOpen
    <3> QED BY <2>1, <3>1 DEF UsedAreOpen, Starting, Holding, Handing
  <2>3. CASE ~Handoff!IsOpen(fd[t])
    <3>1. pc' = [pc EXCEPT ![t] = "close"] /\ UNCHANGED served
      BY <1>5, <2>3 DEF Handoff!CallRecv
    <3>2. fd[t] \notin Fds
      BY <2>1, <2>3 DEF UsedAreOpen, Holding, Handoff!IsOpen
    <3> QED BY <2>1, <3>1, <3>2 DEF UsedAreOpen, Starting, Holding, Handing
  <2> QED BY <2>2, <2>3
<1>6. ASSUME NEW t \in Threads, Handoff!ReceiveCommand(t) \/ Handoff!EndOfStream(t)
      PROVE  UsedAreOpen'
  <2>1. UNCHANGED <<mainPc, clifd, file, client, fd, served>> /\ pc[t] = "waits"
    BY <1>6 DEF Handoff!ReceiveCommand, Handoff!EndOfStream
  <2>2. \/ pc' = [pc EXCEPT ![t] = "recv"]
        \/ pc' = [pc EXCEPT ![t] = "close"] /\ client[served[t]] = "left"
    BY <1>6 DEF Handoff!ReceiveCommand, Handoff!EndOfStream, Handoff!AfterCommand
  <2> QED BY <2>1, <2>2 DEF UsedAreOpen, Starting, Holding, Handing
<1>7. ASSUME NEW t \in Threads, Handoff!Close(t) PROVE UsedAreOpen'
  <2>1. /\ UNCHANGED <<mainPc, clifd, client, fd, served>> /\ Holding(t)
        /\ pc' = [pc EXCEPT ![t] = "exited"]
    BY <1>7 DEF Handoff!Close, Holding
  <2>2. \A d \in Fds : d # fd[t] => file'[d] = file[d]
    BY <1>7 DEF Handoff!Close, Handoff!ClosedFd
  <2>3. \A u \in Threads : u # t /\ Holding(u) /\ fd[u] \in Fds => fd[u] # fd[t]
    BY <2>1 DEF OneUser
  <2>4. Handing /\ clifd \in Fds => clifd # fd[t]
    BY <2>1 DEF OneUser
  <2>5. Handing' => Handing
    BY <2>1 DEF Handing, Starting
  <2>6. \A u \in Threads : Holding(u)' => u # t /\ Holding(u) /\ pc'[u] = pc[u]
    BY <2>1 DEF Holding
  <2>7. \A u \in Threads : pc'[u] \in {"waits", "close"} => Holding(u)'
    BY DEF Holding
  <2>8. Handing' /\ clifd' \in Fds => file'[clifd'] # Nobody
    BY <2>1, <2>2, <2>4, <2>5 DEF UsedAreOpen
  <2>9. \A u \in Threads : Holding(u)' /\ fd'[u] \in Fds => file'[fd'[u]] = file[fd[u]]
    BY <2>1, <2>2, <2>3, <2>6
  <2> QED BY <2>1, <2>6, <2>7, <2>8, <2>9 DEF UsedAreOpen
<1>8. ASSUME NEW t \in Threads, GiveUp(t) PROVE UsedAreOpen'
  <2>1. /\ UNCHANGED <<mainPc, clifd, file, client, fd, served>>
        /\ pc' = [pc EXCEPT ![t] = "exited"] /\ pc[t] = "close"
    BY <1>8 DEF GiveUp
  <2> QED BY <2>1 DEF UsedAreOpen, Starting, Holding, Handing
<1> HIDE DEF HandoffTypes, Handoff!kernel, Handoff!history
<1> QED BY <1>1, <1>2, <1>3, <1>4, <1>5, <1>6, <1>7, <1>8
        DEF HandoffStep, Handoff!Next, Handoff!Receiver

LEMMA OpenAreUsedStep ==
  ASSUME HandoffTypes, OneUser, UsedAreOpen, OpenAreUsed, ~overtaken', ~unserved',
         \/ Handoff!Next
         \/ \E t \in Threads : GiveUp(t) /\ ~Handoff!IsOpen(fd[t])
  PROVE  OpenAreUsed'
<1> USE DEF HandoffTypes, Handoff!kernel, Handoff!history
<1> DEFINE Used(d) == \E t \in Threads : \/ Holding(t) /\ fd[t] = d
                                         \/ Starting(t) /\ clifd = d
<1>1. ASSUME NEW c \in Connections, Handoff!Connect(c) \/ Handoff!Leave(c) PROVE OpenAreUsed'
  BY <1>1 DEF Handoff!Connect, Handoff!Leave, OpenAreUsed, Starting, Holding
<1>2. ASSUME Handoff!Accept PROVE OpenAreUsed'
  <2>1. /\ mainPc = "accept" /\ mainPc' = "create" /\ UNCHANGED <<pc, fd>>
        /\ \A t \in Threads : ~Starting(t)
    BY <1>2 DEF Handoff!Accept, Starting
  <2>2. \A d \in Fds : d # clifd' => file'[d] = file[d]
    BY <1>2 DEF Handoff!Accept
  <2> QED BY <2>1, <2>2 DEF OpenAreUsed, Starting, Holding
<1>3. ASSUME Handoff!Create PROVE OpenAreUsed'
  <2>1. /\ mainPc = "create" /\ mainPc' = "accept" /\ UNCHANGED <<clifd, fd, file>>
    BY <1>3 DEF Handoff!Create
  <2>2. PICK t \in Threads : pc[t] = "none" /\ pc' = [pc EXCEPT ![t] = "start"]
    BY <1>3 DEF Handoff!Create
  <2>3. Starting(t)' /\ \A u \in Threads : Holding(u) => Holding(u)'
    BY <2>2 DEF Starting, Holding
  <2>4. \A u \in Threads : Starting(u) => Starting(u)'
    BY <2>2 DEF Starting
  <2> QED BY <2>1, <2>3, <2>4 DEF OpenAreUsed
<1>4. ASSUME NEW t \in Threads, Handoff!CopyFd(t) PROVE OpenAreUsed'
  <2>1. /\ Starting(t) /\ fd' = [fd EXCEPT ![t] = clifd] /\ pc' = [pc EXCEPT ![t] = "recv"]
        /\ UNCHANGED <<mainPc, clifd, file>>
    BY <1>4 DEF Handoff!CopyFd, Starting
  <2>2. Holding(t)' /\ fd'[t] = clifd
    BY <2>1 DEF Holding
  <2>3. \A u \in Threads : Starting(u) => u = t
    BY <2>1 DEF OneUser
  <2>4. \A u \in Threads : Holding(u) => Holding(u)' /\ fd'[u] = fd[u]
    BY <2>1 DEF Holding, Starting
  <2> QED BY <2>1, <2>2, <2>3, <2>4 DEF OpenAreUsed
<1>5. ASSUME NEW t \in Threads,
             Handoff!CallRecv(t) \/ Handoff!ReceiveCommand(t) \/ Handoff!EndOfStream(t)
      PROVE  OpenAreUsed'
  <2>1. UNCHANGED <<mainPc, clifd, file, fd>>
    BY <1>5 DEF Handoff!CallRecv, Handoff!ReceiveCommand, Handoff!EndOfStream
  <2>2. pc[t] \in {"recv", "waits", "close"}
    BY <1>5 DEF Handoff!CallRecv, Handoff!ReceiveCommand, Handoff!EndOfStream
  <2>3. \E l \in {"recv", "waits", "close"} : pc' = [pc EXCEPT ![t] = l]
    BY <1>5 DEF Handoff!CallRecv, Handoff!ReceiveCommand, Handoff!EndOfStream,
                Handoff!AfterCommand
  <2>4. \A u \in Threads : (Starting(u) => Starting(u)') /\ (Holding(u) => Holding(u)')
    BY <2>2, <2>3 DEF Starting, Holding
  <2> HIDE DEF HandoffTypes
  <2> QED BY <2>1, <2>4 DEF OpenAreUsed
<1>6. ASSUME NEW t \in Threads,
             Handoff!Close(t) \/ (GiveUp(t) /\ ~Handoff!IsOpen(fd[t]))
      PROVE  OpenAreUsed'
  <2>1. UNCHANGED <<mainPc, clifd, fd>> /\ pc[t] = "close" /\ pc' = [pc EXCEPT ![t] = "exited"]
    BY <1>6 DEF Handoff!Close, GiveUp
  <2>2. \A d \in Fds : file'[d] # Nobody => d # fd[t] /\ file[d] # Nobody
    <3>1. CASE Handoff!Close(t)
      BY <3>1 DEF Handoff!Close, Handoff!ClosedFd, Handoff!IsOpen
    <3>2. CASE GiveUp(t) /\ ~Handoff!IsOpen(fd[t])
      BY <3>2 DEF GiveUp, Handoff!IsOpen
    <3> QED BY <1>6, <3>1, <3>2
  <2>3. \A u \in Threads : Starting(u) => Starting(u)'
    BY <2>1 DEF Starting
  <2>4. \A u \in Threads : Holding(u) /\ u # t => Holding(u)'
    BY <2>1 DEF Holding
  <2>5. ~Starting(t)
    BY <2>1 DEF Starting
  <2> HIDE DEF HandoffTypes
  <2> QED BY <2>1, <2>2, <2>3, <2>4, <2>5 DEF OpenAreUsed
<1> HIDE DEF HandoffTypes, Handoff!kernel, Handoff!history
<1> QED BY <1>1, <1>2, <1>3, <1>4, <1>5, <1>6 DEF Handoff!Next, Handoff!Receiver

\* What is recorded stays recorded.
LEMMA HistoryGrows ==
  ASSUME HandoffTypes, HandoffStep
  PROVE  (overtaken => overtaken') /\ (unserved => unserved')
BY DEF HandoffTypes, HandoffStep, GiveUp, Handoff!Next, Handoff!Connect, Handoff!Leave,
   Handoff!Accept, Handoff!Create, Handoff!Receiver, Handoff!CopyFd, Handoff!CallRecv,
   Handoff!ReceiveCommand, Handoff!EndOfStream, Handoff!Close, Handoff!history

\* Threads end without closing only if there is nothing to close.
EndsWell == Handoff!Next \/ \E t \in Threads : GiveUp(t) /\ ~Handoff!IsOpen(fd[t])

LEMMA HandoffInvStep ==
  ASSUME HandoffInv, HandoffStep, ~overtaken /\ ~unserved => EndsWell
  PROVE  HandoffInv'
<1>1. HandoffTypes'
  BY HandoffTypesStep DEF HandoffInv
<1>2. (overtaken => overtaken') /\ (unserved => unserved')
  BY HistoryGrows DEF HandoffInv
<1>3. ASSUME ~overtaken' PROVE OneUser' /\ UsedAreOpen'
  BY <1>2, <1>3, OneUserStep, UsedAreOpenStep DEF HandoffInv
<1>4. ASSUME ~overtaken', ~unserved' PROVE OpenAreUsed'
  BY <1>2, <1>4, OpenAreUsedStep DEF HandoffInv, EndsWell
<1> QED BY <1>1, <1>3, <1>4 DEF HandoffInv

LEMMA HandoffUnchanged == ASSUME HandoffInv, UNCHANGED handoff PROVE HandoffInv'
BY DEF handoff, HandoffInv, HandoffTypes, OneUser, UsedAreOpen, OpenAreUsed, Starting, Holding,
   Handing

\* Each INSTANCE has the library's operators as its own.
LEMMA SameCardinality == \A S : Handoff!Cardinality(S) = Cardinality(S)
BY Zenon DEF Handoff!Cardinality, Cardinality

\* The threads that hold an open descriptor: exactly one.
LEMMA OneThreadFollows == HandoffInv => Handoff!OneThreadPerConnection
<1> SUFFICES ASSUME HandoffInv, ~overtaken, ~unserved, NEW d \in Fds, file[d] # Nobody
             PROVE  Handoff!Cardinality(Handoff!Holders(d)) =
                      IF mainPc = "create" /\ clifd = d THEN 0 ELSE 1
  BY DEF Handoff!OneThreadPerConnection
<1>1. \A t \in Threads : t \in Handoff!Holders(d) <=> \/ Holding(t) /\ fd[t] = d
                                                      \/ Starting(t) /\ clifd = d
  BY DEF Handoff!Holders, Holding, Starting
<1>2. CASE mainPc = "create" /\ clifd = d
  <2>1. Handoff!Holders(d) = {}
    <3>1. \A t \in Threads : t \notin Handoff!Holders(d)
      BY <1>1, <1>2 DEF HandoffInv, OneUser, Handing
    <3> QED BY <3>1 DEF Handoff!Holders
  <2> QED BY <1>2, <2>1, FS_EmptySet, SameCardinality
<1>3. CASE ~(mainPc = "create" /\ clifd = d)
  <2>1. PICK t \in Threads : t \in Handoff!Holders(d)
    BY <1>1, <1>3 DEF HandoffInv, OpenAreUsed
  <2>2. ASSUME NEW u \in Threads, u \in Handoff!Holders(d) PROVE u = t
    BY <1>1, <2>1, <2>2 DEF HandoffInv, OneUser, Handing
  <2>3. Handoff!Holders(d) = {t}
    BY <2>1, <2>2 DEF Handoff!Holders
  <2> QED BY <1>3, <2>3, FS_Singleton, SameCardinality
<1> QED BY <1>2, <1>3

\* A descriptor that becomes free was closed by the thread that served it.
LEMMA CloseFollows ==
  ASSUME HandoffInv, ~overtaken, NEW t \in Threads, NEW d \in Fds,
         HandoffStep \/ UNCHANGED handoff,
         pc[t] = "close", pc'[t] = "exited", file'[d] # file[d]
  PROVE  file[d] = served[t] /\ client[file[d]] = "left"
<1>1. pc' # pc
  BY DEF HandoffInv, HandoffTypes
<1>2. file' # file
  OBVIOUS
<1>3. PICK u \in Threads : Handoff!Close(u)
  BY <1>1, <1>2 DEF HandoffStep, GiveUp, Handoff!Next, Handoff!Connect, Handoff!Leave,
     Handoff!Accept, Handoff!Create, Handoff!Receiver, Handoff!CopyFd, Handoff!CallRecv,
     Handoff!ReceiveCommand, Handoff!EndOfStream, Handoff!kernel, handoff
<1>4. u = t /\ fd[t] = d
  BY <1>3 DEF Handoff!Close, Handoff!ClosedFd, HandoffInv, HandoffTypes
<1> QED BY <1>4 DEF HandoffInv, UsedAreOpen

(***************************************************************************)
(* In the cars an open connection has exactly one thread, or main is about *)
(* to create it, as long as every thread copies clifd before main accepts  *)
(* again and no pthread_create fails: AcceptHandoff alone, without the     *)
(* list.                                                                   *)
(***************************************************************************)
THEOREM CarsServeEach == Handoff!Spec => []Handoff!OneThreadPerConnection
<1>1. Handoff!Init => HandoffInv
  BY HandoffInit
<1>2. HandoffInv /\ [Handoff!Next]_(Handoff!vars) => HandoffInv'
  <2>1. ASSUME HandoffInv, Handoff!Next PROVE HandoffInv'
    BY <2>1, HandoffInvStep DEF HandoffStep, EndsWell
  <2>2. ASSUME HandoffInv, UNCHANGED Handoff!vars PROVE HandoffInv'
    BY <2>2, HandoffUnchanged DEF Handoff!vars, Handoff!kernel, Handoff!history, handoff
  <2> QED BY <2>1, <2>2
<1>3. HandoffInv => Handoff!OneThreadPerConnection
  BY OneThreadFollows
<1> QED BY <1>1, <1>2, <1>3, PTL DEF Handoff!Spec

----------------------------------------------------------------------------
(* ClientRingProofs speaks of the ring of the bridge: the instances agree. *)

LEMMA SameHop == Rings!Hop = Ring!Hop
BY Zenon DEF Rings!Hop, Ring!Hop, Rings!Follow, Ring!Follow, Rings!Cardinality, Ring!Cardinality

LEMMA SameReached == Rings!Reached = Ring!Reached
BY SameHop DEF Rings!Reached, Ring!Reached

LEMMA SameMembers == Rings!Members = Ring!Members
BY SameHop, SameReached DEF Rings!Members, Ring!Members, Rings!Cardinality, Ring!Cardinality

LEMMA SameMembersNext == Rings!Members' = Ring!Members'
<1>1. (Rings!Members = Ring!Members)'
  BY SameMembers, PTL
<1> QED BY <1>1

LEMMA RingsAssumption == Rings!RingAssumption
BY SameCardinality, BridgeAssumption
   DEF Ring!RingAssumption, Rings!RingAssumption, Ring!IsFiniteSet, Rings!IsFiniteSet

LEMMA SameAppend == ASSUME NEW d PROVE Ring!appendList(d) <=> Rings!appendList(d)
BY DEF Ring!appendList, Ring!AppendFirst, Ring!AppendNew, Ring!Appended,
       Rings!appendList, Rings!AppendFirst, Rings!AppendNew, Rings!Appended

LEMMA SameDelete == ASSUME NEW d PROVE Ring!deleteNode(d) <=> Rings!deleteNode(d)
<1>1. ASSUME NEW i PROVE Ring!Finds(d, i) <=> Rings!Finds(d, i)
  BY SameHop, SameMembers DEF Ring!Finds, Rings!Finds
<1>2. ASSUME NEW i
      PROVE  /\ Ring!DeleteOnly(i) <=> Rings!DeleteOnly(i)
             /\ Ring!DeleteHead(i) <=> Rings!DeleteHead(i)
             /\ Ring!DeleteTail(i) <=> Rings!DeleteTail(i)
             /\ Ring!DeleteAmong(i) <=> Rings!DeleteAmong(i)
  BY DEF Ring!DeleteOnly, Ring!DeleteHead, Ring!DeleteTail, Ring!DeleteAmong,
         Rings!DeleteOnly, Rings!DeleteHead, Rings!DeleteTail, Rings!DeleteAmong,
         Ring!HeadOfEmpty, Ring!Empty, Ring!Beheaded, Ring!FreedAmong,
         Rings!HeadOfEmpty, Rings!Empty, Rings!Beheaded, Rings!FreedAmong
<1>3. UNCHANGED Ring!pointers <=> UNCHANGED Rings!pointers
  BY DEF Ring!pointers, Rings!pointers
<1> QED BY <1>1, <1>2, <1>3 DEF Ring!deleteNode, Rings!deleteNode

LEMMA InitRing == Ring!Init => Rings!Inv
<1>1. Ring!Init => Rings!Init
  BY DEF Ring!Init, Rings!Init, Ring!Empty, Rings!Empty
<1> QED BY <1>1, RingsAssumption, Rings!InitInv DEF Rings!RingAssumption

LEMMA RingUnchanged ==
  ASSUME Rings!Inv, UNCHANGED ring
  PROVE  Rings!Inv' /\ Ring!Members' = Ring!Members
<1>1. UNCHANGED Rings!pointers
  BY DEF ring, Rings!pointers
<1>2. Rings!Inv' /\ Rings!Members' = Rings!Members
  BY <1>1, RingsAssumption, Rings!PointersUnchanged
<1> QED BY <1>1, <1>2, SameMembers, SameMembersNext

----------------------------------------------------------------------------
(* The list, one descriptor at a time. *)

InList(d) == Rings!Occurs(Ring!Members, d)
AtMostOnce(d) == Rings!Once(Ring!Members, d)

\* appendList adds one entry of d, deleteNode takes one away or finds none,
\* and neither touches the entries of another descriptor.
LEMMA AppendedList ==
  ASSUME Rings!Inv, NEW d \in Int, Ring!appendList(d)
  PROVE  /\ Rings!Inv'
         /\ \A e : InList(e)' <=> InList(e) \/ e = d
         /\ \A e : AtMostOnce(e) /\ (e = d => ~InList(e)) => AtMostOnce(e)'
<1>1. Rings!appendList(d)
  BY SameAppend
<1>2. Rings!Inv'
  BY <1>1, RingsAssumption, Rings!AppendStep
<1>3. ASSUME NEW e
      PROVE  /\ InList(e)' <=> InList(e) \/ e = d
             /\ AtMostOnce(e) /\ (e = d => ~InList(e)) => AtMostOnce(e)'
  <2>1. /\ Rings!Occurs(Rings!Members, e)' <=> Rings!Occurs(Rings!Members, e) \/ e = d
        /\ Rings!Once(Rings!Members, e) /\ (e = d => ~Rings!Occurs(Rings!Members, e)) =>
             Rings!Once(Rings!Members, e)'
    BY <1>1, RingsAssumption, Rings!AppendedEntries
  <2> QED BY <2>1, SameMembers, SameMembersNext
          DEF InList, AtMostOnce, Rings!Occurs, Rings!Once
<1> QED BY <1>2, <1>3

LEMMA DeletedList ==
  ASSUME Rings!Inv, NEW d, Ring!deleteNode(d)
  PROVE  /\ Rings!Inv'
         /\ \/ /\ ret' = 0 /\ InList(d)
               /\ \A e : e # d => (InList(e)' <=> InList(e))
               /\ \A e : AtMostOnce(e) => AtMostOnce(e)'
               /\ AtMostOnce(d) => ~InList(d)'
            \/ ret' = -1 /\ Ring!Members' = Ring!Members /\ ~InList(d)
<1>1. Rings!deleteNode(d)
  BY SameDelete
<1>2. Rings!Inv'
  BY <1>1, RingsAssumption, Rings!DeleteStep
<1>3. \/ /\ ret' = 0 /\ Rings!Occurs(Rings!Members, d)
         /\ \A e : e # d => (Rings!Occurs(Rings!Members, e)' <=> Rings!Occurs(Rings!Members, e))
         /\ \A e : Rings!Once(Rings!Members, e) => Rings!Once(Rings!Members, e)'
         /\ Rings!Once(Rings!Members, d) => ~Rings!Occurs(Rings!Members, d)'
      \/ ret' = -1 /\ Rings!Members' = Rings!Members /\ ~Rings!Occurs(Rings!Members, d)
  BY <1>1, RingsAssumption, Rings!DeletedEntries
<1>4. \A e : /\ Rings!Occurs(Rings!Members, e) <=> InList(e)
             /\ Rings!Once(Rings!Members, e) <=> AtMostOnce(e)
             /\ Rings!Occurs(Rings!Members, e)' <=> InList(e)'
             /\ Rings!Once(Rings!Members, e)' <=> AtMostOnce(e)'
  BY SameMembers, SameMembersNext DEF InList, AtMostOnce, Rings!Occurs, Rings!Once
<1> QED BY <1>2, <1>3, <1>4, SameMembers, SameMembersNext

LEMMA UnchangedList ==
  ASSUME Rings!Inv, UNCHANGED ring
  PROVE  /\ Rings!Inv'
         /\ \A e : (InList(e)' <=> InList(e)) /\ (AtMostOnce(e)' <=> AtMostOnce(e))
BY RingUnchanged DEF InList, AtMostOnce, Rings!Occurs, Rings!Once

----------------------------------------------------------------------------
(* Where an open descriptor is. *)

IsOpen(d) == file[d] # Nobody
\* main is about to append d; thread t deleted d and will close it.
Due(d) == listing \in {"due", "adding"} /\ clifd = d
Deleted(t, d) == pc[t] = "close" /\ fd[t] = d /\ entry[t] = "deleted"

\* What the control points of main and of the threads say of each other.
Control ==
  /\ listing \in {"idle", "due", "adding", "done"}
  /\ entry \in [Threads -> {"listed", "deleting", "deleted"}]
  /\ listing = "idle" <=> mainPc = "accept"
  /\ \A t \in Threads : /\ entry[t] # "listed" => pc[t] \in {"close", "exited"}
                        /\ entry[t] = "deleting" => pc[t] = "close"

\* An open descriptor is about to be listed, listed, or about to be closed.
ListInv ==
  \A d \in Fds :
    /\ AtMostOnce(d)
    /\ InList(d) => IsOpen(d) /\ ~Due(d) /\ \A t \in Threads : ~Deleted(t, d)
    /\ Due(d) => IsOpen(d) /\ \A t \in Threads : ~Deleted(t, d)
    /\ \A t \in Threads : Deleted(t, d) => IsOpen(d)
    /\ \A t, u \in Threads : Deleted(t, d) /\ Deleted(u, d) => t = u
    /\ IsOpen(d) => InList(d) \/ Due(d) \/ \E t \in Threads : Deleted(t, d)

\* What holds whatever goes wrong: no condition on clifd or on failures.
Live == HandoffTypes /\ Rings!Inv /\ Control /\ ListInv

LEMMA ListInit == Init => Control /\ ListInv
<1> SUFFICES ASSUME Init PROVE Control /\ ListInv
  OBVIOUS
<1>1. Control
  BY DEF Init, Handoff!Init, Control
<1>2. ASSUME NEW d PROVE ~InList(d)
  <2>1. Ring!Members = << >>
    BY BridgeAssumption DEF Init, Ring!Init, Ring!Members
  <2> QED BY <2>1 DEF InList, Rings!Occurs
<1>3. ListInv
  BY <1>2 DEF Init, Handoff!Init, ListInv, AtMostOnce, Rings!Once, InList, Rings!Occurs,
              IsOpen, Due, Deleted
<1> QED BY <1>1, <1>3

\* What changes neither the list nor who is about to add to it or to close.
LEMMA NothingMoves ==
  ASSUME Live, UNCHANGED <<ring, file>>,
         \A d \in Fds : Due(d)' <=> Due(d),
         \A d \in Fds, t \in Threads : Deleted(t, d)' <=> Deleted(t, d)
  PROVE  ListInv'
<1>1. \A d : (InList(d)' <=> InList(d)) /\ (AtMostOnce(d)' <=> AtMostOnce(d))
  BY UnchangedList DEF Live
<1>2. \A d \in Fds : IsOpen(d)' <=> IsOpen(d)
  BY DEF IsOpen
<1> QED BY <1>1, <1>2 DEF Live, ListInv

\* The new descriptor was free, hence in no place, and is now due.
LEMMA AcceptLists ==
  ASSUME Live, Accept PROVE Control' /\ ListInv'
<1>1. /\ mainPc = "accept" /\ mainPc' = "create" /\ listing = "idle" /\ listing' = "due"
      /\ UNCHANGED <<ring, entry, pc, fd>>
  BY DEF Live, Control, Accept, Handoff!Accept
<1>2. Control'
  BY <1>1 DEF Live, Control
<1>3. /\ clifd' \in Fds => file[clifd'] = Nobody /\ file'[clifd'] # Nobody
      /\ \A d \in Fds : d # clifd' => file'[d] = file[d]
  <2>1. CASE clifd' = Handoff!NoFd /\ UNCHANGED Handoff!kernel
    BY <2>1, FdFacts DEF Handoff!kernel
  <2>2. CASE \E c \in Connections :
               /\ client[c] = "waiting" /\ Handoff!FreeFds # {}
               /\ clifd' = Handoff!Min(Handoff!FreeFds)
               /\ file' = [file EXCEPT ![Handoff!Min(Handoff!FreeFds)] = c]
               /\ client' = [client EXCEPT ![c] = "connected"]
    <3>1. PICK c \in Connections : /\ clifd' \in Handoff!FreeFds
                                   /\ file' = [file EXCEPT ![clifd'] = c]
      BY <2>2, LowestFree
    <3>2. clifd' \in Fds /\ file[clifd'] = Nobody /\ c # Nobody
      BY <3>1, FdFacts DEF Handoff!FreeFds
    <3> QED BY <3>1, <3>2 DEF Live, HandoffTypes
  <2> QED BY <2>1, <2>2 DEF Accept, Handoff!Accept
<1>4. \A d : (InList(d)' <=> InList(d)) /\ (AtMostOnce(d)' <=> AtMostOnce(d))
  BY <1>1, UnchangedList DEF Live
<1>5. \A d \in Fds : ~Due(d) /\ (Due(d)' <=> d = clifd')
  BY <1>1 DEF Due
<1>6. \A d \in Fds, t \in Threads : Deleted(t, d)' <=> Deleted(t, d)
  BY <1>1 DEF Deleted
<1>7. \A d \in Fds : d # clifd' => (IsOpen(d)' <=> IsOpen(d))
  BY <1>3 DEF IsOpen
<1>8. \A d \in Fds : d = clifd' => ~IsOpen(d) /\ IsOpen(d)'
  BY <1>3 DEF IsOpen
<1>9. ListInv'
  BY <1>4, <1>5, <1>6, <1>7, <1>8 DEF Live, ListInv
<1> QED BY <1>2, <1>9

LEMMA MainLists ==
  ASSUME Live, BeginAppend \/ Create PROVE Control' /\ ListInv'
<1>1. CASE BeginAppend
  <2>1. UNCHANGED <<ring, file, clifd, mainPc, pc, fd, entry>> /\ listing = "due" /\ listing' = "adding"
    BY <1>1 DEF BeginAppend, BeginEdit, handoff
  <2>2. Control'
    BY <2>1 DEF Live, Control
  <2>3. ListInv'
    BY <2>1, NothingMoves DEF Due, Deleted
  <2> QED BY <2>2, <2>3
<1>2. CASE Create
  <2>1. /\ UNCHANGED <<ring, file, clifd, fd, entry>> /\ listing = "done" /\ listing' = "idle"
        /\ mainPc' = "accept"
    BY <1>2 DEF Create, Handoff!Create, Handoff!kernel
  <2>2. \/ pc' = pc
        \/ \E t \in Threads : pc[t] = "none" /\ pc' = [pc EXCEPT ![t] = "start"]
    BY <1>2 DEF Create, Handoff!Create
  <2>3. \A t \in Threads : pc'[t] = pc[t] \/ (pc[t] = "none" /\ pc'[t] = "start")
    BY <2>2 DEF Live, HandoffTypes
  <2>4. Control'
    BY <2>1, <2>3 DEF Live, Control
  <2>5. ListInv'
    BY <2>1, <2>3, NothingMoves DEF Due, Deleted
  <2> QED BY <2>4, <2>5
<1> QED BY <1>1, <1>2

\* What was due is listed, for the first time.
LEMMA AppendLists ==
  ASSUME Live, EndAppend PROVE Rings!Inv' /\ Control' /\ ListInv'
<1>1. /\ UNCHANGED <<file, clifd, mainPc, pc, fd, entry>>
      /\ listing = "adding" /\ listing' = "done" /\ Ring!appendList(clifd)
  BY DEF EndAppend, Adding, handoff
<1>2. clifd \in Int
  BY DEF Live, HandoffTypes
<1>3. /\ Rings!Inv'
      /\ \A e : InList(e)' <=> InList(e) \/ e = clifd
      /\ \A e : AtMostOnce(e) /\ (e = clifd => ~InList(e)) => AtMostOnce(e)'
  BY <1>1, <1>2, AppendedList DEF Live
<1>4. Control'
  BY <1>1 DEF Live, Control
<1>5. \A d \in Fds : ~Due(d)' /\ (Due(d) <=> d = clifd)
  BY <1>1 DEF Due
<1>6. \A d \in Fds, t \in Threads : Deleted(t, d)' <=> Deleted(t, d)
  BY <1>1 DEF Deleted
<1>7. \A d \in Fds : IsOpen(d)' <=> IsOpen(d)
  BY <1>1 DEF IsOpen
<1>8. ListInv'
  BY <1>3, <1>5, <1>6, <1>7 DEF Live, ListInv
<1> QED BY <1>3, <1>4, <1>8

LEMMA ReceiverLists ==
  ASSUME Live, NEW t \in Threads, Receive(t) \/ BeginDelete(t)
  PROVE  Control' /\ ListInv'
<1>1. UNCHANGED <<ring, file, clifd, mainPc, listing>>
  BY DEF Receive, BeginDelete, BeginEdit, handoff, Handoff!CopyFd, Handoff!CallRecv,
         Handoff!ReceiveCommand, Handoff!EndOfStream, Handoff!kernel
<1>2. /\ \A u \in Threads : u # t => pc'[u] = pc[u] /\ fd'[u] = fd[u] /\ entry'[u] = entry[u]
      /\ entry[t] = "listed"
      /\ entry'[t] = "listed" \/ (entry'[t] = "deleting" /\ pc'[t] = "close")
      /\ entry' \in [Threads -> {"listed", "deleting", "deleted"}]
  <2>1. CASE Receive(t)
    <3>1. /\ pc[t] \in {"start", "recv", "waits"} /\ UNCHANGED entry
          /\ \E l \in {"recv", "waits", "close"} : pc' = [pc EXCEPT ![t] = l]
          /\ \E x : fd' = [fd EXCEPT ![t] = x]
      <4>1. fd = [fd EXCEPT ![t] = fd[t]]
        BY DEF Live, HandoffTypes
      <4> QED BY <2>1, <4>1 DEF Receive, Handoff!CopyFd, Handoff!CallRecv, Handoff!ReceiveCommand,
                  Handoff!EndOfStream, Handoff!AfterCommand
    <3>2. entry[t] = "listed"
      BY <3>1 DEF Live, Control
    <3> QED BY <3>1, <3>2 DEF Live, Control, HandoffTypes
  <2>2. CASE BeginDelete(t)
    BY <2>2 DEF BeginDelete, handoff, Live, Control
  <2> QED BY <2>1, <2>2
<1>3. Control'
  BY <1>1, <1>2 DEF Live, Control
<1>4. ListInv'
  BY <1>1, <1>2, NothingMoves DEF Due, Deleted
<1> QED BY <1>3, <1>4

\* A thread that found its entry is the one that will close; one that found
\* none changes nothing.
LEMMA DeleteLists ==
  ASSUME Live, NEW t \in Threads, EndDelete(t)
  PROVE  Rings!Inv' /\ Control' /\ ListInv'
<1>f. PICK f : f = fd[t]
  OBVIOUS
<1>1. /\ UNCHANGED <<file, clifd, mainPc, fd, listing>>
      /\ pc[t] = "close" /\ entry[t] = "deleting"
      /\ entry' = [entry EXCEPT ![t] = "deleted"]
      /\ Ring!deleteNode(f)
      /\ pc' = IF ret' = 0 THEN pc ELSE [pc EXCEPT ![t] = "exited"]
  BY <1>f DEF EndDelete, Deleting, Live, Control
<1>2. /\ Rings!Inv'
      /\ \/ /\ ret' = 0 /\ InList(f)
            /\ \A e : e # f => (InList(e)' <=> InList(e))
            /\ \A e : AtMostOnce(e) => AtMostOnce(e)'
            /\ AtMostOnce(f) => ~InList(f)'
         \/ ret' = -1 /\ Ring!Members' = Ring!Members /\ ~InList(f)
  BY <1>1, DeletedList DEF Live
<1>3. Control'
  BY <1>1 DEF Live, Control, HandoffTypes
<1>4. \A d \in Fds : Due(d)' <=> Due(d)
  BY <1>1 DEF Due
<1>5. \A d \in Fds : IsOpen(d)' <=> IsOpen(d)
  BY <1>1 DEF IsOpen
<1>6. \A d \in Fds : ~Deleted(t, d)
  BY <1>1 DEF Deleted
<1>7. \A d \in Fds, u \in Threads : u # t => (Deleted(u, d)' <=> Deleted(u, d))
  BY <1>1 DEF Deleted, Live, Control, HandoffTypes
<1>8. CASE ret' = 0
  <2>1. \A d \in Fds : Deleted(t, d)' <=> d = f
    BY <1>1, <1>8, <1>f DEF Deleted, Live, Control
  <2>2. /\ InList(f)
        /\ \A e : e # f => (InList(e)' <=> InList(e))
        /\ \A e : AtMostOnce(e) => AtMostOnce(e)'
        /\ AtMostOnce(f) => ~InList(f)'
    BY <1>2, <1>8
  <2>3. ListInv'
    <3> SUFFICES ASSUME NEW d \in Fds
                 PROVE  /\ AtMostOnce(d)'
                        /\ InList(d)' => IsOpen(d)' /\ ~Due(d)' /\ \A u \in Threads : ~Deleted(u, d)'
                        /\ Due(d)' => IsOpen(d)' /\ \A u \in Threads : ~Deleted(u, d)'
                        /\ \A u \in Threads : Deleted(u, d)' => IsOpen(d)'
                        /\ \A u, v \in Threads : Deleted(u, d)' /\ Deleted(v, d)' => u = v
                        /\ IsOpen(d)' => InList(d)' \/ Due(d)' \/ \E u \in Threads : Deleted(u, d)'
      BY DEF ListInv
    <3>1. CASE d = f
      <4>1. /\ AtMostOnce(d)' /\ ~InList(d)' /\ IsOpen(d)' /\ ~Due(d)' /\ Deleted(t, d)'
            /\ \A u \in Threads : u # t => ~Deleted(u, d)'
        BY <1>4, <1>5, <1>7, <2>1, <2>2, <3>1 DEF Live, ListInv
      <4> QED BY <4>1
    <3>2. CASE d # f
      <4>1. \A u \in Threads : Deleted(u, d)' <=> Deleted(u, d)
        BY <1>6, <1>7, <2>1, <3>2
      <4> QED BY <1>4, <1>5, <2>2, <3>2, <4>1 DEF Live, ListInv
    <3> QED BY <3>1, <3>2
  <2> QED BY <1>2, <1>3, <2>3
<1>9. CASE ret' # 0
  <2>1. Ring!Members' = Ring!Members
    BY <1>2, <1>9
  <2>2. \A e : (InList(e)' <=> InList(e)) /\ (AtMostOnce(e)' <=> AtMostOnce(e))
    BY <2>1 DEF InList, AtMostOnce, Rings!Occurs, Rings!Once
  <2>3. \A d \in Fds : ~Deleted(t, d)'
    BY <1>1, <1>9 DEF Deleted, Live, HandoffTypes
  <2>4. ListInv'
    BY <1>4, <1>5, <1>6, <1>7, <2>2, <2>3 DEF Live, ListInv
  <2> QED BY <1>2, <1>3, <2>4
<1> QED BY <1>8, <1>9

\* The closed descriptor was in no other place.
LEMMA CloseLists ==
  ASSUME Live, NEW t \in Threads, Close(t)
  PROVE  Control' /\ ListInv'
<1>1. /\ UNCHANGED <<ring, clifd, mainPc, fd, listing, entry>>
      /\ pc[t] = "close" /\ entry[t] = "deleted"
      /\ pc' = [pc EXCEPT ![t] = "exited"]
  BY DEF Close, MayClose, Handoff!Close
<1>2. /\ \A d \in Fds : d # fd[t] => file'[d] = file[d]
      /\ fd[t] \in Fds => file'[fd[t]] = Nobody
  BY DEF Close, Handoff!Close, Handoff!ClosedFd, Handoff!IsOpen, Live, HandoffTypes
<1>3. Control'
  BY <1>1 DEF Live, Control, HandoffTypes
<1>4. \A d : (InList(d)' <=> InList(d)) /\ (AtMostOnce(d)' <=> AtMostOnce(d))
  BY <1>1, UnchangedList DEF Live
<1>5. \A d \in Fds : Due(d)' <=> Due(d)
  BY <1>1 DEF Due
<1>6. \A d \in Fds : ~Deleted(t, d)' /\ (Deleted(t, d) <=> d = fd[t])
  BY <1>1 DEF Deleted, Live, HandoffTypes
<1>7. \A d \in Fds, u \in Threads : u # t => (Deleted(u, d)' <=> Deleted(u, d))
  BY <1>1 DEF Deleted, Live, HandoffTypes
<1>8. \A d \in Fds : IF d = fd[t] THEN ~IsOpen(d)' ELSE IsOpen(d)' <=> IsOpen(d)
  BY <1>2 DEF IsOpen
<1>9. ListInv'
  BY <1>4, <1>5, <1>6, <1>7, <1>8 DEF Live, ListInv
<1> QED BY <1>3, <1>9

----------------------------------------------------------------------------
(* The steps of the bridge, seen from the hand-off. *)

Moves ==
  \/ Accept \/ Create \/ Clients
  \/ \E t \in Threads : Receive(t) \/ Close(t)

Rests ==
  \/ BeginAppend \/ EndAppend \/ Uart \/ Crash
  \/ \E t \in Threads : BeginDelete(t)

LEMMA NextIs == Next => Moves \/ Rests \/ \E t \in Threads : EndDelete(t)
BY DEF Next, Main, Receiver, Moves, Rests

LEMMA MovesHandoff == Moves => Handoff!Next
BY DEF Moves, Accept, Create, Clients, Receive, Close, Handoff!Next, Handoff!Receiver

LEMMA RestsHandoff == Rests => UNCHANGED handoff
BY DEF Rests, BeginAppend, EndAppend, Uart, ReadUart, SendToClient, Crash, BeginDelete

\* A deletion that fails ends the thread.
LEMMA DeleteHandoff ==
  ASSUME Live, NEW t \in Threads, EndDelete(t)
  PROVE  UNCHANGED handoff \/ (ret' # 0 /\ GiveUp(t))
BY DEF EndDelete, Deleting, Live, Control, handoff, GiveUp

\* While the hand-off went well, an entry that is not found was of a
\* descriptor that is not open.
LEMMA NothingToClose ==
  ASSUME Live, OneUser, NEW t \in Threads, EndDelete(t), ret' # 0
  PROVE  ~Handoff!IsOpen(fd[t])
<1> SUFFICES ASSUME fd[t] \in Fds, file[fd[t]] # Nobody PROVE FALSE
  BY DEF Handoff!IsOpen
<1>f. PICK f \in Fds : f = fd[t]
  OBVIOUS
<1>1. /\ entry[t] = "deleting" /\ pc[t] = "close" /\ Ring!deleteNode(f)
  BY <1>f DEF EndDelete, Deleting, Live, Control
<1>2. ~InList(f)
  BY <1>1, DeletedList DEF Live
<1>3. ~Due(f)
  <2>1. ASSUME Due(f) PROVE FALSE
    <3>1. mainPc = "create" /\ clifd = f
      BY <2>1 DEF Due, Live, Control, HandoffTypes
    <3> QED BY <1>1, <1>f, <3>1 DEF OneUser, Handing, Holding
  <2> QED BY <2>1
<1>4. ASSUME NEW u \in Threads, Deleted(u, f) PROVE FALSE
  <2>1. u # t /\ Holding(t) /\ Holding(u) /\ fd[u] = f
    BY <1>1, <1>4 DEF Deleted, Holding
  <2> QED BY <1>f, <2>1 DEF OneUser
<1>5. IsOpen(f)
  BY <1>f DEF IsOpen
<1> QED BY <1>2, <1>3, <1>4, <1>5 DEF Live, ListInv

LEMMA HandoffTypesHold ==
  ASSUME Live, [Next]_vars PROVE HandoffTypes'
<1>1. [HandoffStep]_handoff
  BY NextIs, MovesHandoff, RestsHandoff, DeleteHandoff DEF HandoffStep, vars
<1> QED BY <1>1, HandoffTypesStep DEF Live

\* What clients and the UART thread do concerns neither list nor threads.
LEMMA RestsList ==
  ASSUME Live, Uart \/ Crash \/ Clients \/ UNCHANGED vars
  PROVE  UNCHANGED <<ring, file, listing, entry, clifd, mainPc, pc, fd>>
BY DEF Uart, ReadUart, SendToClient, Crash, Clients, Handoff!Connect, Handoff!Leave, handoff, vars

LEMMA LiveStep == Live /\ [Next]_vars => Live'
<1> SUFFICES ASSUME Live, [Next]_vars PROVE Live'
  OBVIOUS
<1>1. HandoffTypes'
  BY HandoffTypesHold
<1>2. ASSUME UNCHANGED ring PROVE Rings!Inv'
  BY <1>2, RingUnchanged DEF Live
<1>3. CASE Accept
  BY <1>1, <1>2, <1>3, AcceptLists DEF Accept, Live
<1>4. CASE BeginAppend \/ Create
  BY <1>1, <1>2, <1>4, MainLists DEF BeginAppend, BeginEdit, Create, Live
<1>5. CASE EndAppend
  BY <1>1, <1>5, AppendLists DEF Live
<1>6. ASSUME NEW t \in Threads, Receive(t) \/ BeginDelete(t) PROVE Live'
  BY <1>1, <1>2, <1>6, ReceiverLists DEF Receive, BeginDelete, BeginEdit, Live
<1>7. ASSUME NEW t \in Threads, EndDelete(t) PROVE Live'
  BY <1>1, <1>7, DeleteLists DEF Live
<1>8. ASSUME NEW t \in Threads, Close(t) PROVE Live'
  BY <1>1, <1>2, <1>8, CloseLists DEF Close, Live
<1>9. CASE Uart \/ Crash \/ Clients \/ UNCHANGED vars
  <2>1. UNCHANGED <<ring, file, listing, entry, clifd, mainPc, pc, fd>>
    BY <1>9, RestsList
  <2>2. Control'
    BY <2>1 DEF Live, Control
  <2>3. ListInv'
    BY <2>1, NothingMoves DEF Due, Deleted
  <2> QED BY <1>1, <1>2, <2>1, <2>2, <2>3 DEF Live
<1> QED BY <1>3, <1>4, <1>5, <1>6, <1>7, <1>8, <1>9 DEF Next, Main, Receiver

LEMMA LiveInit == Init => Live
<1> SUFFICES ASSUME Init PROVE Live
  OBVIOUS
<1>1. HandoffTypes
  BY HandoffInit DEF Init, HandoffInv
<1> QED BY <1>1, InitRing, ListInit DEF Init, Live

LEMMA AlwaysLive == Spec => []Live
BY LiveInit, LiveStep, PTL DEF Spec

LEMMA HandoffStays ==
  ASSUME Live, HandoffInv, [Next]_vars
  PROVE  HandoffInv' /\ (HandoffStep \/ UNCHANGED handoff)
<1>1. CASE Moves
  BY <1>1, MovesHandoff, HandoffInvStep DEF HandoffStep, EndsWell
<1>2. CASE Rests \/ UNCHANGED vars
  BY <1>2, RestsHandoff, HandoffUnchanged DEF vars
<1>3. ASSUME NEW t \in Threads, EndDelete(t)
      PROVE  HandoffInv' /\ (HandoffStep \/ UNCHANGED handoff)
  <2>1. CASE UNCHANGED handoff
    BY <2>1, HandoffUnchanged
  <2>2. CASE ret' # 0 /\ GiveUp(t)
    <3>1. ~overtaken /\ ~unserved => EndsWell
      BY <1>3, <2>2, NothingToClose DEF HandoffInv, EndsWell
    <3> QED BY <2>2, <3>1, HandoffInvStep DEF HandoffStep
  <2> QED BY <1>3, <2>1, <2>2, DeleteHandoff
<1> QED BY <1>1, <1>2, <1>3, NextIs

----------------------------------------------------------------------------
(* The theorems. *)

LEMMA MembersTyped == Rings!Inv => Ring!Members \in Seq(Int)
<1>1. Rings!Inv => Rings!Members \in Seq(Int)
  BY RingsAssumption, Rings!MembersAreInt
<1> QED BY <1>1, SameMembers

\* The terms of the properties in those of the invariant.
LEMMA EntriesAre ==
  ASSUME Live, NEW d
  PROVE  /\ Listed(d) <=> InList(d)
         /\ ~InList(d) => Entries(d) = {}
         /\ InList(d) /\ AtMostOnce(d) => \E k : Entries(d) = {k}
<1>1. PICK m \in Seq(Int) : m = Ring!Members
  BY MembersTyped DEF Live
<1>2. DOMAIN m = 1 .. Len(m)
  OBVIOUS
<1>3. /\ Listed(d) <=> \E k \in 1 .. Len(m) : m[k] = d
      /\ Entries(d) = {k \in 1 .. Len(m) : m[k] = d}
      /\ InList(d) <=> \E k \in 1 .. Len(m) : m[k] = d
      /\ AtMostOnce(d) <=> \A k, l \in 1 .. Len(m) : m[k] = d /\ m[l] = d => k = l
  BY <1>1, <1>2 DEF Listed, Entries, InList, AtMostOnce, Rings!Occurs, Rings!Once
<1>4. ASSUME InList(d), AtMostOnce(d) PROVE \E k : Entries(d) = {k}
  <2>1. PICK k \in 1 .. Len(m) : m[k] = d
    BY <1>3, <1>4
  <2>2. \A l \in 1 .. Len(m) : m[l] = d => l = k
    BY <1>3, <1>4, <2>1
  <2>3. Entries(d) = {k}
    BY <1>3, <2>1, <2>2
  <2> QED BY <2>3
<1> QED BY <1>3, <1>4

(***************************************************************************)
(* What the UART delivers is sent to open descriptors only: a descriptor   *)
(* in the list is open, because its thread deletes the entry before it     *)
(* closes, and because it is listed in no second place, even when clifd    *)
(* was overwritten and two threads hold one descriptor.                    *)
(***************************************************************************)
THEOREM ListedStayOpen == Spec => []ListedAreOpen
<1>1. Live => ListedAreOpen
  BY EntriesAre DEF Live, ListInv, ListedAreOpen, IsOpen, Handoff!IsOpen
<1> QED BY <1>1, AlwaysLive, PTL

(***************************************************************************)
(* An open descriptor is in the list exactly once, but for the time from   *)
(* its accept to its append and from its deletion to its close, also when  *)
(* clifd was overwritten or a pthread_create failed.                       *)
(***************************************************************************)
THEOREM OneEntryEach == Spec => []ListedOnce
<1>1. ASSUME Live PROVE ListedOnce
  <2> SUFFICES ASSUME NEW d \in Fds, IsOpen(d)
               PROVE  Cardinality(Entries(d)) =
                        IF Due(d) \/ \E t \in Threads : Deleted(t, d) THEN 0 ELSE 1
    BY DEF ListedOnce, Due, Deleted, IsOpen, Handoff!IsOpen
  <2>1. CASE Due(d) \/ \E t \in Threads : Deleted(t, d)
    <3>1. ~InList(d)
      BY <1>1, <2>1 DEF Live, ListInv
    <3> QED BY <1>1, <2>1, <3>1, EntriesAre, FS_EmptySet
  <2>2. CASE ~(Due(d) \/ \E t \in Threads : Deleted(t, d))
    <3>1. InList(d) /\ AtMostOnce(d)
      BY <1>1, <2>2 DEF Live, ListInv
    <3> QED BY <1>1, <2>2, <3>1, EntriesAre, FS_Singleton
  <2> QED BY <2>1, <2>2
<1> QED BY <1>1, AlwaysLive, PTL

LEMMA AlwaysHandoff == Spec => [](Live /\ HandoffInv)
<1>1. Init => Live /\ HandoffInv
  BY LiveInit, HandoffInit DEF Init
<1>2. Live /\ HandoffInv /\ [Next]_vars => (Live /\ HandoffInv)'
  BY LiveStep, HandoffStays
<1> QED BY <1>1, <1>2, PTL DEF Spec

(***************************************************************************)
(* The bridge keeps what AcceptHandoff promises, although its threads end  *)
(* without closing when deleteNode finds no entry: then, on the condition  *)
(* of the property, the descriptor is not open.                            *)
(***************************************************************************)
THEOREM OneThreadEach == Spec => []OneThreadPerConnection
<1>1. HandoffInv => OneThreadPerConnection
  BY OneThreadFollows DEF OneThreadPerConnection
<1> QED BY <1>1, AlwaysHandoff, PTL

(***************************************************************************)
(* A thread of the bridge closes no connection but the one it served,      *)
(* after its client has left, though descriptors are given out again, as   *)
(* long as clifd was not overwritten before a thread copied it.            *)
(***************************************************************************)
THEOREM ThreadsCloseTheirOwn == Spec => ClosesOnlyItsOwn
<1> DEFINE Closes ==
      ~overtaken => \A t \in Threads, d \in Fds :
        (pc[t] = "close" /\ pc'[t] = "exited" /\ file'[d] # file[d]) =>
           file[d] = served[t] /\ client[file[d]] = "left"
<1>1. Live /\ HandoffInv /\ [Next]_vars => Closes
  BY HandoffStays, CloseFollows
<1>2. Live /\ HandoffInv /\ [Next]_vars => [Closes]_(Handoff!vars)
  BY <1>1
<1> HIDE DEF Closes
<1>3. Spec => [][Closes]_(Handoff!vars)
  BY <1>2, AlwaysHandoff, PTL DEF Spec
<1> QED BY <1>3 DEF Closes, ClosesOnlyItsOwn, Handoff!ClosesOnlyItsOwn

----------------------------------------------------------------------------
(* The walk of the UART thread. *)

\* The UART thread has sent to the first n entries of the ring r.
SentTo(r, n) ==
  /\ n \in 0 .. Len(r) - 1 /\ walker = r[n + 1]
  /\ sent \in Seq(Int) /\ Len(sent) = n
  /\ \A j \in 1 .. n : sent[j] = node[r[j]].clientId

\* An undisturbed walk that is not over: on the empty list it is at the head.
WalkInv ==
  walker # NULL /\ ~disturbed /\ ~raced =>
    \/ clientListTail = NULL /\ walker = clientListHead /\ sent = << >>
    \/ \E r : Rings!RingOf(r) /\ \E n : SentTo(r, n)

\* The ring as the walk needs it.
LEMMA RingIs ==
  ASSUME Rings!Inv, NEW r, Rings!RingOf(r)
  PROVE  /\ Len(r) \in Nat /\ Len(r) >= 1
         /\ clientListHead = r[1] /\ clientListTail # NULL
         /\ \A i \in 1 .. Len(r) :
              /\ r[i] \in Nodes /\ r[i] # NULL /\ node[r[i]].clientId \in Int
              /\ node[r[i]].nextClient = IF i = Len(r) THEN r[1] ELSE r[i + 1]
         /\ \A i, j \in 1 .. Len(r) : r[i] = r[j] => i = j
         /\ Ring!Members = [i \in 1 .. Len(r) |-> node[r[i]].clientId]
<1>1. Rings!Walked(r)
  BY RingsAssumption, Rings!WalkGoesRound DEF Rings!Inv
<1>2. /\ Len(r) \in Nat /\ Len(r) >= 1 /\ \A i \in 1 .. Len(r) : r[i] \in Nodes
  BY RingsAssumption, Rings!RingFacts
<1>3. \A i \in 1 .. Len(r) : node[r[i]].clientId \in Int
  BY <1>2 DEF Rings!Inv, Rings!TypeOK
<1>4. /\ clientListHead = r[1] /\ clientListTail = r[Len(r)]
      /\ \A i, j \in 1 .. Len(r) : r[i] = r[j] => i = j
      /\ \A i \in 1 .. Len(r) : node[r[i]].nextClient = r[Rings!After(Len(r), i)]
  BY DEF Rings!RingOf
<1>5. \A i \in 1 .. Len(r) :
        r[Rings!After(Len(r), i)] = IF i = Len(r) THEN r[1] ELSE r[i + 1]
  BY DEF Rings!After
<1>6. Len(r) \in 1 .. Len(r)
  BY <1>2
<1>7. Ring!Members = [i \in 1 .. Len(r) |-> node[r[i]].clientId]
  BY <1>1, SameMembers DEF Rings!Walked, Rings!Ids
<1> QED BY <1>2, <1>3, <1>4, <1>5, <1>6, <1>7, FdFacts

LEMMA EmptyRing ==
  ASSUME Rings!Inv, clientListTail = NULL
  PROVE  /\ node[clientListHead] = Rings!Empty /\ clientListHead # NULL
         /\ Ring!Members = << >>
BY FdFacts DEF Rings!Inv, Rings!TypeOK, Rings!Unused, Ring!Members

\* A step that changes neither the ring nor the walk.
LEMMA WalkStays ==
  ASSUME WalkInv, UNCHANGED <<ring, walk>>,
         disturbed => disturbed', raced => raced'
  PROVE  WalkInv'
<1>1. \A r : Rings!RingOf(r)' <=> Rings!RingOf(r)
  BY DEF ring, Rings!RingOf, Rings!Elements
<1>2. \A r, n : SentTo(r, n)' <=> SentTo(r, n)
  BY DEF ring, walk, SentTo
<1> QED BY <1>1, <1>2 DEF WalkInv, ring, walk

\* One step of an undisturbed walk, and its end.
LEMMA WalkGoesOn ==
  ASSUME Rings!Inv, WalkInv, SendToClient, ~disturbed, ~raced'
  PROVE  /\ WalkInv'
         /\ walker' = NULL => sent' = IF Ring!Members = << >> THEN <<0>> ELSE Ring!Members
<1>1. /\ walker # NULL /\ sent' = Append(sent, node[walker].clientId)
      /\ walker' = AfterNode(walker) /\ UNCHANGED ring /\ ~raced
  BY DEF SendToClient
<1>2. CASE clientListTail = NULL /\ walker = clientListHead /\ sent = << >>
  <2>1. /\ node[walker].nextClient = NULL /\ node[walker].clientId = 0
        /\ Ring!Members = << >> /\ clientListHead # NULL
    BY <1>2, EmptyRing DEF Rings!Empty
  <2>2. walker' = NULL /\ sent' = <<0>>
    BY <1>1, <1>2, <2>1 DEF AfterNode
  <2> QED BY <2>1, <2>2 DEF WalkInv
<1>3. CASE \E r : Rings!RingOf(r) /\ \E n : SentTo(r, n)
  <2>1. PICK r, n : Rings!RingOf(r) /\ SentTo(r, n)
    BY <1>3
  <2>2. PICK l \in Nat : l = Len(r)
    BY <2>1, RingIs
  <2>3. /\ l >= 1 /\ clientListHead = r[1]
        /\ \A i \in 1 .. l :
              /\ r[i] # NULL /\ node[r[i]].clientId \in Int
              /\ node[r[i]].nextClient = IF i = l THEN r[1] ELSE r[i + 1]
        /\ \A i, j \in 1 .. l : r[i] = r[j] => i = j
        /\ Ring!Members = [i \in 1 .. l |-> node[r[i]].clientId]
    BY <2>1, <2>2, RingIs
  <2>4. /\ n \in 0 .. l - 1 /\ walker = r[n + 1]
        /\ sent \in Seq(Int) /\ Len(sent) = n
        /\ \A j \in 1 .. n : sent[j] = node[r[j]].clientId
    BY <2>1, <2>2 DEF SentTo
  <2>5. n + 1 \in 1 .. l /\ n \in Nat /\ 1 \in 1 .. l
    BY <2>3, <2>4
  <2>6. PICK x \in Int : x = node[r[n + 1]].clientId
    BY <2>3, <2>5
  <2>7. sent' = Append(sent, x)
    BY <1>1, <2>4, <2>6
  <2>8. /\ sent' \in Seq(Int) /\ Len(sent') = n + 1
        /\ \A j \in 1 .. n + 1 : sent'[j] = IF j <= n THEN sent[j] ELSE x
    <3>1. /\ Append(sent, x) \in Seq(Int) /\ Len(Append(sent, x)) = n + 1
          /\ \A j \in 1 .. n + 1 : Append(sent, x)[j] = IF j <= n THEN sent[j] ELSE x
      BY <2>4, <2>5, <2>6
    <3> QED BY <2>7, <3>1
  <2>9. \A j \in 1 .. n + 1 : sent'[j] = node[r[j]].clientId
    <3>1. ASSUME NEW j \in 1 .. n + 1 PROVE sent'[j] = node[r[j]].clientId
      <4>1. CASE j <= n
        BY <2>4, <2>8, <3>1, <4>1
      <4>2. CASE j = n + 1
        BY <2>5, <2>6, <2>8, <4>2
      <4> QED BY <2>5, <3>1, <4>1, <4>2
    <3> QED BY <3>1
  <2>10. CASE n + 1 = l
    <3>1. walker' = NULL
      BY <1>1, <2>3, <2>4, <2>5, <2>10 DEF AfterNode
    <3>2. sent' = Ring!Members
      <4>1. sent' = [j \in 1 .. l |-> sent'[j]]
        BY <2>8, <2>10
      <4> QED BY <2>3, <2>9, <2>10, <4>1
    <3>3. Ring!Members # << >>
      <4>1. DOMAIN Ring!Members = 1 .. l /\ DOMAIN << >> = {}
        BY <2>3
      <4> QED BY <2>5, <4>1
    <3> QED BY <3>1, <3>2, <3>3 DEF WalkInv
  <2>11. CASE n + 1 # l
    <3>1. n + 2 \in 1 .. l /\ n + 1 \in 0 .. l - 1 /\ n + 2 = (n + 1) + 1
      BY <2>4, <2>5, <2>11
    <3>2. node[walker].nextClient = r[n + 2] /\ r[n + 2] # r[1] /\ r[n + 2] # NULL
      BY <2>3, <2>4, <2>5, <2>11, <3>1
    <3>3. walker' = r[n + 2] /\ walker' # NULL
      BY <1>1, <2>3, <3>2 DEF AfterNode
    <3>4. UNCHANGED node
      BY <1>1 DEF ring
    <3>5. SentTo(r, n + 1)'
      BY <2>2, <2>8, <2>9, <3>1, <3>3, <3>4 DEF SentTo
    <3>6. Rings!RingOf(r)'
      BY <1>1, <2>1 DEF ring, Rings!RingOf, Rings!Elements
    <3> QED BY <3>3, <3>5, <3>6 DEF WalkInv
  <2> QED BY <2>10, <2>11
<1> QED BY <1>1, <1>2, <1>3 DEF WalkInv

LEMMA WalkStep ==
  ASSUME Live, WalkInv, [Next]_vars
  PROVE  /\ WalkInv'
         /\ walker # NULL /\ walker' = NULL /\ ~disturbed /\ ~raced' =>
              sent' = IF Ring!Members = << >> THEN <<0>> ELSE Ring!Members
<1>1. CASE SendToClient
  <2>1. CASE disturbed \/ raced'
    BY <1>1, <2>1 DEF SendToClient, WalkInv
  <2>2. CASE ~disturbed /\ ~raced'
    BY <1>1, <2>2, WalkGoesOn DEF Live
  <2> QED BY <2>1, <2>2
<1>2. CASE ReadUart
  <2>1. walker = NULL /\ walker' = clientListHead /\ sent' = << >> /\ UNCHANGED ring
    BY <1>2 DEF ReadUart
  <2>2. CASE clientListTail = NULL
    <3>1. clientListTail' = NULL /\ walker' = clientListHead'
      BY <2>1, <2>2 DEF ring
    <3> QED BY <2>1, <3>1 DEF WalkInv
  <2>3. CASE clientListTail # NULL
    <3>1. PICK r : Rings!RingOf(r)
      BY <2>3 DEF Live, Rings!Inv
    <3>2. Rings!RingOf(r)'
      BY <2>1, <3>1 DEF ring, Rings!RingOf, Rings!Elements
    <3>3. Len(r) \in Nat /\ Len(r) >= 1 /\ clientListHead = r[1]
      BY <3>1, RingIs DEF Live
    <3>4. SentTo(r, 0)'
      BY <2>1, <3>3 DEF SentTo
    <3> QED BY <2>1, <3>2, <3>4 DEF WalkInv
  <2> QED BY <2>2, <2>3
<1>3. ASSUME UNCHANGED walk, walker # NULL => disturbed' PROVE WalkInv' /\ walker' = walker
  BY <1>3 DEF WalkInv, walk
<1>4. CASE EndAppend \/ \E t \in Threads : EndDelete(t)
  BY <1>3, <1>4 DEF EndAppend, EndDelete, EndEdit
<1>5. CASE \/ BeginAppend \/ \E t \in Threads : BeginDelete(t)
  BY <1>3, <1>5 DEF BeginAppend, BeginDelete, BeginEdit
<1>6. ASSUME UNCHANGED <<ring, walk>>, disturbed => disturbed', raced => raced'
      PROVE  WalkInv' /\ walker' = walker
  BY <1>6, WalkStays DEF walk
<1>7. CASE Moves \/ Crash \/ UNCHANGED vars
  <2>1. UNCHANGED <<ring, walk, disturbed, raced>>
    BY <1>7 DEF Moves, Accept, Create, Clients, Receive, Close, Crash, vars, faults
  <2> QED BY <1>6, <2>1
<1> QED BY <1>1, <1>2, <1>4, <1>5, <1>7 DEF Next, Main, Receiver, Uart, Moves

(***************************************************************************)
(* A walk of the UART thread during which no operation on the list began   *)
(* or ended sends to every entry once, in the order of the list, and to    *)
(* descriptor 0 on the empty list.                                         *)
(***************************************************************************)
THEOREM EveryEntryOnce == Spec => EveryClientOnce
<1> DEFINE Walks ==
      (walker # NULL /\ walker' = NULL /\ ~disturbed /\ ~raced') =>
        sent' = IF Ring!Members = << >> THEN <<0>> ELSE Ring!Members
<1>1. Init => Live /\ WalkInv
  BY LiveInit DEF Init, WalkInv
<1>2. Live /\ WalkInv /\ [Next]_vars => (Live /\ WalkInv)' /\ [Walks]_vars
  BY LiveStep, WalkStep
<1> HIDE DEF Walks
<1>3. Spec => [][Walks]_vars
  BY <1>1, <1>2, PTL DEF Spec
<1> QED BY <1>3 DEF Walks, EveryClientOnce
=============================================================================
