------------------------------ MODULE WifiUart ------------------------------
(***************************************************************************)
(* The WiFi-UART bridge (matrix_wifiuart/Matrix-wifiuart.c): main accepts  *)
(* connections, appends them to the client list and creates a thread for   *)
(* each; the thread deletes and closes its own when the client has left;   *)
(* one more thread walks the list and sends to every client what the UART  *)
(* delivers.  Nothing locks the list.  The accept loop is AcceptHandoff    *)
(* and the list ClientRing, joined here by the order in which the code     *)
(* calls them.                                                             *)
(*                                                                         *)
(* An operation on the list has a begin and an end, and takes effect at    *)
(* its end.  Overlapping operations, and reading a freed node, are         *)
(* undefined behaviour: `raced' records them, and the model follows the    *)
(* process no further than to its possible death.                          *)
(***************************************************************************)
EXTENDS Integers, FiniteSets, Sequences

CONSTANTS Connections, Threads, Fds, Nobody, Failures,   \* of AcceptHandoff
          Nodes, NULL                                    \* of ClientRing

VARIABLES
  mainPc, clifd, file, client, pc, fd, served, overtaken, unserved,
  clientListHead, clientListTail, node, allocated, ret,
  listing,     \* main's append is "idle", "due", "adding" or "done"
  entry,       \* each thread's entry is "listed", "deleting" or "deleted"
  walker,      \* the node the UART thread sends to next, NULL when it reads
  sent,        \* history: the descriptors of the current walk
  disturbed,   \* history: the list changed during the current walk
  raced,       \* history: operations on the list overlapped
  alive        \* the process runs

Handoff == INSTANCE AcceptHandoff
Ring == INSTANCE ClientRing WITH Descriptors <- Fds \cup {Handoff!NoFd}

handoff == <<mainPc, clifd, file, client, pc, fd, served, overtaken, unserved>>
ring    == <<clientListHead, clientListTail, node, allocated, ret>>
walk    == <<walker, sent>>
faults  == <<raced, alive>>
ASSUME BridgeAssumption == Handoff!HandoffAssumption /\ Ring!RingAssumption

vars == <<handoff, ring, listing, entry, walk, disturbed, faults>>

Init ==
  /\ Handoff!Init /\ Ring!Init
  /\ listing = "idle"
  /\ entry = [t \in Threads |-> "listed"]
  /\ walker = NULL /\ sent = <<>>
  /\ disturbed = FALSE /\ raced = FALSE /\ alive = TRUE

----------------------------------------------------------------------------
(* Operations on the list.                                                 *)

Adding == listing = "adding"
Deleting(t) == entry[t] = "deleting"
Editing == Adding \/ \E t \in Threads : Deleting(t)

BeginEdit ==
  /\ raced' = (raced \/ Editing)
  /\ disturbed' = (disturbed \/ walker # NULL)
  /\ UNCHANGED <<ring, walk, alive>>

EndEdit ==
  /\ disturbed' = (disturbed \/ walker # NULL)
  /\ UNCHANGED <<walk, faults>>

----------------------------------------------------------------------------
(* main. *)

Accept ==
  /\ Handoff!Accept
  /\ listing' = "due"
  /\ UNCHANGED <<ring, entry, walk, disturbed, faults>>

BeginAppend ==
  /\ listing = "due" /\ listing' = "adding"
  /\ BeginEdit
  /\ UNCHANGED <<handoff, entry>>

EndAppend ==
  /\ Adding /\ listing' = "done"
  /\ Ring!appendList(clifd)
  /\ EndEdit
  /\ UNCHANGED <<handoff, entry>>

Create ==
  /\ listing = "done" /\ listing' = "idle"
  /\ Handoff!Create
  /\ UNCHANGED <<ring, entry, walk, disturbed, faults>>

----------------------------------------------------------------------------
(* pthread_wifiUart and wifi2uart: what a client sends goes to the UART    *)
(* and changes nothing here; on an error or the end of the stream the      *)
(* thread deletes its entry, and closes only if that succeeded.            *)

Receive(t) ==
  /\ \/ Handoff!CopyFd(t) \/ Handoff!CallRecv(t)
     \/ Handoff!ReceiveCommand(t) \/ Handoff!EndOfStream(t)
  /\ UNCHANGED <<ring, listing, entry, walk, disturbed, faults>>

BeginDelete(t) ==
  /\ pc[t] = "close" /\ entry[t] = "listed"
  /\ entry' = [entry EXCEPT ![t] = "deleting"]
  /\ BeginEdit
  /\ UNCHANGED <<handoff, listing>>

EndDelete(t) ==
  /\ Deleting(t)
  /\ Ring!deleteNode(fd[t])
  /\ entry' = [entry EXCEPT ![t] = "deleted"]
  /\ pc' = IF ret' = 0 THEN pc ELSE [pc EXCEPT ![t] = "exited"]
  /\ EndEdit
  /\ UNCHANGED <<mainPc, clifd, file, client, fd, served, overtaken, unserved,
                 listing>>

\* When the thread closes.  Mutant: before it deletes its entry.
MayCloseEarly(t) == ~Deleting(t)
MayClose(t) == entry[t] = "deleted"

Close(t) ==
  /\ MayClose(t)
  /\ Handoff!Close(t)
  /\ UNCHANGED <<ring, listing, entry, walk, disturbed, faults>>

----------------------------------------------------------------------------
(* pthread_UART2WiFi.  clientListHead is never NULL once main has run      *)
(* initList, so the test for an empty list is never true.                  *)

ReadUart ==
  /\ walker = NULL
  /\ walker' = clientListHead
  /\ sent' = <<>>
  /\ disturbed' = Editing
  /\ raced' = (raced \/ Editing)
  /\ UNCHANGED <<handoff, ring, listing, entry, alive>>

\* Where the walk goes after node p.  Mutant: it stops before the last node.
AfterNodeShort(p) ==
  IF node[p].nextClient \in {clientListHead, clientListTail} THEN NULL
  ELSE node[p].nextClient
AfterNode(p) ==
  IF node[p].nextClient = clientListHead THEN NULL ELSE node[p].nextClient

\* A send to a client that has left may raise SIGPIPE, which nobody handles.
SendToClient ==
  /\ walker # NULL
  /\ LET d == node[walker].clientId IN
       /\ sent' = IF disturbed THEN <<>> ELSE Append(sent, d)
       /\ \/ alive' = alive
          \/ /\ Handoff!IsOpen(d) /\ client[file[d]] = "left"
             /\ alive' = FALSE
  /\ walker' = AfterNode(walker)
  /\ raced' = (raced \/ Editing \/ walker \notin allocated)
  /\ UNCHANGED <<handoff, ring, listing, entry, disturbed>>

----------------------------------------------------------------------------
Clients ==
  /\ \E c \in Connections : Handoff!Connect(c) \/ Handoff!Leave(c)
  /\ UNCHANGED <<ring, listing, entry, walk, disturbed, faults>>

Crash ==
  /\ raced /\ alive' = FALSE
  /\ UNCHANGED <<handoff, ring, listing, entry, walk, disturbed, raced>>

Main == Accept \/ BeginAppend \/ EndAppend \/ Create
Receiver(t) == Receive(t) \/ BeginDelete(t) \/ EndDelete(t) \/ Close(t)
Uart == ReadUart \/ SendToClient

Sane == alive /\ ~raced

Next ==
  \/ Sane /\ (Main \/ (\E t \in Threads : Receiver(t)) \/ Uart \/ Clients)
  \/ alive /\ Crash

Spec == Init /\ [][Next]_vars

(***************************************************************************)
(* Every thread is scheduled; neither clients nor the UART owe anything.   *)
(***************************************************************************)
FairSpec ==
  /\ Spec
  /\ WF_vars(Sane /\ (BeginAppend \/ EndAppend \/ Create))
  /\ \A t \in Threads : WF_vars(Sane /\ Receiver(t))
  /\ WF_vars(Sane /\ SendToClient)

----------------------------------------------------------------------------
Listed(d) == \E k \in DOMAIN Ring!Members : Ring!Members[k] = d

(***************************************************************************)
(* What the UART delivers is never sent to a descriptor that is closed or  *)
(* given out again: an entry is deleted before its descriptor is closed,   *)
(* and while operations do not overlap every descriptor in the list is     *)
(* open, even when clifd was overwritten before a thread copied it.        *)
(***************************************************************************)
ListedAreOpen ==
  ~raced => \A d \in Fds : Listed(d) => Handoff!IsOpen(d)

(***************************************************************************)
(* A connection is in the list exactly once from the append to the         *)
(* deletion by its own thread: no client misses or doubles what the UART   *)
(* delivers unless operations overlapped, even when clifd was overwritten. *)
(***************************************************************************)
Entries(d) == {k \in DOMAIN Ring!Members : Ring!Members[k] = d}

ListedOnce ==
  ~raced =>
    \A d \in Fds : Handoff!IsOpen(d) =>
      Cardinality(Entries(d)) =
        IF \/ listing \in {"due", "adding"} /\ clifd = d
           \/ \E t \in Threads :
                pc[t] = "close" /\ fd[t] = d /\ entry[t] = "deleted"
        THEN 0 ELSE 1

(***************************************************************************)
(* A walk during which the list did not change sends once to every entry,  *)
(* in the order of the list; on the empty list it sends to descriptor 0.   *)
(***************************************************************************)
EveryClientOnce ==
  [][ (walker # NULL /\ walker' = NULL /\ ~disturbed /\ ~raced') =>
        sent' = IF Ring!Members = <<>> THEN <<0>> ELSE Ring!Members ]_vars

(***************************************************************************)
(* The entry of every client that has left is deleted in the end, unless   *)
(* the process died, operations overlapped, or the hand-off went wrong.    *)
(***************************************************************************)
LeftIsUnlisted ==
  \A d \in Fds, c \in Connections :
    (file[d] = c /\ client[c] = "left") ~>
      (~alive \/ raced \/ overtaken \/ unserved \/ file[d] # c)

(***************************************************************************)
(* What AcceptHandoff promises the cars, here of the bridge: as long as    *)
(* every thread copies clifd before main accepts again (and no             *)
(* pthread_create fails), an open connection has exactly one thread, or    *)
(* main is about to create it.                                             *)
(***************************************************************************)
OneThreadPerConnection == Handoff!OneThreadPerConnection

(***************************************************************************)
(* And a thread closes no connection but its own, after the client left,   *)
(* though descriptors are reused.                                          *)
(***************************************************************************)
ClosesOnlyItsOwn == Handoff!ClosesOnlyItsOwn
=============================================================================
