----------------------------- MODULE ClientRing -----------------------------
(***************************************************************************)
(* The client list of the WiFi-UART bridge (matrix_wifiuart/               *)
(* Matrix-wifiuart.c) as the code lays it out in the heap: a doubly linked *)
(* ring of CLIENTSOCKECT_NODE whose first node is never freed, even when   *)
(* the list is empty.  Each operation runs alone here; what happens when   *)
(* operations overlap is the subject of WifiUart.                          *)
(***************************************************************************)
EXTENDS Integers, FiniteSets, Sequences, SequencesExt

CONSTANTS
  Descriptors,   \* what main appends: descriptors, and -1 for a failed accept
  Nodes,         \* bound: the nodes malloc may return
  NULL

ASSUME RingAssumption ==
  /\ Descriptors \subseteq Int /\ 0 \notin Descriptors
  /\ IsFiniteSet(Nodes) /\ NULL \notin Nodes

VARIABLES clientListHead, clientListTail, node, allocated, ret

pointers == <<clientListHead, clientListTail, node, allocated>>
vars == <<pointers, ret>>

Empty == [nextClient |-> NULL, preClient |-> NULL, clientId |-> 0]

\* initList and its caller: one node that stands for the empty list.
Init ==
  /\ clientListHead \in Nodes
  /\ clientListTail = NULL
  /\ node = [p \in Nodes |-> Empty]
  /\ allocated = {clientListHead}
  /\ ret = 0

----------------------------------------------------------------------------
(* Following nextClient from the head. *)

Follow(p) == IF p = NULL THEN NULL ELSE node[p].nextClient

Hop[k \in 0 .. Cardinality(Nodes)] ==
  IF k = 0 THEN clientListHead ELSE Follow(Hop[k - 1])

Reached == {Hop[k] : k \in DOMAIN Hop} \ {NULL}

\* The list a reader of the ring sees.
Members ==
  IF clientListTail = NULL THEN <<>>
  ELSE [k \in 1 .. Cardinality(Reached) |-> node[Hop[k - 1]].clientId]

----------------------------------------------------------------------------
AppendFirst(d) ==
  /\ node[clientListHead].nextClient = NULL
  /\ node' = [node EXCEPT ![clientListHead] =
       [nextClient |-> clientListHead, preClient |-> clientListHead, clientId |-> d]]
  /\ clientListTail' = clientListHead
  /\ UNCHANGED <<clientListHead, allocated>>

\* Mutant: the link back from the head is forgotten.
AppendedNoBackLink(p, d) ==
  [node EXCEPT ![p] = [nextClient |-> clientListHead, preClient |-> clientListTail,
                       clientId |-> d],
               ![clientListTail].nextClient = p]
Appended(p, d) ==
  [node EXCEPT ![p] = [nextClient |-> clientListHead, preClient |-> clientListTail,
                       clientId |-> d],
               ![clientListTail].nextClient = p,
               ![clientListHead].preClient = p]

AppendNew(d) ==
  /\ node[clientListHead].nextClient # NULL
  /\ \E p \in Nodes \ allocated :
       /\ node' = Appended(p, d)
       /\ allocated' = allocated \cup {p}
       /\ clientListTail' = p
  /\ UNCHANGED clientListHead

appendList(d) == (AppendFirst(d) \/ AppendNew(d)) /\ UNCHANGED ret

----------------------------------------------------------------------------
(* deleteNode: the four cases of the node that is found. *)

HeadOfEmpty == clientListHead

DeleteOnly(i) ==
  /\ i = clientListHead /\ node[i].nextClient = i
  /\ node' = [node EXCEPT ![i] = Empty]
  /\ clientListTail' = NULL
  /\ clientListHead' = HeadOfEmpty
  /\ UNCHANGED allocated

\* The ring without its head h.  Mutant: the tail still points to it.
BeheadedTailKept(h) ==
  [node EXCEPT ![node[h].nextClient].preClient = clientListTail]
Beheaded(h) ==
  [node EXCEPT ![clientListTail].nextClient = node[h].nextClient,
               ![node[h].nextClient].preClient = clientListTail]

DeleteHead(i) ==
  /\ i = clientListHead /\ node[i].nextClient # i
  /\ clientListHead' = node[i].nextClient
  /\ node' = Beheaded(i)
  /\ allocated' = allocated \ {i}
  /\ UNCHANGED clientListTail

DeleteTail(i) ==
  /\ i # clientListHead /\ i = clientListTail
  /\ clientListTail' = node[i].preClient
  /\ node' = [node EXCEPT ![node[i].preClient].nextClient = clientListHead,
                          ![clientListHead].preClient = node[i].preClient]
  /\ allocated' = allocated \ {i}
  /\ UNCHANGED clientListHead

FreedAmongNone(i) == allocated   \* mutant: the free is forgotten
FreedAmong(i) == allocated \ {i}

DeleteAmong(i) ==
  /\ i \notin {clientListHead, clientListTail}
  /\ node' = [node EXCEPT ![node[i].preClient].nextClient = node[i].nextClient,
                          ![node[i].nextClient].preClient = node[i].preClient]
  /\ allocated' = FreedAmong(i)
  /\ UNCHANGED <<clientListHead, clientListTail>>

\* The first node with the descriptor, and only if the list has a tail.
Finds(d, i) ==
  /\ clientListTail # NULL
  /\ \E k \in 1 .. Len(Members) :
       /\ Hop[k - 1] = i /\ Members[k] = d
       /\ \A j \in 1 .. k - 1 : Members[j] # d

deleteNode(d) ==
  \/ /\ \A i \in Nodes : ~Finds(d, i)
     /\ ret' = -1
     /\ UNCHANGED pointers
  \/ /\ \E i \in Nodes :
          /\ Finds(d, i)
          /\ DeleteOnly(i) \/ DeleteHead(i) \/ DeleteTail(i) \/ DeleteAmong(i)
     /\ ret' = 0

Next == \E d \in Descriptors : appendList(d) \/ deleteNode(d)

Spec == Init /\ [][Next]_vars

----------------------------------------------------------------------------
(***************************************************************************)
(* The ring is the same backwards as forwards and closes at the tail: a    *)
(* later deletion that goes by preClient cuts out the right node.          *)
(***************************************************************************)
WellLinked ==
  clientListTail # NULL =>
    /\ node[clientListTail].nextClient = clientListHead
    /\ \A p \in Reached : p = Follow(node[p].preClient)
    /\ \A p \in Reached : Follow(p) \in Reached /\ node[Follow(p)].preClient = p

(***************************************************************************)
(* Every allocated node is in the ring and every node of the ring is       *)
(* allocated: deleteNode leaks nothing and leaves no pointer to a freed    *)
(* node.                                                                   *)
(***************************************************************************)
NoLeakNoDangling == allocated = Reached

(***************************************************************************)
(* The ring implements the abstract list, whatever the order of appends    *)
(* and deletions, also with the same descriptor in it twice.               *)
(***************************************************************************)
Promise == INSTANCE ClientList WITH members <- Members
KeepsTheList == Promise!Spec
=============================================================================
