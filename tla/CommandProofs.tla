--------------------------- MODULE CommandProofs ---------------------------
(***************************************************************************)
(* Theorems about the command chain, for any stream of commands and any    *)
(* way the network cuts it: what a longer chain changes for an earlier     *)
(* client, where the commands the car obeys come from, and what a client   *)
(* that waits gets.                                                        *)
(***************************************************************************)
EXTENDS CommandStream, WellFoundedInduction, SequenceTheorems, TLAPS

(***************************************************************************)
(* A nonempty set of naturals has a least element, and Min is it.          *)
(***************************************************************************)
LEMMA MinIsLeast ==
  ASSUME NEW S, S \subseteq Nat, S # {}
  PROVE  Min(S) \in S /\ \A k \in S : Min(S) <= k
<1>1. PICK x \in S : \A y \in S : ~(<<y, x>> \in OpToRel(<, Nat))
  BY WFMin, NatLessThanWellFounded
<1>2. \A y \in S : x <= y
  <2> TAKE y \in S
  <2>1. ~(y < x)
    BY <1>1 DEF OpToRel
  <2> QED BY <2>1
<1> QED BY <1>2 DEF Min

(***************************************************************************)
(* strstr finds the last two words of a command of three wherever it finds *)
(* the three.                                                              *)
(***************************************************************************)
LEMMA TailOccurs ==
  ASSUME NEW mesg \in Seq(Words), NEW a, NEW b, NEW c, Occurs(<<a, b, c>>, mesg)
  PROVE  Occurs(<<b, c>>, mesg)
<1>1. PICK i \in 0 .. Len(mesg) - 3 : /\ a = mesg[i + 1]
                                      /\ b = mesg[i + 2]
                                      /\ c = mesg[i + 3]
  BY DEF Occurs
<1>2. /\ i + 1 \in 0 .. Len(mesg) - 2
      /\ b = mesg[(i + 1) + 1]
      /\ c = mesg[(i + 1) + 2]
  BY <1>1
<1>3. \A j \in 1 .. 2 : <<b, c>>[j] = mesg[(i + 1) + j]
  BY <1>2
<1> QED BY <1>2, <1>3 DEF Occurs

(***************************************************************************)
(* The composite commands come in the chain after the UP and BACK commands *)
(* that end them.                                                          *)
(***************************************************************************)
LEMMA CompositeTails ==
  \A k \in {9, 10, 11, 12, 15, 16, 17, 18} :
    \E l \in DOMAIN Chain, a, b, c \in Words :
      l < k /\ Chain[k] = <<a, b, c>> /\ Chain[l] = <<b, c>>
<1> DEFINE Behind(i, j) ==
      /\ j \in DOMAIN Chain /\ j < i
      /\ Chain[i] = <<Chain[i][1], Chain[i][2], Chain[i][3]>>
      /\ Chain[j] = <<Chain[i][2], Chain[i][3]>>
      /\ Chain[i][1] \in Words /\ Chain[i][2] \in Words /\ Chain[i][3] \in Words
<1>1. Behind(9, 3) /\ Behind(10, 4) /\ Behind(11, 5) /\ Behind(12, 6)
  BY DEF Chain, Words
<1>2. Behind(15, 3) /\ Behind(16, 4) /\ Behind(17, 5) /\ Behind(18, 6)
  BY DEF Chain, Words
<1> QED BY <1>1, <1>2

LEMMA CompositeBehindItsTail ==
  ASSUME NEW k \in DOMAIN Chain, Chain[k] \in Composite
  PROVE  \E l \in DOMAIN Chain, a, b, c \in Words :
           l < k /\ Chain[k] = <<a, b, c>> /\ Chain[l] = <<b, c>>
<1>1. k \in 1 .. 18 /\ Len(Chain[k]) = 3
  BY DEF Composite, Chain
<1>2. \A n \in {1, 2} : Len(Chain[n]) = 1
  BY DEF Chain
<1>3. \A n \in {3, 4, 5, 6, 7, 8, 13, 14} : Len(Chain[n]) = 2
  BY DEF Chain
<1>4. k \in {9, 10, 11, 12, 15, 16, 17, 18}
  BY <1>1, <1>2, <1>3
<1> QED BY <1>4, CompositeTails

LEMMA DispatchNeverComposite ==
  ASSUME NEW mesg \in Seq(Words)
  PROVE  Dispatch(mesg) = NoCommand \/ Dispatch(mesg) \notin Composite
<1> DEFINE matching == {k \in DOMAIN Chain : Occurs(Chain[k], mesg)}
<1>1. CASE matching = {}
  BY <1>1 DEF Dispatch, FirstIn
<1>2. CASE matching # {}
  <2>1. matching \subseteq Nat
    BY DEF Chain
  <2>2. Min(matching) \in matching /\ \A k \in matching : Min(matching) <= k
    BY <1>2, <2>1, MinIsLeast
  <2>3. Dispatch(mesg) = Chain[Min(matching)]
    BY <1>2 DEF Dispatch, FirstIn
  <2>4. ASSUME Chain[Min(matching)] \in Composite PROVE FALSE
    <3> DEFINE k == Min(matching)
    <3> HIDE DEF k
    <3>1. k \in DOMAIN Chain /\ Chain[k] \in Composite /\ Occurs(Chain[k], mesg)
      BY <2>2, <2>4 DEF k
    <3>2. PICK l \in DOMAIN Chain, a, b, c \in Words :
                 l < k /\ Chain[k] = <<a, b, c>> /\ Chain[l] = <<b, c>>
      BY <3>1, CompositeBehindItsTail
    <3>3. Occurs(Chain[l], mesg)
      BY <3>1, <3>2, TailOccurs
    <3>4. k <= l
      BY <2>2, <3>3 DEF k
    <3>5. k \in Nat /\ l \in Nat
      BY <2>1, <3>1, <3>2 DEF Chain
    <3> QED BY <3>2, <3>4, <3>5
  <2> QED BY <2>3, <2>4
<1> QED BY <1>1, <1>2

----------------------------------------------------------------------------
(***************************************************************************)
(* The stream is made of words, whatever was issued and cut.               *)
(***************************************************************************)
StreamInv ==
  /\ stream \in Seq(Words)
  /\ executed \in Seq(Command)
  /\ CompositesNeverObeyed

LEMMA CommandsAreWords == Command \subseteq Seq(Words) /\ LedCommand \subseteq Seq(Words)
<1>1. ASSUME NEW a \in Words, NEW b \in Words, NEW c \in Words
      PROVE  <<a>> \in Seq(Words) /\ <<a, b>> \in Seq(Words) /\ <<a, b, c>> \in Seq(Words)
  OBVIOUS
<1>2. \A k \in {1, 2} : \E a \in Words : Chain[k] = <<a>>
  BY DEF Chain, Words
<1>3. \A k \in {3, 4, 5, 6, 7, 8, 13, 14} : \E a, b \in Words : Chain[k] = <<a, b>>
  <2> DEFINE Two(k) == /\ Chain[k] = <<Chain[k][1], Chain[k][2]>>
                       /\ Chain[k][1] \in Words /\ Chain[k][2] \in Words
  <2>1. Two(3) /\ Two(4) /\ Two(5) /\ Two(6)
    BY DEF Chain, Words
  <2>2. Two(7) /\ Two(8) /\ Two(13) /\ Two(14)
    BY DEF Chain, Words
  <2> QED BY <2>1, <2>2
<1>4. \A k \in {9, 10, 11, 12, 15, 16, 17, 18} :
        \E a, b, c \in Words : Chain[k] = <<a, b, c>>
  BY CompositeTails
<1>5. \A k \in 1 .. 18 : Chain[k] \in Seq(Words)
  <2> TAKE k \in 1 .. 18
  <2>1. \/ k \in {1, 2}
        \/ k \in {3, 4, 5, 6, 7, 8, 13, 14}
        \/ k \in {9, 10, 11, 12, 15, 16, 17, 18}
    OBVIOUS
  <2>2. CASE k \in {1, 2}
    <3>1. PICK a \in Words : Chain[k] = <<a>>
      BY <1>2, <2>2
    <3> QED BY <1>1, <3>1
  <2>3. CASE k \in {3, 4, 5, 6, 7, 8, 13, 14}
    <3>1. PICK a \in Words, b \in Words : Chain[k] = <<a, b>>
      BY <1>3, <2>3
    <3> QED BY <1>1, <3>1
  <2>4. CASE k \in {9, 10, 11, 12, 15, 16, 17, 18}
    <3>1. PICK a \in Words, b \in Words, c \in Words : Chain[k] = <<a, b, c>>
      BY <1>4, <2>4
    <3> QED BY <1>1, <3>1
  <2> QED BY <2>1, <2>2, <2>3, <2>4
<1>6. DOMAIN Chain = 1 .. 18 /\ DOMAIN LedChain = 1 .. 2
  BY DEF Chain, LedChain
<1>7. \A k \in 1 .. 2 : \E a \in Words : LedChain[k] = <<a>>
  BY DEF LedChain, Words
<1> QED BY <1>1, <1>5, <1>6, <1>7 DEF Command, LedCommand

LEMMA ReceivedAreWords ==
  ASSUME stream \in Seq(Words), NEW n \in DOMAIN stream, NEW inside \in BOOLEAN
  PROVE  Received(n, inside) \in Seq(Words) /\ Unread(n, inside) \in Seq(Words)
<1>1. /\ SubSeq(stream, 1, n - 1) \in Seq(Words)
      /\ SubSeq(stream, 1, n) \in Seq(Words)
      /\ SubSeq(stream, n + 1, Len(stream)) \in Seq(Words)
  OBVIOUS
<1>2. "cut" \in Words
  BY DEF Words
<1> QED BY <1>1, <1>2 DEF Received, Unread

LEMMA DispatchIsCommand ==
  ASSUME NEW mesg \in Seq(Words)
  PROVE  Dispatch(mesg) = NoCommand \/ Dispatch(mesg) \in Command
<1> DEFINE matching == {k \in DOMAIN Chain : Occurs(Chain[k], mesg)}
<1>1. CASE matching = {}
  BY <1>1 DEF Dispatch, FirstIn
<1>2. CASE matching # {}
  <2>1. matching \subseteq Nat
    BY DEF Chain
  <2>2. Min(matching) \in matching
    BY <1>2, <2>1, MinIsLeast
  <2> QED BY <1>2, <2>2 DEF Dispatch, FirstIn, Command
<1> QED BY <1>1, <1>2

LEMMA ReceiveStep ==
  ASSUME StreamInv, NEW n \in DOMAIN stream, NEW inside \in BOOLEAN,
         ReceiveCommand(n, inside)
  PROVE  StreamInv'
<1> DEFINE cmd == Dispatch(Received(n, inside))
<1>1. stream' \in Seq(Words) /\ Received(n, inside) \in Seq(Words)
  BY ReceivedAreWords DEF StreamInv, ReceiveCommand
<1>2. \/ executed' = executed
      \/ executed' = Append(executed, cmd) /\ cmd # NoCommand
  BY DEF ReceiveCommand, Obey
<1>3. cmd # NoCommand => cmd \in Command \ Composite
  BY <1>1, DispatchIsCommand, DispatchNeverComposite
<1> HIDE DEF cmd
<1>4. CASE executed' = executed
  BY <1>1, <1>4 DEF StreamInv, CompositesNeverObeyed, Composite
<1>5. CASE executed' = Append(executed, cmd) /\ cmd # NoCommand
  <2>1. executed' \in Seq(Command)
    BY <1>3, <1>5 DEF StreamInv
  <2>2. \A k \in DOMAIN executed' : executed'[k] \notin Composite
    BY <1>3, <1>5 DEF StreamInv, CompositesNeverObeyed
  <2> QED BY <1>1, <2>1, <2>2 DEF StreamInv, CompositesNeverObeyed, Composite, Command, Chain
<1> QED BY <1>2, <1>4, <1>5

(***************************************************************************)
(* StreamInv holds of every behaviour.                                     *)
(***************************************************************************)
LEMMA AlwaysStream == Spec => []StreamInv
<1>1. Init => StreamInv
  BY DEF Init, StreamInv, CompositesNeverObeyed
<1>2. ASSUME StreamInv, [Next]_vars PROVE StreamInv'
  <2>1. ASSUME NEW cmd \in Vocabulary, Issue(cmd) PROVE StreamInv'
    <3>1. stream' \in Seq(Words)
      BY <1>2, <2>1, CommandsAreWords, StreamAssumption DEF Issue, StreamInv
    <3> QED BY <1>2, <2>1, <3>1 DEF Issue, StreamInv, CompositesNeverObeyed
  <2>2. ASSUME UNCHANGED vars PROVE StreamInv'
    BY <1>2, <2>2 DEF vars, StreamInv, CompositesNeverObeyed
  <2> QED BY <1>2, <2>1, <2>2, ReceiveStep DEF Next
<1> QED BY <1>1, <1>2, PTL DEF Spec

(***************************************************************************)
(* The branches of the composite commands are never taken: in every stream *)
(* and however it is cut, their UP and BACK parts are found first.         *)
(***************************************************************************)
THEOREM CompositesAreDead == Spec => []CompositesNeverObeyed
<1>1. StreamInv => CompositesNeverObeyed
  BY DEF StreamInv
<1> QED BY <1>1, AlwaysStream, PTL

----------------------------------------------------------------------------
(* The two cars. *)

ModeWords == {"AUTO", "MENU"}

(***************************************************************************)
(* The chain of the earlier car is the later one's without the mode and    *)
(* the composite commands, in the same order.                              *)
(***************************************************************************)
Later(j) == IF j <= 6 THEN j + 2 ELSE j + 6

LEMMA SameOrder ==
  /\ DOMAIN Chain = 1 .. 18 /\ DOMAIN DirectChain = 1 .. 8
  /\ \A j \in 1 .. 8 : Later(j) \in 1 .. 18 /\ DirectChain[j] = Chain[Later(j)]
  /\ \A i, j \in 1 .. 8 : Later(i) <= Later(j) => i <= j
  /\ \A k \in 1 .. 18 : (Chain[k] \notin Composite /\ k > 2) => \E j \in 1 .. 8 : k = Later(j)
<1>1. DOMAIN Chain = 1 .. 18 /\ DOMAIN DirectChain = 1 .. 8
  BY DEF Chain, DirectChain
<1>2. \A j \in 1 .. 8 : Later(j) \in 1 .. 18 /\ DirectChain[j] = Chain[Later(j)]
  <2> DEFINE Same(j, k) == DirectChain[j] = Chain[k] /\ Later(j) = k
  <2>1. Same(1, 3) /\ Same(2, 4) /\ Same(3, 5) /\ Same(4, 6)
    BY DEF Chain, DirectChain, Later
  <2>2. Same(5, 7) /\ Same(6, 8) /\ Same(7, 13) /\ Same(8, 14)
    BY DEF Chain, DirectChain, Later
  <2> QED BY <2>1, <2>2
<1>3. \A i, j \in 1 .. 8 : Later(i) <= Later(j) => i <= j
  BY DEF Later
<1>4. ASSUME NEW k \in 1 .. 18, Chain[k] \notin Composite, k > 2
      PROVE  \E j \in 1 .. 8 : k = Later(j)
  <2>1. k \in {9, 10, 11, 12, 15, 16, 17, 18} => FALSE
    <3> SUFFICES ASSUME k \in {9, 10, 11, 12, 15, 16, 17, 18} PROVE FALSE
      OBVIOUS
    <3>1. PICK a \in Words, b \in Words, c \in Words : Chain[k] = <<a, b, c>>
      BY CompositeTails
    <3>2. Chain[k] \in Command /\ Len(Chain[k]) = 3
      BY <1>1, <3>1 DEF Command
    <3> QED BY <1>4, <3>2 DEF Composite
  <2>2. k \in {3, 4, 5, 6, 7, 8} \/ k \in {13, 14}
    BY <1>4, <2>1
  <2>3. CASE k \in {3, 4, 5, 6, 7, 8}
    <3>1. k - 2 \in 1 .. 8 /\ k = Later(k - 2)
      BY <2>3 DEF Later
    <3> QED BY <3>1
  <2>4. CASE k \in {13, 14}
    <3>1. k - 6 \in 1 .. 8 /\ k = Later(k - 6)
      BY <2>4 DEF Later
    <3> QED BY <3>1
  <2> QED BY <2>2, <2>3, <2>4
<1> QED BY <1>1, <1>2, <1>3, <1>4

(***************************************************************************)
(* What both cars find in a buffer without a mode command is the same.     *)
(***************************************************************************)
NoModes(mesg) == \A i \in DOMAIN mesg : mesg[i] \notin ModeWords

LEMMA SameDispatch ==
  ASSUME NEW mesg \in Seq(Words), NoModes(mesg)
  PROVE  Dispatch(mesg) = DirectDispatch(mesg)
<1> DEFINE matching == {k \in DOMAIN Chain : Occurs(Chain[k], mesg)}
           direct8 == {j \in DOMAIN DirectChain : Occurs(DirectChain[j], mesg)}
<1>1. matching \subseteq 1 .. 18 /\ direct8 \subseteq 1 .. 8
  BY SameOrder
<1>2. \A j \in 1 .. 8 : j \in direct8 <=> Later(j) \in matching
  BY SameOrder
<1>3. \A k \in {1, 2} : ~Occurs(Chain[k], mesg)
  <2>1. ASSUME NEW w \in ModeWords, Occurs(<<w>>, mesg) PROVE FALSE
    <3>1. PICK i \in 0 .. Len(mesg) - 1 : mesg[i + 1] = w
      BY <2>1 DEF Occurs
    <3>2. i + 1 \in DOMAIN mesg
      BY <3>1
    <3> QED BY <2>1, <3>1, <3>2 DEF NoModes
  <2>2. Chain[1] = <<"AUTO">> /\ Chain[2] = <<"MENU">>
    BY DEF Chain
  <2> QED BY <2>1, <2>2 DEF ModeWords
<1>4. CASE matching = {}
  <2>1. direct8 = {}
    BY <1>1, <1>2, <1>4, SameOrder
  <2> QED BY <1>4, <2>1 DEF Dispatch, DirectDispatch, FirstIn
<1>5. CASE matching # {}
  <2> DEFINE k == Min(matching)
  <2>1. k \in matching /\ \A l \in matching : k <= l
    <3>1. matching \subseteq Nat
      BY <1>1
    <3> HIDE DEF matching
    <3> QED BY <1>5, <3>1, MinIsLeast
  <2>2. Dispatch(mesg) = Chain[k]
    BY <1>5 DEF Dispatch, FirstIn
  <2>3. Chain[k] \notin Composite
    <3>1. \A c \in Composite : c # NoCommand
      BY DEF Composite, NoCommand
    <3> QED BY <2>2, <3>1, DispatchNeverComposite
  <2> HIDE DEF k
  <2>4. k \in 1 .. 18 /\ k > 2
    <3>1. k \in 1 .. 18 /\ Occurs(Chain[k], mesg)
      BY <1>1, <2>1
    <3>2. k # 1 /\ k # 2
      BY <1>3, <3>1
    <3> QED BY <3>1, <3>2
  <2>5. PICK j \in 1 .. 8 : k = Later(j)
    BY <2>3, <2>4, SameOrder
  <2>6. j \in direct8 /\ \A i \in direct8 : j <= i
    BY <1>1, <1>2, <2>1, <2>5, SameOrder
  <2>7. Min(direct8) = j
    <3>1. Min(direct8) \in direct8 /\ \A i \in direct8 : Min(direct8) <= i
      <4>1. direct8 \subseteq Nat /\ direct8 # {}
        BY <1>1, <2>6
      <4> HIDE DEF direct8
      <4> QED BY <4>1, MinIsLeast
    <3>2. ASSUME NEW m \in 1 .. 8, m <= j, j <= m PROVE m = j
      BY <3>2
    <3> QED BY <1>1, <2>6, <3>1, <3>2
  <2>8. DirectDispatch(mesg) = DirectChain[j]
    BY <2>6, <2>7 DEF DirectDispatch, FirstIn
  <2> QED BY <2>2, <2>5, <2>8, SameOrder
<1> QED BY <1>4, <1>5

LEMMA DriveHasNoModes == ASSUME NEW cmd \in DriveCommand PROVE NoModes(cmd)
<1> DEFINE Two(k) == /\ Chain[k] = <<Chain[k][1], Chain[k][2]>>
                     /\ Chain[k][1] \notin ModeWords /\ Chain[k][2] \notin ModeWords
           Three(k) == /\ Chain[k] = <<Chain[k][1], Chain[k][2], Chain[k][3]>>
                       /\ Chain[k][1] \notin ModeWords /\ Chain[k][2] \notin ModeWords
                       /\ Chain[k][3] \notin ModeWords
<1>1. Two(3) /\ Two(4) /\ Two(5) /\ Two(6)
  BY DEF Chain, ModeWords
<1>2. Two(7) /\ Two(8) /\ Two(13) /\ Two(14)
  BY DEF Chain, ModeWords
<1>3. Three(9) /\ Three(10) /\ Three(11) /\ Three(12)
  BY DEF Chain, ModeWords
<1>4. Three(15) /\ Three(16) /\ Three(17) /\ Three(18)
  BY DEF Chain, ModeWords
<1>5. \A k \in 3 .. 18 : Two(k) \/ Three(k)
  <2> TAKE k \in 3 .. 18
  <2>1. \/ k \in {3, 4, 5, 6} \/ k \in {7, 8, 13, 14}
        \/ k \in {9, 10, 11, 12} \/ k \in {15, 16, 17, 18}
    OBVIOUS
  <2> HIDE DEF Two, Three
  <2> QED BY <1>1, <1>2, <1>3, <1>4, <2>1
<1>6. PICK k \in 1 .. 18 : cmd = Chain[k]
  BY SameOrder DEF DriveCommand, Command
<1>7. k \in 3 .. 18
  <2>1. Chain[1] = <<"AUTO">> /\ Chain[2] = <<"MENU">>
    BY DEF Chain
  <2> QED BY <1>6, <2>1 DEF DriveCommand
<1> QED BY <1>5, <1>6, <1>7 DEF NoModes

(***************************************************************************)
(* A client that has sent drive commands only has put no mode word into    *)
(* the stream, however it was cut, and both cars have obeyed the same.     *)
(***************************************************************************)
EarlierInv ==
  /\ issued \in Seq(Command \cup LedCommand)
  /\ (\A k \in DOMAIN issued : issued[k] \in DriveCommand) =>
       NoModes(stream) /\ executed = direct

LEMMA EarlierStep == ASSUME StreamInv, EarlierInv, [Next]_vars PROVE EarlierInv'
<1>1. stream \in Seq(Words)
  BY DEF StreamInv
<1>2. ASSUME NEW cmd \in Vocabulary, Issue(cmd) PROVE EarlierInv'
  <2>1. cmd \in Command \cup LedCommand /\ cmd \in Seq(Words)
    BY CommandsAreWords, StreamAssumption
  <2>2. issued' \in Seq(Command \cup LedCommand)
    BY <1>2, <2>1 DEF Issue, EarlierInv
  <2>3. ASSUME \A k \in DOMAIN issued' : issued'[k] \in DriveCommand
        PROVE  NoModes(stream)' /\ executed' = direct'
    <3>1. \A k \in DOMAIN issued : k \in DOMAIN issued' /\ issued'[k] = issued[k]
      BY <1>2, <2>1 DEF Issue, EarlierInv
    <3>2. Len(issued) + 1 \in DOMAIN issued' /\ issued'[Len(issued) + 1] = cmd
      BY <1>2, <2>1 DEF Issue, EarlierInv
    <3>3. NoModes(stream) /\ executed = direct /\ NoModes(cmd)
      BY <2>3, <3>1, <3>2, DriveHasNoModes DEF EarlierInv
    <3>4. \A i \in DOMAIN (stream \o cmd) : (stream \o cmd)[i] \notin ModeWords
      BY <1>1, <2>1, <3>3 DEF NoModes
    <3> QED BY <1>2, <3>3, <3>4 DEF Issue, NoModes
  <2> QED BY <2>2, <2>3 DEF EarlierInv
<1>3. ASSUME NEW n \in DOMAIN stream, NEW inside \in BOOLEAN, ReceiveCommand(n, inside)
      PROVE  EarlierInv'
  <2>1. issued' = issued
    BY <1>3 DEF ReceiveCommand
  <2>2. ASSUME NoModes(stream), executed = direct
        PROVE  NoModes(stream)' /\ executed' = direct'
    <3>1. NoModes(Received(n, inside)) /\ NoModes(Unread(n, inside))
      <4>1. /\ SubSeq(stream, 1, n - 1) \in Seq(Words) /\ NoModes(SubSeq(stream, 1, n - 1))
            /\ SubSeq(stream, 1, n) \in Seq(Words) /\ NoModes(SubSeq(stream, 1, n))
        BY <1>1, <2>2 DEF NoModes
      <4>2. /\ SubSeq(stream, n + 1, Len(stream)) \in Seq(Words)
            /\ NoModes(SubSeq(stream, n + 1, Len(stream)))
        BY <1>1, <2>2 DEF NoModes
      <4>3. "cut" \notin ModeWords /\ "cut" \in Words
        BY DEF ModeWords, Words
      <4>4. NoModes(Received(n, inside))
        BY <4>1, <4>3 DEF NoModes, Received
      <4>5. NoModes(Unread(n, inside))
        BY <4>2, <4>3 DEF NoModes, Unread
      <4> QED BY <4>4, <4>5
    <3>2. Dispatch(Received(n, inside)) = DirectDispatch(Received(n, inside))
      BY <1>1, <3>1, ReceivedAreWords, SameDispatch
    <3> QED BY <1>3, <2>2, <3>1, <3>2 DEF ReceiveCommand, NoModes
  <2> QED BY <2>1, <2>2 DEF EarlierInv
<1>4. ASSUME UNCHANGED vars PROVE EarlierInv'
  BY <1>4 DEF vars, EarlierInv, NoModes
<1> QED BY <1>2, <1>3, <1>4 DEF Next

(***************************************************************************)
(* The two more modes and eight more commands of the later chain change    *)
(* nothing for a client of the earlier car, whatever the network does to   *)
(* the stream.                                                             *)
(***************************************************************************)
THEOREM EarlierClientsObeyed == Spec => []SameAsEarlierCar
<1>1. Init => EarlierInv
  BY DEF Init, EarlierInv, NoModes
<1>2. StreamInv /\ EarlierInv /\ [Next]_vars => EarlierInv'
  BY EarlierStep
<1>3. EarlierInv => SameAsEarlierCar
  BY DEF EarlierInv, SameAsEarlierCar
<1> QED BY <1>1, <1>2, <1>3, AlwaysStream, PTL DEF Spec

-----------------------------------------------------------------------------
(* Where the obeyed commands come from. *)

Directions == {"UP", "BACK", "LEFT", "RIGHT"}
Endings == {"AUTO", "MENU", "START", "STOP", "open", "close"}

(***************************************************************************)
(* A command is up to two directions and an ending.                        *)
(***************************************************************************)
Shaped(cmd) ==
  /\ Len(cmd) \in 1 .. 3 /\ cmd[Len(cmd)] \in Endings
  /\ \A j \in 1 .. Len(cmd) - 1 : cmd[j] \in Directions

LEMMA CommandsAreShaped == \A cmd \in Command \cup LedCommand : Shaped(cmd)
<1> DEFINE One(c) == Len(c) = 1 /\ c[1] \in Endings
           Two(c) == Len(c) = 2 /\ c[1] \in Directions /\ c[2] \in Endings
           Three(c) == Len(c) = 3 /\ c[1] \in Directions /\ c[2] \in Directions /\ c[3] \in Endings
<1>1. ASSUME NEW c, One(c) \/ Two(c) \/ Three(c) PROVE Shaped(c)
  <2>1. CASE One(c)
    BY <2>1 DEF Shaped
  <2>2. CASE Two(c)
    <3>1. \A j \in 1 .. 1 : j = 1
      OBVIOUS
    <3> QED BY <2>2, <3>1 DEF Shaped
  <2>3. CASE Three(c)
    <3>1. \A j \in 1 .. 2 : j = 1 \/ j = 2
      OBVIOUS
    <3> QED BY <2>3, <3>1 DEF Shaped
  <2> QED BY <1>1, <2>1, <2>2, <2>3
<1>2. \A k \in {1, 2} : One(Chain[k]) /\ One(LedChain[k])
  BY DEF Chain, LedChain, Endings
<1>3. \A k \in {3, 4, 5, 6, 7, 8, 13, 14} : Two(Chain[k])
  BY DEF Chain, Endings, Directions
<1>4. \A k \in {9, 10, 11, 12, 15, 16, 17, 18} : Three(Chain[k])
  BY DEF Chain, Endings, Directions
<1>5. DOMAIN Chain = 1 .. 18 /\ DOMAIN LedChain = 1 .. 2
  BY DEF Chain, LedChain
<1> HIDE DEF One, Two, Three
<1>6. \A k \in 1 .. 18 : k \in {1, 2} \/ k \in {3, 4, 5, 6, 7, 8, 13, 14}
                                     \/ k \in {9, 10, 11, 12, 15, 16, 17, 18}
  OBVIOUS
<1> QED BY <1>1, <1>2, <1>3, <1>4, <1>5, <1>6 DEF Command, LedCommand

(***************************************************************************)
(* Word k of the stream is word at[k] of the command issued as of[k]-th.   *)
(* A direction is followed by the next word of its command, an ending by   *)
(* words of later ones; so what strstr finds lies in one command.          *)
(***************************************************************************)
Origin(of, at) ==
  /\ of \in [1 .. Len(stream) -> 1 .. Len(issued)]
  /\ at \in [1 .. Len(stream) -> Nat \ {0}]
  /\ \A k \in 1 .. Len(stream) : stream[k] # "cut" =>
       at[k] <= Len(issued[of[k]]) /\ stream[k] = issued[of[k]][at[k]]
  /\ \A k \in 1 .. Len(stream) : stream[k] \in Directions =>
       k < Len(stream) /\ of[k + 1] = of[k] /\ at[k + 1] = at[k] + 1
  /\ \A k, l \in 1 .. Len(stream) : k < l =>
       of[k] <= of[l] /\ (stream[k] \in Endings => of[k] < of[l])

\* The obeyed commands match issued ones, and all before what is unread.
Matches(match) ==
  /\ match \in [1 .. Len(executed) -> 1 .. Len(issued)]
  /\ \A k \in 1 .. Len(executed) : Occurs(executed[k], issued[match[k]])
  /\ \A k, l \in 1 .. Len(executed) : k < l => match[k] < match[l]

OrderInv ==
  /\ issued \in Seq(Command \cup LedCommand)
  /\ \E of, at, match :
       /\ Origin(of, at) /\ Matches(match)
       /\ \A k \in 1 .. Len(executed), l \in 1 .. Len(stream) : match[k] < of[l]

LEMMA DispatchOccurs ==
  ASSUME NEW mesg \in Seq(Words)
  PROVE  Dispatch(mesg) = NoCommand \/ Occurs(Dispatch(mesg), mesg)
<1> DEFINE matching == {k \in DOMAIN Chain : Occurs(Chain[k], mesg)}
<1>1. CASE matching = {}
  BY <1>1 DEF Dispatch, FirstIn
<1>2. CASE matching # {}
  <2>1. matching \subseteq Nat
    BY DEF Chain
  <2>2. Min(matching) \in matching
    BY <1>2, <2>1, MinIsLeast
  <2> QED BY <1>2, <2>2 DEF Dispatch, FirstIn
<1> QED BY <1>1, <1>2

(***************************************************************************)
(* What occurs in the stream is part of one issued command, the one its    *)
(* last word is of.                                                        *)
(***************************************************************************)
LEMMA OccursInOne ==
  ASSUME NEW of, NEW at, Origin(of, at), stream \in Seq(Words),
         issued \in Seq(Command \cup LedCommand),
         NEW cmd \in Command, NEW i \in Nat, i + Len(cmd) <= Len(stream),
         \A j \in 1 .. Len(cmd) : stream[i + j] = cmd[j]
  PROVE  /\ of[i + Len(cmd)] \in 1 .. Len(issued)
         /\ stream[i + Len(cmd)] \in Endings
         /\ Occurs(cmd, issued[of[i + Len(cmd)]])
<1>1. PICK n : n = Len(stream)
  OBVIOUS
<1>2. n \in Nat
  BY <1>1
<1>3. PICK L : L = Len(cmd)
  OBVIOUS
<1>4. /\ L \in 1 .. 3 /\ cmd[L] \in Endings /\ \A j \in 1 .. L - 1 : cmd[j] \in Directions
      /\ i + L <= n /\ \A j \in 1 .. L : stream[i + j] = cmd[j]
  BY <1>1, <1>3, CommandsAreShaped DEF Shaped
<1>5. /\ of \in [1 .. n -> 1 .. Len(issued)] /\ at \in [1 .. n -> Nat \ {0}]
      /\ \A k \in 1 .. n : stream[k] # "cut" =>
           at[k] <= Len(issued[of[k]]) /\ stream[k] = issued[of[k]][at[k]]
      /\ \A k \in 1 .. n : stream[k] \in Directions =>
           k < n /\ of[k + 1] = of[k] /\ at[k + 1] = at[k] + 1
  BY <1>1 DEF Origin
<1>6. \A j \in 1 .. L : i + j \in 1 .. n
  BY <1>2, <1>4
<1>7. \A j \in 1 .. L - 1 : of[i + (j + 1)] = of[i + j] /\ at[i + (j + 1)] = at[i + j] + 1
  <2>1. ASSUME NEW j \in 1 .. L - 1
        PROVE  of[i + (j + 1)] = of[i + j] /\ at[i + (j + 1)] = at[i + j] + 1
    <3>1. j \in 1 .. L /\ (i + j) + 1 = i + (j + 1)
      BY <1>4
    <3>2. stream[i + j] \in Directions /\ i + j \in 1 .. n
      BY <1>4, <1>6, <3>1
    <3> QED BY <1>5, <3>1, <3>2
  <2> QED BY <2>1
<1>8. PICK f \in 1 .. Len(issued), p \in Nat \ {0} : f = of[i + L] /\ p = at[i + 1]
  <2>1. i + L \in 1 .. n /\ i + 1 \in 1 .. n
    BY <1>4, <1>6
  <2>2. of[i + L] \in 1 .. Len(issued) /\ at[i + 1] \in Nat \ {0}
    BY <1>5, <2>1
  <2> QED BY <2>2
<1>9. \A j \in 1 .. L : of[i + j] = f /\ at[i + j] = p + j - 1
  <2>1. CASE L = 1
    <3>1. \A j \in 1 .. 1 : j = 1
      OBVIOUS
    <3>2. p + 1 - 1 = p
      BY <1>8
    <3> QED BY <1>8, <2>1, <3>1, <3>2
  <2>2. CASE L = 2
    <3>1. of[i + 2] = of[i + 1] /\ at[i + 2] = at[i + 1] + 1
      BY <1>7, <2>2
    <3>2. \A j \in 1 .. 2 : j = 1 \/ j = 2
      OBVIOUS
    <3>3. p + 1 - 1 = p /\ p + 2 - 1 = p + 1
      BY <1>8
    <3> QED BY <1>8, <2>2, <3>1, <3>2, <3>3
  <2>3. CASE L = 3
    <3>1. of[i + 2] = of[i + 1] /\ at[i + 2] = at[i + 1] + 1
      BY <1>7, <2>3
    <3>2. of[i + 3] = of[i + 2] /\ at[i + 3] = at[i + 2] + 1
      BY <1>7, <2>3
    <3>3. \A j \in 1 .. 3 : j = 1 \/ j = 2 \/ j = 3
      OBVIOUS
    <3>4. p + 1 - 1 = p /\ p + 2 - 1 = p + 1 /\ p + 3 - 1 = (p + 1) + 1
      BY <1>8
    <3> QED BY <1>8, <2>3, <3>1, <3>2, <3>3, <3>4
  <2>4. L = 1 \/ L = 2 \/ L = 3
    BY <1>4
  <2> QED BY <2>1, <2>2, <2>3, <2>4
<1>10. \A j \in 1 .. L : cmd[j] # "cut"
  <2>1. \A j \in 1 .. L : j \in 1 .. L - 1 \/ j = L
    BY <1>4
  <2> QED BY <1>4, <2>1 DEF Directions, Endings
<1>11. \A j \in 1 .. L : p + j - 1 <= Len(issued[f]) /\ cmd[j] = issued[f][p + j - 1]
  <2>1. ASSUME NEW j \in 1 .. L
        PROVE  p + j - 1 <= Len(issued[f]) /\ cmd[j] = issued[f][p + j - 1]
    <3>1. i + j \in 1 .. n /\ stream[i + j] = cmd[j] /\ cmd[j] # "cut"
      BY <1>4, <1>6, <1>10
    <3>2. at[i + j] <= Len(issued[of[i + j]]) /\ stream[i + j] = issued[of[i + j]][at[i + j]]
      BY <1>5, <3>1
    <3>3. of[i + j] = f /\ at[i + j] = p + j - 1
      BY <1>9
    <3> QED BY <3>1, <3>2, <3>3
  <2> QED BY <2>1
<1>12. p - 1 \in 0 .. Len(issued[f]) - L
  <2>1. p + L - 1 <= Len(issued[f])
    BY <1>4, <1>11
  <2>2. Len(issued[f]) \in Int
    <3>1. issued[f] \in Seq(Words)
      BY <1>8, CommandsAreWords
    <3> QED BY <3>1
  <2> QED BY <1>4, <2>1, <2>2
<1>13. \A j \in 1 .. L : issued[f][(p - 1) + j] = cmd[j]
  <2>1. \A j \in 1 .. L : (p - 1) + j = p + j - 1
    BY <1>4
  <2> QED BY <1>11, <2>1
<1>14. stream[i + L] \in Endings
  BY <1>4
<1> QED BY <1>3, <1>8, <1>12, <1>13, <1>14 DEF Occurs

LEMMA IssueOrdered ==
  ASSUME OrderInv, stream \in Seq(Words), executed \in Seq(Command),
         NEW cmd \in Vocabulary, Issue(cmd)
  PROVE  OrderInv'
<1>1. PICK of, at, match :
        /\ Origin(of, at) /\ Matches(match)
        /\ \A k \in 1 .. Len(executed), l \in 1 .. Len(stream) : match[k] < of[l]
  BY DEF OrderInv
<1>2. PICK n \in Nat, m \in Nat, e \in Nat :
        n = Len(stream) /\ m = Len(issued) /\ e = Len(executed)
  BY DEF OrderInv
<1>3. cmd \in Command \cup LedCommand /\ cmd \in Seq(Words) /\ Shaped(cmd)
  BY StreamAssumption, CommandsAreWords, CommandsAreShaped
<1>4. PICK L \in 1 .. 3 : L = Len(cmd)
  BY <1>3 DEF Shaped
<1>5. /\ issued' \in Seq(Command \cup LedCommand) /\ Len(issued') = m + 1
      /\ issued'[m + 1] = cmd /\ \A j \in 1 .. m : issued'[j] = issued[j]
  BY <1>2, <1>3 DEF Issue, OrderInv
<1>6. /\ Len(stream') = n + L
      /\ \A k \in 1 .. n : stream'[k] = stream[k]
      /\ \A k \in 1 .. L : stream'[n + k] = cmd[k]
  BY <1>2, <1>3, <1>4 DEF Issue
<1>7. executed' = executed
  BY DEF Issue
<1>8. /\ of \in [1 .. n -> 1 .. m] /\ at \in [1 .. n -> Nat \ {0}]
      /\ \A k \in 1 .. n : stream[k] # "cut" =>
           at[k] <= Len(issued[of[k]]) /\ stream[k] = issued[of[k]][at[k]]
      /\ \A k \in 1 .. n : stream[k] \in Directions =>
           k < n /\ of[k + 1] = of[k] /\ at[k + 1] = at[k] + 1
      /\ \A k, l \in 1 .. n : k < l =>
           of[k] <= of[l] /\ (stream[k] \in Endings => of[k] < of[l])
  BY <1>1, <1>2 DEF Origin
<1>9. PICK of2 : of2 = [k \in 1 .. n + L |-> IF k <= n THEN of[k] ELSE m + 1]
  OBVIOUS
<1>10. PICK at2 : at2 = [k \in 1 .. n + L |-> IF k <= n THEN at[k] ELSE k - n]
  OBVIOUS
<1>11. \A k \in 1 .. n + L : k \in 1 .. n \/ (k - n \in 1 .. L /\ k = n + (k - n) /\ ~(k <= n))
  BY <1>4
<1>12. /\ \A k \in 1 .. n : of2[k] = of[k] /\ at2[k] = at[k] /\ of2[k] \in 1 .. m
       /\ \A k \in 1 .. L : of2[n + k] = m + 1 /\ at2[n + k] = k
  BY <1>4, <1>8, <1>9, <1>10
<1>13. of2 \in [1 .. n + L -> 1 .. m + 1] /\ at2 \in [1 .. n + L -> Nat \ {0}]
  BY <1>4, <1>8, <1>9, <1>10, <1>11
<1>14. ASSUME NEW k \in 1 .. n + L, stream'[k] # "cut"
       PROVE  at2[k] <= Len(issued'[of2[k]]) /\ stream'[k] = issued'[of2[k]][at2[k]]
  <2>1. CASE k \in 1 .. n
    <3>1. stream'[k] = stream[k] /\ stream[k] # "cut"
      BY <1>6, <1>14, <2>1
    <3>2. at[k] <= Len(issued[of[k]]) /\ stream[k] = issued[of[k]][at[k]]
      BY <1>8, <2>1, <3>1
    <3>3. of2[k] = of[k] /\ at2[k] = at[k] /\ of[k] \in 1 .. m
      BY <1>12, <2>1
    <3>4. issued'[of[k]] = issued[of[k]]
      BY <1>5, <3>3
    <3> QED BY <3>1, <3>2, <3>3, <3>4
  <2>2. CASE k - n \in 1 .. L /\ k = n + (k - n)
    <3>1. PICK j \in 1 .. L : k = n + j
      BY <2>2
    <3> QED BY <1>4, <1>5, <1>6, <1>12, <3>1
  <2> QED BY <1>11, <2>1, <2>2
<1>15. ASSUME NEW k \in 1 .. n + L, stream'[k] \in Directions
       PROVE  k < n + L /\ of2[k + 1] = of2[k] /\ at2[k + 1] = at2[k] + 1
  <2>1. CASE k \in 1 .. n
    <3>1. k < n /\ of[k + 1] = of[k] /\ at[k + 1] = at[k] + 1
      BY <1>6, <1>8, <1>15, <2>1
    <3>2. k + 1 \in 1 .. n
      BY <2>1, <3>1
    <3> QED BY <1>4, <1>12, <2>1, <3>1, <3>2
  <2>2. CASE k - n \in 1 .. L /\ k = n + (k - n)
    <3>1. PICK j \in 1 .. L : k = n + j
      BY <2>2
    <3>2. cmd[j] \in Directions
      BY <1>6, <1>15, <3>1
    <3>3. j # L
      BY <1>3, <1>4, <3>2 DEF Shaped, Directions, Endings
    <3>4. j + 1 \in 1 .. L /\ k + 1 = n + (j + 1) /\ k < n + L
      BY <1>4, <3>1, <3>3
    <3> QED BY <1>12, <3>1, <3>4
  <2> QED BY <1>11, <2>1, <2>2
<1>16. ASSUME NEW k \in 1 .. n + L, NEW l \in 1 .. n + L, k < l
       PROVE  of2[k] <= of2[l] /\ (stream'[k] \in Endings => of2[k] < of2[l])
  <2>1. CASE l \in 1 .. n
    <3>1. k \in 1 .. n
      BY <1>16, <2>1
    <3> QED BY <1>6, <1>8, <1>12, <1>16, <2>1, <3>1
  <2>2. CASE l - n \in 1 .. L /\ l = n + (l - n)
    <3>1. PICK j \in 1 .. L : l = n + j
      BY <2>2
    <3>2. of2[l] = m + 1
      BY <1>12, <3>1
    <3>3. CASE k \in 1 .. n
      <4>1. of2[k] \in 1 .. m
        BY <1>12, <3>3
      <4> QED BY <3>2, <4>1
    <3>4. CASE k - n \in 1 .. L /\ k = n + (k - n)
      <4>1. PICK i \in 1 .. L : k = n + i
        BY <3>4
      <4>2. of2[k] = m + 1 /\ stream'[k] = cmd[i]
        BY <1>6, <1>12, <4>1
      <4>3. i \in 1 .. L - 1
        BY <1>4, <1>16, <3>1, <4>1
      <4>4. cmd[i] \notin Endings
        BY <1>3, <1>4, <4>3 DEF Shaped, Directions, Endings
      <4> QED BY <3>2, <4>2, <4>4
    <3> QED BY <1>11, <3>3, <3>4
  <2> QED BY <1>11, <2>1, <2>2
<1>17. Origin(of2, at2)'
  BY <1>5, <1>6, <1>13, <1>14, <1>15, <1>16 DEF Origin
<1>18. /\ match \in [1 .. e -> 1 .. m]
       /\ \A k \in 1 .. e : Occurs(executed[k], issued[match[k]])
       /\ \A k, l \in 1 .. e : k < l => match[k] < match[l]
  BY <1>1, <1>2 DEF Matches
<1>19. Matches(match)'
  <2>1. match \in [1 .. e -> 1 .. m + 1]
    BY <1>18
  <2>2. \A k \in 1 .. e : Occurs(executed'[k], issued'[match[k]])
    BY <1>5, <1>7, <1>18
  <2> QED BY <1>2, <1>5, <1>7, <1>18, <2>1, <2>2 DEF Matches
<1>20. ASSUME NEW k \in 1 .. e, NEW l \in 1 .. n + L PROVE match[k] < of2[l]
  <2>1. CASE l \in 1 .. n
    BY <1>1, <1>2, <1>12, <2>1
  <2>2. CASE l - n \in 1 .. L /\ l = n + (l - n)
    <3>1. of2[l] = m + 1
      BY <1>12, <2>2
    <3>2. match[k] \in 1 .. m
      BY <1>18
    <3> QED BY <3>1, <3>2
  <2> QED BY <1>11, <2>1, <2>2
<1> QED BY <1>2, <1>5, <1>6, <1>7, <1>17, <1>19, <1>20 DEF OrderInv

LEMMA ReceiveOrdered ==
  ASSUME OrderInv, stream \in Seq(Words), executed \in Seq(Command),
         NEW n \in DOMAIN stream, NEW inside \in BOOLEAN, ReceiveCommand(n, inside)
  PROVE  OrderInv'
<1>1. PICK of, at, match :
        /\ Origin(of, at) /\ Matches(match)
        /\ \A k \in 1 .. Len(executed), l \in 1 .. Len(stream) : match[k] < of[l]
  BY DEF OrderInv
<1>2. PICK s \in Nat, m \in Nat, e \in Nat :
        s = Len(stream) /\ m = Len(issued) /\ e = Len(executed)
  BY DEF OrderInv
<1>3. PICK o \in 0 .. s : o = (IF inside THEN n - 1 ELSE n)
  BY <1>2
<1>4. n \in 1 .. s
  BY <1>2
\* What is unread is the stream without its first o words, but for the cut.
<1>5. /\ stream' \in Seq(Words) /\ Len(stream') = s - o
      /\ \A k \in 1 .. s - o : stream'[k] = stream[k + o] \/ stream'[k] = "cut"
  <2>1. PICK u : u = SubSeq(stream, n + 1, s)
    OBVIOUS
  <2>2. /\ u \in Seq(Words) /\ Len(u) = s - n
        /\ \A k \in 1 .. s - n : u[k] = stream[k + n]
    <3>1. n + 1 \in Int /\ s \in Int /\ \A k \in n + 1 .. s : stream[k] \in Words
      BY <1>2, <1>4
    <3>2. /\ u \in Seq(Words) /\ Len(u) = IF n + 1 <= s THEN s - (n + 1) + 1 ELSE 0
          /\ \A k \in 1 .. s - (n + 1) + 1 : u[k] = stream[n + 1 + k - 1]
      <4>1. /\ SubSeq(stream, n + 1, s) \in Seq(Words)
            /\ Len(SubSeq(stream, n + 1, s)) = IF n + 1 <= s THEN s - (n + 1) + 1 ELSE 0
            /\ \A k \in 1 .. s - (n + 1) + 1 :
                 SubSeq(stream, n + 1, s)[k] = stream[n + 1 + k - 1]
        BY <3>1, SubSeqProperties
      <4> QED BY <2>1, <4>1, Zenon
    <3>3. s - (n + 1) + 1 = s - n /\ (~(n + 1 <= s) => s - n = 0)
      BY <1>4
    <3>4. \A k \in 1 .. s - n : n + 1 + k - 1 = k + n
      BY <1>4
    <3> QED BY <3>2, <3>3, <3>4
  <2>3. CASE inside
    <3>1. stream' = <<"cut">> \o u
      BY <1>2, <2>1, <2>3 DEF ReceiveCommand, Unread
    <3>2. "cut" \in Words
      BY DEF Words
    <3>3. /\ stream' \in Seq(Words) /\ Len(stream') = 1 + (s - n)
          /\ \A k \in 1 .. 1 + (s - n) : stream'[k] = IF k = 1 THEN "cut" ELSE u[k - 1]
      BY <2>2, <3>1, <3>2
    <3>4. s - o = 1 + (s - n)
      BY <1>3, <1>4, <2>3
    <3>5. \A k \in 1 .. 1 + (s - n) : k # 1 => k - 1 \in 1 .. s - n /\ (k - 1) + n = k + o
      BY <1>3, <1>4, <2>3
    <3> QED BY <2>2, <3>3, <3>4, <3>5
  <2>4. CASE ~inside
    <3>1. stream' = u
      <4>1. stream' = << >> \o u
        BY <1>2, <2>1, <2>4 DEF ReceiveCommand, Unread
      <4>2. << >> \o u = u
        BY <2>2
      <4> QED BY <4>1, <4>2
    <3>2. o = n
      BY <1>3, <2>4
    <3> QED BY <2>2, <3>1, <3>2
  <2> QED BY <2>3, <2>4
\* And what was received is these words, but for the cut.
<1>6. PICK r \in Seq(Words) : r = Received(n, inside)
  BY ReceivedAreWords
<1>7. \A k \in 1 .. Len(r) : r[k] # "cut" => k \in 1 .. o /\ r[k] = stream[k]
  <2>1. CASE inside
    <3>0. SubSeq(stream, 1, n - 1) \in Seq(Words)
      OBVIOUS
    <3>1. PICK u \in Seq(Words) : u = SubSeq(stream, 1, n - 1)
      BY <3>0
    <3>2. Len(u) = n - 1 /\ \A k \in 1 .. n - 1 : u[k] = stream[k]
      BY <1>2, <1>4, <3>1
    <3>3. r = Append(u, "cut") /\ o = n - 1
      BY <1>3, <1>6, <2>1, <3>1 DEF Received
    <3>4. Len(r) = n /\ \A k \in 1 .. n : r[k] = IF k = n THEN "cut" ELSE u[k]
      BY <1>4, <3>2, <3>3
    <3>5. \A k \in 1 .. n : k = n \/ k \in 1 .. n - 1
      BY <1>4
    <3> QED BY <3>2, <3>3, <3>4, <3>5
  <2>2. CASE ~inside
    <3>1. r = SubSeq(stream, 1, n) /\ o = n
      BY <1>3, <1>6, <2>2 DEF Received
    <3>2. Len(r) = n /\ \A k \in 1 .. n : r[k] = stream[k]
      BY <1>2, <1>4, <3>1
    <3> QED BY <3>1, <3>2
  <2> QED BY <2>1, <2>2
<1>8. issued' = issued
  BY DEF ReceiveCommand
<1>9. /\ of \in [1 .. s -> 1 .. m] /\ at \in [1 .. s -> Nat \ {0}]
      /\ \A k \in 1 .. s : stream[k] # "cut" =>
           at[k] <= Len(issued[of[k]]) /\ stream[k] = issued[of[k]][at[k]]
      /\ \A k \in 1 .. s : stream[k] \in Directions =>
           k < s /\ of[k + 1] = of[k] /\ at[k + 1] = at[k] + 1
      /\ \A k, l \in 1 .. s : k < l =>
           of[k] <= of[l] /\ (stream[k] \in Endings => of[k] < of[l])
  BY <1>1, <1>2 DEF Origin
<1>10. PICK of2 : of2 = [k \in 1 .. s - o |-> of[k + o]]
  OBVIOUS
<1>11. PICK at2 : at2 = [k \in 1 .. s - o |-> at[k + o]]
  OBVIOUS
<1>12. \A k \in 1 .. s - o : k + o \in 1 .. s
  OBVIOUS
<1>13. of2 \in [1 .. s - o -> 1 .. m] /\ at2 \in [1 .. s - o -> Nat \ {0}]
  BY <1>9, <1>10, <1>11, <1>12
<1>14. ASSUME NEW k \in 1 .. s - o, stream'[k] # "cut"
       PROVE  at2[k] <= Len(issued[of2[k]]) /\ stream'[k] = issued[of2[k]][at2[k]]
  BY <1>5, <1>9, <1>10, <1>11, <1>12, <1>14
<1>15. ASSUME NEW k \in 1 .. s - o, stream'[k] \in Directions
       PROVE  k < s - o /\ of2[k + 1] = of2[k] /\ at2[k + 1] = at2[k] + 1
  <2>1. stream[k + o] \in Directions
    BY <1>5, <1>15 DEF Directions
  <2>2. k + o < s /\ of[(k + o) + 1] = of[k + o] /\ at[(k + o) + 1] = at[k + o] + 1
    BY <1>9, <1>12, <2>1
  <2>3. k + 1 \in 1 .. s - o /\ (k + o) + 1 = (k + 1) + o /\ k < s - o
    BY <2>2
  <2> QED BY <1>10, <1>11, <2>2, <2>3
<1>16. ASSUME NEW k \in 1 .. s - o, NEW l \in 1 .. s - o, k < l
       PROVE  of2[k] <= of2[l] /\ (stream'[k] \in Endings => of2[k] < of2[l])
  <2>1. k + o \in 1 .. s /\ l + o \in 1 .. s /\ k + o < l + o
    BY <1>12, <1>16
  <2>2. stream'[k] \in Endings => stream[k + o] \in Endings
    BY <1>5 DEF Endings
  <2>3. of2[k] = of[k + o] /\ of2[l] = of[l + o]
    BY <1>10
  <2> QED BY <1>9, <2>1, <2>2, <2>3
<1>17. Origin(of2, at2)'
  <2>1. Len(stream') = s - o /\ issued' = issued /\ Len(issued) = m
    BY <1>2, <1>5, <1>8
  <2> QED BY <1>13, <1>14, <1>15, <1>16, <2>1 DEF Origin
<1>18. /\ match \in [1 .. e -> 1 .. m]
       /\ \A k \in 1 .. e : Occurs(executed[k], issued[match[k]])
       /\ \A k, l \in 1 .. e : k < l => match[k] < match[l]
  BY <1>1, <1>2 DEF Matches
<1>19. \A k \in 1 .. e, l \in 1 .. s - o : match[k] < of2[l]
  BY <1>1, <1>2, <1>10, <1>12
<1>20. PICK cmd : cmd = Dispatch(r)
  OBVIOUS
<1>21. CASE cmd = NoCommand
  <2>1. executed' = executed
    BY <1>6, <1>20, <1>21 DEF ReceiveCommand, Obey
  <2>2. Matches(match)'
    BY <1>1, <1>8, <2>1 DEF Matches
  <2> QED BY <1>2, <1>5, <1>8, <1>17, <1>19, <2>1, <2>2 DEF OrderInv
<1>22. CASE cmd # NoCommand
  <2>1. cmd \in Command /\ Occurs(cmd, r)
    BY <1>6, <1>20, <1>22, DispatchIsCommand, DispatchOccurs
  <2>2. PICK L \in 1 .. 3 : L = Len(cmd)
    BY <2>1, CommandsAreShaped DEF Shaped
  <2>3. PICK i \in 0 .. Len(r) - L : \A j \in 1 .. L : r[i + j] = cmd[j]
    BY <2>1, <2>2 DEF Occurs
  <2>4. \A j \in 1 .. L : cmd[j] # "cut"
    <3>1. \A j \in 1 .. L : cmd[j] \in Directions \cup Endings
      <4>1. \A j \in 1 .. L : j \in 1 .. L - 1 \/ j = L
        BY <2>2
      <4> QED BY <2>1, <2>2, <4>1, CommandsAreShaped DEF Shaped
    <3> QED BY <3>1 DEF Directions, Endings
  <2>5. \A j \in 1 .. L : i + j \in 1 .. o /\ stream[i + j] = cmd[j]
    <3>1. \A j \in 1 .. L : i + j \in 1 .. Len(r)
      BY <1>6, <2>2, <2>3
    <3> QED BY <1>7, <2>3, <2>4, <3>1
  <2>6. i + L \in 1 .. o /\ i \in Nat
    BY <2>2, <2>3, <2>5
  <2>7. /\ of[i + L] \in 1 .. m /\ stream[i + L] \in Endings
        /\ Occurs(cmd, issued[of[i + L]])
    <3>1. i + L <= Len(stream)
      BY <1>2, <1>3, <2>6
    <3>2. issued \in Seq(Command \cup LedCommand)
      BY DEF OrderInv
    <3> QED BY <1>1, <1>2, <2>1, <2>2, <2>5, <2>6, <3>1, <3>2, OccursInOne
  <2>8. PICK f \in 1 .. m : f = of[i + L]
    BY <2>7
  <2>9. i + L \in 1 .. s
    BY <1>3, <2>6
  <2>10. \A l \in 1 .. s - o : f < of2[l]
    <3>1. ASSUME NEW l \in 1 .. s - o PROVE f < of2[l]
      <4>1. l + o \in 1 .. s /\ i + L < l + o
        <5>1. l + o \in 1 .. s /\ l >= 1
          BY <1>12
        <5>2. i + L <= o
          BY <2>6
        <5>3. i + L \in Int /\ o \in Int /\ l \in Int
          BY <1>3, <2>9
        <5> QED BY <5>1, <5>2, <5>3
      <4>2. of[i + L] < of[l + o]
        BY <1>9, <2>7, <2>9, <4>1
      <4> QED BY <1>10, <2>8, <4>2
    <3> QED BY <3>1
  <2>11. executed' = Append(executed, cmd)
    BY <1>6, <1>20, <1>22 DEF ReceiveCommand, Obey
  <2>12. /\ Len(executed') = e + 1 /\ executed'[e + 1] = cmd
         /\ \A k \in 1 .. e : executed'[k] = executed[k]
    BY <1>2, <2>1, <2>11
  <2>13. PICK match2 : match2 = [k \in 1 .. e + 1 |-> IF k <= e THEN match[k] ELSE f]
    OBVIOUS
  <2>14. \A k \in 1 .. e + 1 : k \in 1 .. e \/ k = e + 1
    OBVIOUS
  <2>15. match2[e + 1] = f /\ \A k \in 1 .. e : match2[k] = match[k]
    BY <2>13
  <2>16. match2 \in [1 .. e + 1 -> 1 .. m]
    BY <1>18, <2>8, <2>13, <2>14
  <2>17. \A k \in 1 .. e + 1 : Occurs(executed'[k], issued'[match2[k]])
    BY <1>8, <1>18, <2>7, <2>8, <2>12, <2>14, <2>15
  <2>18. ASSUME NEW k \in 1 .. e + 1, NEW l \in 1 .. e + 1, k < l
         PROVE  match2[k] < match2[l]
    <3>1. k \in 1 .. e
      BY <2>18
    <3>2. CASE l \in 1 .. e
      BY <1>18, <2>15, <2>18, <3>1, <3>2
    <3>3. CASE l = e + 1
      BY <1>1, <1>2, <2>8, <2>9, <2>15, <3>1, <3>3
    <3> QED BY <2>14, <3>2, <3>3
  <2>19. Matches(match2)'
    BY <1>2, <1>8, <2>12, <2>16, <2>17, <2>18 DEF Matches
  <2>20. \A k \in 1 .. e + 1, l \in 1 .. s - o : match2[k] < of2[l]
    BY <1>19, <2>10, <2>14, <2>15
  <2> QED BY <1>5, <1>8, <1>17, <2>12, <2>19, <2>20 DEF OrderInv
<1> QED BY <1>21, <1>22

LEMMA AlwaysOrdered == Spec => []OrderInv
<1>1. Init => OrderInv
  <2> SUFFICES ASSUME Init PROVE OrderInv
    OBVIOUS
  <2>1. stream = << >> /\ issued = << >> /\ executed = << >>
    BY DEF Init
  <2>2. PICK none : none = [k \in 1 .. 0 |-> 0]
    OBVIOUS
  <2>3. Origin(none, none) /\ Matches(none)
    BY <2>1, <2>2 DEF Origin, Matches
  <2> QED BY <2>1, <2>3 DEF OrderInv
<1>2. StreamInv /\ OrderInv /\ [Next]_vars => OrderInv'
  <2>1. ASSUME StreamInv, OrderInv, Next PROVE OrderInv'
    BY <2>1, IssueOrdered, ReceiveOrdered DEF Next, StreamInv
  <2>2. ASSUME OrderInv, UNCHANGED vars PROVE OrderInv'
    <3>1. stream' = stream /\ issued' = issued /\ executed' = executed
      BY <2>2 DEF vars
    <3>2. PICK of, at, match :
            /\ Origin(of, at) /\ Matches(match)
            /\ \A k \in 1 .. Len(executed), l \in 1 .. Len(stream) : match[k] < of[l]
      BY <2>2 DEF OrderInv
    <3>3. Origin(of, at)' /\ Matches(match)'
      <4>1. Origin(of, at)'
        BY <3>1, <3>2 DEF Origin
      <4>2. Matches(match)'
        BY <3>1, <3>2 DEF Matches
      <4> QED BY <4>1, <4>2
    <3>4. issued' \in Seq(Command \cup LedCommand)
      BY <2>2, <3>1 DEF OrderInv
    <3>5. \A k \in 1 .. Len(executed'), l \in 1 .. Len(stream') : match[k] < of[l]
      BY <3>1, <3>2
    <3> QED BY <3>3, <3>4, <3>5 DEF OrderInv
  <2> QED BY <2>1, <2>2
<1> QED BY <1>1, <1>2, AlwaysStream, PTL DEF Spec

(***************************************************************************)
(* Whatever the network coalesces or cuts, the car obeys commands in the   *)
(* order they were issued, each at most once, and each is the issued one   *)
(* or a command hidden in it: nothing that strstr finds in the buffer      *)
(* spans two commands, and memset leaves nothing to be found again.        *)
(***************************************************************************)
THEOREM InOrderObeyed == Spec => []ObeysInOrder
<1>1. ASSUME StreamInv, OrderInv PROVE ObeysInOrder
  <2>1. PICK match : Matches(match)
    BY <1>1 DEF OrderInv
  <2>2. DOMAIN executed = 1 .. Len(executed) /\ DOMAIN issued = 1 .. Len(issued)
    BY <1>1 DEF StreamInv, OrderInv
  <2> QED BY <2>1, <2>2 DEF Matches, ObeysInOrder, ObeysPartOf
<1> QED BY <1>1, AlwaysStream, AlwaysOrdered, PTL
----------------------------------------------------------------------------
(* A client that waits. *)

(***************************************************************************)
(* Only AUTO and MENU are commands of one word.                            *)
(***************************************************************************)
LEMMA ShortCommands ==
  ASSUME NEW cmd \in Command
  PROVE  /\ Shaped(cmd)
         /\ Len(cmd) = 1 <=> cmd \notin DriveCommand
         /\ Len(cmd) = 1 => cmd[1] \in ModeWords
         /\ Len(cmd) # 1 => NoModes(cmd)
<1>1. Shaped(cmd)
  BY CommandsAreShaped
<1>2. ASSUME cmd \notin DriveCommand PROVE Len(cmd) = 1 /\ cmd[1] \in ModeWords
  BY <1>2 DEF DriveCommand, ModeWords
<1>3. ASSUME cmd \in DriveCommand PROVE Len(cmd) # 1
  <2>1. PICK k \in 1 .. 18 : cmd = Chain[k]
    BY SameOrder DEF Command
  <2>2. k \notin {1, 2}
    <3>1. Chain[1] = <<"AUTO">> /\ Chain[2] = <<"MENU">>
      BY DEF Chain
    <3> QED BY <1>3, <2>1, <3>1 DEF DriveCommand
  <2>3. \A n \in {3, 4, 5, 6, 7, 8, 13, 14} : Len(Chain[n]) = 2
    BY DEF Chain
  <2>4. \A n \in {9, 10, 11, 12, 15, 16, 17, 18} : Len(Chain[n]) = 3
    BY DEF Chain
  <2>5. k \in {3, 4, 5, 6, 7, 8, 13, 14} \/ k \in {9, 10, 11, 12, 15, 16, 17, 18}
    BY <2>2
  <2> QED BY <2>1, <2>3, <2>4, <2>5
<1> QED BY <1>1, <1>2, <1>3, DriveHasNoModes

(***************************************************************************)
(* Words of the LED are in no command of the car.                          *)
(***************************************************************************)
LEMMA LedApart ==
  /\ LedCommand = {<<"open">>, <<"close">>}
  /\ \A cmd \in Command : \A j \in 1 .. Len(cmd) : cmd[j] \notin {"open", "close"}
<1>1. LedCommand = {<<"open">>, <<"close">>}
  <2>1. LedChain[1] = <<"open">> /\ LedChain[2] = <<"close">>
    BY DEF LedChain
  <2>2. DOMAIN LedChain = 1 .. 2
    BY DEF LedChain
  <2>3. 1 .. 2 = {1, 2}
    OBVIOUS
  <2>4. LedCommand = {LedChain[k] : k \in {1, 2}}
    BY <2>2, <2>3 DEF LedCommand
  <2> QED BY <2>1, <2>4
<1>2. ASSUME NEW cmd \in Command, NEW j \in 1 .. Len(cmd)
      PROVE  cmd[j] \notin {"open", "close"}
  <2>1. PICK k \in 1 .. 18 : cmd = Chain[k]
    BY SameOrder DEF Command
  <2> DEFINE End(n) == Chain[n][Len(Chain[n])] \notin {"open", "close"}
  <2>2. End(1) /\ End(2) /\ End(3) /\ End(4) /\ End(5) /\ End(6)
    BY DEF Chain
  <2>3. End(7) /\ End(8) /\ End(9) /\ End(10) /\ End(11) /\ End(12)
    BY DEF Chain
  <2>4. End(13) /\ End(14) /\ End(15) /\ End(16) /\ End(17) /\ End(18)
    BY DEF Chain
  <2>5. End(k)
    <3> HIDE DEF End
    <3>1. k \in 1 .. 6 \/ k \in 7 .. 12 \/ k \in 13 .. 18
      OBVIOUS
    <3>2. CASE k \in 1 .. 6
      <4>1. k = 1 \/ k = 2 \/ k = 3 \/ k = 4 \/ k = 5 \/ k = 6
        BY <3>2
      <4> QED BY <2>2, <4>1
    <3>3. CASE k \in 7 .. 12
      <4>1. k = 7 \/ k = 8 \/ k = 9 \/ k = 10 \/ k = 11 \/ k = 12
        BY <3>3
      <4> QED BY <2>3, <4>1
    <3>4. CASE k \in 13 .. 18
      <4>1. k = 13 \/ k = 14 \/ k = 15 \/ k = 16 \/ k = 17 \/ k = 18
        BY <3>4
      <4> QED BY <2>4, <4>1
    <3> QED BY <3>1, <3>2, <3>3, <3>4
  <2>6. PICK L \in 1 .. 3 : L = Len(cmd)
    BY CommandsAreShaped DEF Shaped
  <2>7. CASE j = L
    BY <2>1, <2>5, <2>6, <2>7
  <2>8. CASE j \in 1 .. L - 1
    <3>1. cmd[j] \in Directions
      BY <2>6, <2>8, CommandsAreShaped DEF Shaped
    <3> QED BY <3>1 DEF Directions
  <2> QED BY <2>6, <2>7, <2>8
<1> QED BY <1>1, <1>2

(***************************************************************************)
(* A command strstr finds in another one is itself or what comes after     *)
(* its first direction.                                                    *)
(***************************************************************************)
LEMMA OccursInCommand ==
  ASSUME NEW cmd \in Command, NEW d \in Command \ Composite, Occurs(d, cmd)
  PROVE  d = Plain(cmd)
<1>1. PICK L \in 1 .. 3, D \in 1 .. 3 : L = Len(cmd) /\ D = Len(d)
  BY ShortCommands DEF Shaped
<1>2. cmd \in Seq(Words) /\ d \in Seq(Words)
  BY CommandsAreWords
<1>3. PICK i \in 0 .. L - D : \A j \in 1 .. D : cmd[i + j] = d[j]
  BY <1>1 DEF Occurs
<1>4. D # 3 /\ (cmd \in Composite <=> L = 3)
  BY <1>1 DEF Composite
<1>5. \A j \in 1 .. L - 1 : cmd[j] \in Directions
  BY <1>1, ShortCommands DEF Shaped
<1>6. d[D] \in Endings
  BY <1>1, ShortCommands DEF Shaped
<1>7. i + D = L
  <2>1. SUFFICES ASSUME i + D # L PROVE FALSE
    OBVIOUS
  <2>2. i + D \in 1 .. L - 1 /\ D \in 1 .. D
    BY <1>1, <1>3, <2>1
  <2>3. cmd[i + D] \in Directions /\ cmd[i + D] \in Endings
    BY <1>3, <1>5, <1>6, <2>2
  <2> QED BY <2>3 DEF Directions, Endings
<1>8. D = 1 => L = 1
  <2>1. SUFFICES ASSUME D = 1, L # 1 PROVE FALSE
    OBVIOUS
  <2>2. cmd[L] = d[1] /\ L \in DOMAIN cmd
    BY <1>1, <1>2, <1>3, <1>7, <2>1
  <2>3. d[1] \in ModeWords /\ NoModes(cmd)
    BY <1>1, <2>1, ShortCommands
  <2> QED BY <2>2, <2>3 DEF NoModes
<1>9. CASE L = D
  <2>1. i = 0 /\ \A j \in 1 .. D : 0 + j = j
    BY <1>7, <1>9
  <2>2. \A j \in 1 .. Len(cmd) : cmd[j] = d[j]
    BY <1>1, <1>3, <1>9, <2>1
  <2>3. cmd = d
    BY <1>1, <1>2, <1>9, <2>2, SeqEqual
  <2> QED BY <1>4, <1>9, <2>3 DEF Plain
<1>10. CASE L # D
  <2>1. L = 3 /\ D = 2 /\ i = 1
    <3>1. D # 1
      BY <1>8, <1>10
    <3>2. D = 1 \/ D = 2 \/ D = 3
      OBVIOUS
    <3>3. D = 2
      BY <1>4, <3>1, <3>2
    <3>4. L = 1 \/ L = 2 \/ L = 3
      OBVIOUS
    <3>5. L = 3
      BY <1>7, <1>10, <3>3, <3>4
    <3> QED BY <1>7, <3>3, <3>5
  <2>2. cmd # << >> /\ cmd \in Composite
    <3>1. cmd \in Composite
      BY <1>4, <2>1
    <3>2. Len(cmd) = 3
      BY <1>1, <2>1, Zenon
    <3>3. cmd # << >>
      BY <3>2
    <3> QED BY <3>1, <3>3
  <2>3. /\ Tail(cmd) \in Seq(Words) /\ Len(Tail(cmd)) = L - 1
        /\ \A j \in 1 .. L - 1 : Tail(cmd)[j] = cmd[j + 1]
    BY <1>1, <1>2, <2>2, HeadTailProperties
  <2>4. L - 1 = 2 /\ \A j \in 1 .. 2 : j + 1 = 1 + j
    BY <2>1
  <2>5. \A j \in 1 .. 2 : Tail(cmd)[j] = d[j]
    BY <1>3, <2>1, <2>3, <2>4
  <2>6. Tail(cmd) = d
    BY <1>1, <1>2, <2>1, <2>3, <2>4, <2>5, SeqEqual
  <2> QED BY <2>2, <2>6 DEF Plain
<1> QED BY <1>9, <1>10

(***************************************************************************)
(* A command received alone is obeyed by the server it is for.             *)
(***************************************************************************)
LEMMA CarObeys ==
  ASSUME NEW cmd \in Command
  PROVE  Dispatch(cmd) = Plain(cmd) /\ Dispatch(cmd) # NoCommand /\ LedDispatch(cmd) = NoCommand
<1>1. cmd \in Seq(Words) /\ Len(cmd) \in 1 .. 3
  BY CommandsAreWords, ShortCommands DEF Shaped
<1>2. Dispatch(cmd) # NoCommand
  <2> DEFINE matching == {k \in DOMAIN Chain : Occurs(Chain[k], cmd)}
  <2>1. PICK k \in DOMAIN Chain : cmd = Chain[k]
    BY DEF Command
  <2>2. Occurs(cmd, cmd)
    <3>1. 0 \in 0 .. Len(cmd) - Len(cmd) /\ \A j \in 1 .. Len(cmd) : 0 + j = j
      BY <1>1
    <3> QED BY <3>1 DEF Occurs
  <2>3. matching # {} /\ matching \subseteq Nat
    <3>1. matching # {}
      BY <2>1, <2>2
    <3>2. DOMAIN Chain \subseteq Nat
      BY SameOrder
    <3> QED BY <3>1, <3>2
  <2>4. Min(matching) \in matching
    <3> HIDE DEF matching
    <3> QED BY <2>3, MinIsLeast
  <2>5. Dispatch(cmd) = Chain[Min(matching)]
    BY <2>3 DEF Dispatch, FirstIn
  <2>6. Dispatch(cmd) \in Command
    BY <2>4, <2>5 DEF Command
  <2>7. \A c \in Command : Len(c) \in 1 .. 3
    BY ShortCommands DEF Shaped
  <2>8. \A c \in Command : c # NoCommand
    BY <2>7 DEF NoCommand
  <2> QED BY <2>6, <2>8
<1>3. Dispatch(cmd) = Plain(cmd)
  <2>1. Dispatch(cmd) \in Command \ Composite /\ Occurs(Dispatch(cmd), cmd)
    BY <1>1, <1>2, DispatchIsCommand, DispatchNeverComposite, DispatchOccurs
  <2> QED BY <2>1, OccursInCommand
<1>4. LedDispatch(cmd) = NoCommand
  <2>1. ASSUME NEW k \in DOMAIN LedChain, Occurs(LedChain[k], cmd) PROVE FALSE
    <3>1. LedChain[k] \in {<<"open">>, <<"close">>}
      BY LedApart DEF LedCommand
    <3>2. PICK w \in {"open", "close"} : LedChain[k] = <<w>>
      BY <3>1
    <3>3. Len(<<w>>) = 1 /\ <<w>>[1] = w /\ 1 \in 1 .. 1
      OBVIOUS
    <3>4. PICK i \in 0 .. Len(cmd) - 1 : cmd[i + 1] = w
      BY <2>1, <3>2, <3>3 DEF Occurs
    <3>5. i + 1 \in 1 .. Len(cmd)
      BY <1>1, <3>4
    <3> QED BY <3>4, <3>5, LedApart
  <2> QED BY <2>1 DEF LedDispatch, FirstIn
<1> QED BY <1>2, <1>3, <1>4

LEMMA LedObeys ==
  ASSUME NEW cmd \in LedCommand
  PROVE  Dispatch(cmd) = NoCommand /\ LedDispatch(cmd) = cmd /\ cmd # NoCommand
<1>1. cmd \in Seq(Words)
  BY CommandsAreWords
<1>2. PICK w \in {"open", "close"} : cmd = <<w>>
  BY LedApart
<1>3. Len(cmd) = 1 /\ cmd[1] = w
  BY <1>2
<1>4. Dispatch(cmd) = NoCommand
  <2>1. SUFFICES ASSUME Dispatch(cmd) # NoCommand PROVE FALSE
    OBVIOUS
  <2>2. PICK d \in Command : Occurs(d, cmd)
    BY <1>1, <2>1, DispatchIsCommand, DispatchOccurs
  <2>3. PICK D \in 1 .. 3 : D = Len(d)
    <3>1. \A c \in Command : Len(c) \in 1 .. 3
      BY ShortCommands DEF Shaped
    <3> QED BY <2>2, <3>1
  <2>4. PICK i \in 0 .. 1 - D : \A j \in 1 .. D : cmd[i + j] = d[j]
    BY <1>3, <2>2, <2>3 DEF Occurs
  <2>5. Len(d) = 1 /\ i = 0 /\ 0 + 1 = 1 /\ 1 \in 1 .. D
    BY <2>3, <2>4
  <2>6. d[1] = w
    BY <1>3, <2>4, <2>5
  <2> QED BY <1>2, <2>5, <2>6, LedApart
<1>5. LedDispatch(cmd) = cmd
  <2> DEFINE matching == {k \in DOMAIN LedChain : Occurs(LedChain[k], cmd)}
  <2>1. DOMAIN LedChain = {1, 2} /\ LedChain[1] = <<"open">> /\ LedChain[2] = <<"close">>
    <3>1. 1 .. 2 = {1, 2}
      OBVIOUS
    <3>2. DOMAIN LedChain = 1 .. 2
      BY DEF LedChain
    <3>3. LedChain[1] = <<"open">> /\ LedChain[2] = <<"close">>
      BY DEF LedChain
    <3> QED BY <3>1, <3>2, <3>3
  <2>2. ASSUME NEW v \in {"open", "close"} PROVE Occurs(<<v>>, cmd) <=> v = w
    <3>1. Len(<<v>>) = 1 /\ <<v>>[1] = v
      OBVIOUS
    <3>2. \A i \in 0 .. 1 - 1 : i = 0
      OBVIOUS
    <3>3. \A j \in 1 .. 1 : j = 1
      OBVIOUS
    <3>4. Occurs(<<v>>, cmd) <=> \E i \in 0 .. 1 - 1 : \A j \in 1 .. 1 : cmd[i + j] = <<v>>[j]
      BY <1>3, <3>1 DEF Occurs
    <3>5. 0 \in 0 .. 1 - 1 /\ 1 \in 1 .. 1 /\ 0 + 1 = 1
      OBVIOUS
    <3> QED BY <1>3, <3>1, <3>2, <3>3, <3>4, <3>5
  <2>3. \A k \in DOMAIN LedChain : k \in matching <=> LedChain[k] = cmd
    <3>1. \A v \in {"open", "close"} : <<v>> = <<w>> <=> v = w
      OBVIOUS
    <3> QED BY <1>2, <2>1, <2>2, <3>1
  <2>4. matching # {} /\ matching \subseteq Nat
    BY <1>2, <2>1, <2>3
  <2>5. Min(matching) \in matching
    BY <2>4, MinIsLeast
  <2>6. LedDispatch(cmd) = LedChain[Min(matching)]
    BY <2>4 DEF LedDispatch, FirstIn
  <2> QED BY <2>3, <2>5, <2>6
<1>6. cmd # NoCommand
  BY <1>3 DEF NoCommand
<1> QED BY <1>4, <1>5, <1>6

(***************************************************************************)
(* What PacedClientIsObeyed says, of the first n commands issued.          *)
(***************************************************************************)
Answers(at, n) ==
  /\ at \in [1 .. Len(executed) -> 1 .. n]
  /\ \A k, l \in 1 .. Len(executed) : k < l => at[k] < at[l]
  /\ \A i \in 1 .. n : issued[i] \in LedCommand \/ \E k \in 1 .. Len(executed) : at[k] = i
  /\ \A k \in 1 .. Len(executed) :
       issued[at[k]] \notin LedCommand /\ executed[k] = Plain(issued[at[k]])

LedShows(n) ==
  onOff <=> \E i \in 1 .. n : /\ issued[i] = <<"open">>
                              /\ \A j \in 1 .. n : j > i => issued[j] # <<"close">>

AllFit(n) == \A i \in 1 .. n : ~Overruns(issued[i])

ObeyedUpTo(n) ==
  /\ \E at : Answers(at, n)
  /\ AllFit(n) => ~overrun /\ (~unset => LedShows(n))

(***************************************************************************)
(* As long as the client waited and nothing was cut, every command issued  *)
(* is obeyed, or all but the last, which then is what is unread.           *)
(***************************************************************************)
PacedInv ==
  (~pipelined /\ ~split) =>
     \E n \in Nat :
        /\ ObeyedUpTo(n)
        /\ \/ stream = << >> /\ n = Len(issued)
           \/ stream # << >> /\ n + 1 = Len(issued) /\ stream = issued[n + 1]

LEMMA IssuePaced ==
  ASSUME PacedInv, OrderInv, stream \in Seq(Words), NEW cmd \in Vocabulary, Issue(cmd)
  PROVE  PacedInv'
<1>1. SUFFICES ASSUME ~pipelined', ~split' PROVE PacedInv'
  BY DEF PacedInv
<1>2. ~pipelined /\ ~split /\ stream = << >>
  BY <1>1 DEF Issue
<1>3. PICK n \in Nat : ObeyedUpTo(n) /\ n = Len(issued)
  BY <1>2 DEF PacedInv
<1>4. cmd \in Command \cup LedCommand /\ cmd \in Seq(Words)
  BY StreamAssumption, CommandsAreWords
<1>5. /\ Len(issued') = n + 1 /\ issued'[n + 1] = cmd
      /\ \A j \in 1 .. n : issued'[j] = issued[j]
  BY <1>3, <1>4 DEF Issue, OrderInv
<1>6. stream' = cmd
  <2>1. stream' = << >> \o cmd
    BY <1>2 DEF Issue
  <2> QED BY <1>4, <2>1
<1>7. stream' # << >>
  <2>1. \A c \in Command : Len(c) \in 1 .. 3
    BY ShortCommands DEF Shaped
  <2>2. \A c \in Command : c # << >>
    BY <2>1
  <2>3. \A c \in LedCommand : c # << >>
    BY LedObeys DEF NoCommand
  <2> QED BY <1>4, <1>6, <2>2, <2>3
<1>8. executed' = executed /\ onOff' = onOff /\ unset' = unset /\ overrun' = overrun
  BY DEF Issue
<1>9. ObeyedUpTo(n)'
  <2>1. PICK at : Answers(at, n)
    BY <1>3 DEF ObeyedUpTo
  <2>2. Answers(at, n)'
    BY <1>5, <1>8, <2>1 DEF Answers
  <2>3. AllFit(n)' => ~overrun' /\ (~unset' => LedShows(n)')
    <3>1. AllFit(n) => ~overrun /\ (~unset => LedShows(n))
      BY <1>3 DEF ObeyedUpTo
    <3>2. LedShows(n)' <=> LedShows(n)
      BY <1>5, <1>8 DEF LedShows
    <3>3. AllFit(n)' <=> AllFit(n)
      BY <1>5 DEF AllFit
    <3> QED BY <1>8, <3>1, <3>2, <3>3
  <2> QED BY <2>2, <2>3 DEF ObeyedUpTo
<1> QED BY <1>5, <1>6, <1>7, <1>9 DEF PacedInv

LEMMA ReceivePaced ==
  ASSUME PacedInv, OrderInv, stream \in Seq(Words), executed \in Seq(Command),
         NEW n \in DOMAIN stream, NEW inside \in BOOLEAN, ReceiveCommand(n, inside)
  PROVE  PacedInv'
<1>1. SUFFICES ASSUME ~pipelined', ~split' PROVE PacedInv'
  BY DEF PacedInv
<1>2. ~pipelined /\ ~split /\ stream' = << >> /\ issued' = issued
  BY <1>1 DEF ReceiveCommand
<1>3. stream # << >>
  OBVIOUS
<1>4. PICK m \in Nat : ObeyedUpTo(m) /\ m + 1 = Len(issued) /\ stream = issued[m + 1]
  BY <1>2, <1>3 DEF PacedInv
<1>5. PICK cmd \in Command \cup LedCommand : cmd = issued[m + 1]
  BY <1>4 DEF OrderInv
<1>6. ~inside
  <2>1. SUFFICES ASSUME inside PROVE FALSE
    OBVIOUS
  <2>2. SubSeq(stream, n + 1, Len(stream)) \in Seq(Words)
    OBVIOUS
  <2>3. PICK u \in Seq(Words) : stream' = <<"cut">> \o u
    BY <2>1, <2>2 DEF ReceiveCommand, Unread
  <2>4. Len(<<"cut">> \o u) # 0
    BY <2>3
  <2> QED BY <1>2, <2>3, <2>4
<1>7. n = Len(stream)
  <2>1. SUFFICES ASSUME n < Len(stream) PROVE FALSE
    <3>1. DOMAIN stream = 1 .. Len(stream) /\ Len(stream) \in Nat
      OBVIOUS
    <3> QED BY <3>1
  <2>2. PICK u \in Seq(Words) : u = SubSeq(stream, n + 1, Len(stream)) /\ Len(u) # 0
    <3>1. SubSeq(stream, n + 1, Len(stream)) \in Seq(Words)
      OBVIOUS
    <3>2. PICK L \in Nat : L = Len(stream)
      OBVIOUS
    <3>3. n \in Nat /\ n + 1 <= L
      BY <2>1, <3>2
    <3>4. Len(SubSeq(stream, n + 1, L)) = L - n
      BY <3>2, <3>3
    <3>5. L - n # 0
      BY <3>3
    <3> QED BY <3>1, <3>2, <3>4, <3>5
  <2>3. stream' = << >> \o u
    BY <1>6, <2>2 DEF ReceiveCommand, Unread
  <2>4. Len(<< >> \o u) # 0
    BY <2>2
  <2> QED BY <1>2, <2>3, <2>4
<1>8. Received(n, inside) = cmd
  <2>1. Received(n, inside) = SubSeq(stream, 1, Len(stream))
    BY <1>6, <1>7 DEF Received
  <2>2. SubSeq(stream, 1, Len(stream)) = stream
    OBVIOUS
  <2> QED BY <1>4, <1>5, <2>1, <2>2
<1>9. /\ executed' = Obey(executed, Dispatch(cmd))
      /\ overrun' = (overrun \/ Overruns(cmd))
      /\ operateLed(LedDispatch(cmd))
  BY <1>8 DEF ReceiveCommand
<1>10. PICK at : Answers(at, m)
  BY <1>4 DEF ObeyedUpTo
<1>11. \A i \in 1 .. m + 1 : i \in 1 .. m \/ i = m + 1
  OBVIOUS
<1>12. PICK e \in Nat : e = Len(executed)
  OBVIOUS
<1>13. AllFit(m + 1)' => AllFit(m) /\ ~overrun' /\ (~unset => LedShows(m))
  <2>1. SUFFICES ASSUME AllFit(m + 1)' PROVE AllFit(m) /\ ~overrun' /\ (~unset => LedShows(m))
    OBVIOUS
  <2>2. AllFit(m) /\ ~Overruns(issued[m + 1])
    BY <1>2, <1>11, <2>1 DEF AllFit
  <2>3. ~overrun /\ (~unset => LedShows(m))
    BY <1>4, <2>2 DEF ObeyedUpTo
  <2> QED BY <1>5, <1>9, <2>2, <2>3
<1>14. ObeyedUpTo(m + 1)'
  <2>1. CASE cmd \in Command
    <3>1. /\ executed' = Append(executed, Plain(cmd))
          /\ ~overrun' => onOff' = onOff /\ unset' = unset
      <4>1. Dispatch(cmd) = Plain(cmd) /\ Dispatch(cmd) # NoCommand
        BY <2>1, CarObeys
      <4>2. LedDispatch(cmd) = NoCommand
        BY <2>1, CarObeys
      <4> QED BY <1>9, <4>1, <4>2 DEF Obey, operateLed
    <3>2. cmd \notin LedCommand /\ cmd # <<"open">> /\ cmd # <<"close">>
      <4>1. Dispatch(cmd) # NoCommand /\ (cmd \in LedCommand => Dispatch(cmd) = NoCommand)
        BY <2>1, CarObeys, LedObeys
      <4> QED BY <4>1, LedApart
    <3>3. /\ Len(executed') = e + 1 /\ executed'[e + 1] = Plain(cmd)
          /\ \A k \in 1 .. e : executed'[k] = executed[k]
      BY <1>12, <3>1
    <3>4. PICK at2 : at2 = [k \in 1 .. e + 1 |-> IF k <= e THEN at[k] ELSE m + 1]
      OBVIOUS
    <3>5. /\ at2[e + 1] = m + 1 /\ \A k \in 1 .. e : at2[k] = at[k]
          /\ \A k \in 1 .. e + 1 : k \in 1 .. e \/ k = e + 1
      BY <3>4
    <3>6. /\ at \in [1 .. e -> 1 .. m]
          /\ \A k, l \in 1 .. e : k < l => at[k] < at[l]
          /\ \A i \in 1 .. m : issued[i] \in LedCommand \/ \E k \in 1 .. e : at[k] = i
          /\ \A k \in 1 .. e : issued[at[k]] \notin LedCommand /\ executed[k] = Plain(issued[at[k]])
      BY <1>10, <1>12 DEF Answers
    <3>7. at2 \in [1 .. e + 1 -> 1 .. m + 1]
      BY <3>4, <3>5, <3>6
    <3>8. ASSUME NEW k \in 1 .. e + 1, NEW l \in 1 .. e + 1, k < l PROVE at2[k] < at2[l]
      <4>1. k \in 1 .. e
        BY <3>8
      <4>2. CASE l \in 1 .. e
        BY <3>5, <3>6, <3>8, <4>1, <4>2
      <4>3. CASE l = e + 1
        <5>1. at[k] \in 1 .. m
          BY <3>6, <4>1
        <5> QED BY <3>5, <4>1, <4>3, <5>1
      <4> QED BY <3>5, <4>2, <4>3
    <3>9. \A i \in 1 .. m + 1 :
            issued'[i] \in LedCommand \/ \E k \in 1 .. e + 1 : at2[k] = i
      <4>1. \A i \in 1 .. m : issued[i] \in LedCommand \/ \E k \in 1 .. e + 1 : at2[k] = i
        <5>1. \A k \in 1 .. e : k \in 1 .. e + 1
          OBVIOUS
        <5> QED BY <3>5, <3>6, <5>1
      <4>2. e + 1 \in 1 .. e + 1
        OBVIOUS
      <4> QED BY <1>2, <1>11, <3>5, <4>1, <4>2
    <3>10. \A k \in 1 .. e + 1 :
             issued'[at2[k]] \notin LedCommand /\ executed'[k] = Plain(issued'[at2[k]])
      BY <1>2, <1>5, <3>2, <3>3, <3>5, <3>6
    <3>11. Answers(at2, m + 1)'
      BY <3>3, <3>7, <3>8, <3>9, <3>10 DEF Answers
    <3>12. ASSUME AllFit(m + 1)' PROVE ~overrun' /\ (~unset' => LedShows(m + 1)')
      <4>1. ~overrun' /\ (~unset => LedShows(m))
        BY <1>13, <3>12
      <4>2. issued'[m + 1] # <<"open">> /\ issued'[m + 1] # <<"close">>
        BY <1>2, <1>5, <3>2
      <4>3. \A j \in 1 .. m : j \in 1 .. m + 1
        OBVIOUS
      <4>4. onOff' = onOff /\ unset' = unset
        BY <3>1, <4>1
      <4>5. LedShows(m + 1)' <=> LedShows(m)
        BY <1>2, <1>11, <4>2, <4>3, <4>4 DEF LedShows
      <4> QED BY <4>1, <4>4, <4>5
    <3> QED BY <3>11, <3>12 DEF ObeyedUpTo
  <2>2. CASE cmd \in LedCommand
    <3>1. Dispatch(cmd) = NoCommand /\ LedDispatch(cmd) = cmd /\ cmd # NoCommand
      BY <2>2, LedObeys
    <3>2. executed' = executed
      BY <1>9, <3>1 DEF Obey
    <3>3. Answers(at, m + 1)'
      <4>1. \A i \in 1 .. m : i \in 1 .. m + 1
        OBVIOUS
      <4> QED BY <1>2, <1>5, <1>10, <1>11, <2>2, <3>2, <4>1 DEF Answers
    <3>4. ~overrun' /\ ~unset' => (onOff' <=> cmd = <<"open">>)
      BY <1>9, <3>1 DEF operateLed
    <3>5. m + 1 \in 1 .. m + 1 /\ \A j \in 1 .. m + 1 : ~(j > m + 1)
      OBVIOUS
    <3>6. cmd = <<"open">> <=>
            \E i \in 1 .. m + 1 :
              /\ issued'[i] = <<"open">>
              /\ \A j \in 1 .. m + 1 : j > i => issued'[j] # <<"close">>
      <4>1. CASE cmd = <<"open">>
        <5>1. \E i \in 1 .. m + 1 :
                /\ issued'[i] = <<"open">>
                /\ \A j \in 1 .. m + 1 : j > i => issued'[j] # <<"close">>
          BY <1>2, <1>5, <3>5, <4>1
        <5> QED BY <4>1, <5>1
      <4>2. CASE cmd = <<"close">>
        <5>1. <<"open">> # <<"close">>
          <6>1. <<"open">>[1] # <<"close">>[1]
            OBVIOUS
          <6> QED BY <6>1
        <5>2. ASSUME NEW i \in 1 .. m + 1, issued'[i] = <<"open">>,
                     \A j \in 1 .. m + 1 : j > i => issued'[j] # <<"close">>
              PROVE  FALSE
          <6>1. i # m + 1
            BY <1>2, <1>5, <4>2, <5>1, <5>2
          <6>2. m + 1 > i
            BY <6>1
          <6> QED BY <1>2, <1>5, <3>5, <4>2, <5>2, <6>2
        <5> QED BY <4>2, <5>1, <5>2
      <4> QED BY <2>2, <4>1, <4>2, LedApart
    <3>7. ~overrun' /\ ~unset' => LedShows(m + 1)'
      BY <3>4, <3>6 DEF LedShows
    <3>8. AllFit(m + 1)' => ~overrun' /\ (~unset' => LedShows(m + 1)')
      BY <1>13, <3>7
    <3> QED BY <3>3, <3>8 DEF ObeyedUpTo
  <2> QED BY <1>5, <2>1, <2>2
<1> QED BY <1>2, <1>4, <1>14 DEF PacedInv

LEMMA AlwaysPaced == Spec => []PacedInv
<1>1. Init => PacedInv
  <2> SUFFICES ASSUME Init PROVE PacedInv
    OBVIOUS
  <2>1. stream = << >> /\ issued = << >> /\ executed = << >> /\ onOff = FALSE /\ ~overrun
    BY DEF Init
  <2>2. PICK none : none = [k \in 1 .. 0 |-> 0]
    OBVIOUS
  <2>3. Answers(none, 0)
    BY <2>1, <2>2 DEF Answers
  <2>4. LedShows(0)
    BY <2>1 DEF LedShows
  <2>5. ObeyedUpTo(0)
    BY <2>1, <2>3, <2>4 DEF ObeyedUpTo
  <2>6. 0 \in Nat /\ Len(issued) = 0
    BY <2>1
  <2> QED BY <2>1, <2>5, <2>6 DEF PacedInv
<1>2. StreamInv /\ OrderInv /\ PacedInv /\ [Next]_vars => PacedInv'
  <2>1. ASSUME StreamInv, OrderInv, PacedInv, Next PROVE PacedInv'
    BY <2>1, IssuePaced, ReceivePaced DEF Next, StreamInv
  <2>2. ASSUME PacedInv, UNCHANGED vars PROVE PacedInv'
    <3>1. /\ stream' = stream /\ issued' = issued /\ executed' = executed
          /\ onOff' = onOff /\ unset' = unset /\ overrun' = overrun
          /\ pipelined' = pipelined /\ split' = split
      BY <2>2 DEF vars
    <3>2. ASSUME NEW n \in Nat, ObeyedUpTo(n) PROVE ObeyedUpTo(n)'
      <4>1. PICK at : Answers(at, n)
        BY <3>2 DEF ObeyedUpTo
      <4>2. Answers(at, n)'
        BY <3>1, <4>1 DEF Answers
      <4>3. AllFit(n) => ~overrun /\ (~unset => LedShows(n))
        BY <3>2 DEF ObeyedUpTo
      <4>4. (LedShows(n)' <=> LedShows(n)) /\ (AllFit(n)' <=> AllFit(n))
        BY <3>1 DEF LedShows, AllFit
      <4> QED BY <3>1, <4>2, <4>3, <4>4 DEF ObeyedUpTo
    <3> QED BY <2>2, <3>1, <3>2 DEF PacedInv
  <2> QED BY <2>1, <2>2
<1> QED BY <1>1, <1>2, AlwaysStream, AlwaysOrdered, PTL DEF Spec

(***************************************************************************)
(* A client that waits until each command was read, over a network that    *)
(* cuts none of them, is obeyed by the car command for command, whatever   *)
(* commands it sends; and the LED shows its last open or close if all of   *)
(* them fit the five bytes of the LED server and no pin failed then.       *)
(***************************************************************************)
THEOREM PacedClientObeyed == Spec => []PacedClientIsObeyed
<1>1. ASSUME StreamInv, OrderInv, PacedInv PROVE PacedClientIsObeyed
  <2>1. SUFFICES ASSUME ~pipelined, ~split, stream = << >> PROVE PacedClientIsObeyed
    BY DEF PacedClientIsObeyed
  <2>2. PICK n \in Nat : ObeyedUpTo(n) /\ n = Len(issued)
    BY <1>1, <2>1 DEF PacedInv
  <2>3. DOMAIN executed = 1 .. Len(executed) /\ DOMAIN issued = 1 .. n
    BY <1>1, <2>2 DEF StreamInv, OrderInv
  <2>4. PICK at : Answers(at, n)
    BY <2>2 DEF ObeyedUpTo
  <2>5. AllFit(n) /\ ~unset => LedShows(n)
    BY <2>2 DEF ObeyedUpTo
  <2>6. at \in [DOMAIN executed -> DOMAIN issued]
    BY <2>3, <2>4 DEF Answers
  <2>7. /\ \A k, l \in DOMAIN executed : k < l => at[k] < at[l]
        /\ \A i \in DOMAIN issued :
             issued[i] \in LedCommand \/ \E k \in DOMAIN executed : at[k] = i
        /\ \A k \in DOMAIN executed :
             /\ issued[at[k]] \notin LedCommand
             /\ executed[k] = Plain(issued[at[k]])
    BY <2>3, <2>4 DEF Answers
  <2>8. ((\A i \in DOMAIN issued : ~Overruns(issued[i])) /\ ~unset) =>
          (onOff <=> \E i \in DOMAIN issued :
                        /\ issued[i] = <<"open">>
                        /\ \A j \in DOMAIN issued : j > i => issued[j] # <<"close">>)
    BY <2>3, <2>5 DEF LedShows, AllFit
  <2> QED BY <2>6, <2>7, <2>8 DEF PacedClientIsObeyed
<1> QED BY <1>1, AlwaysStream, AlwaysOrdered, AlwaysPaced, PTL
=============================================================================
