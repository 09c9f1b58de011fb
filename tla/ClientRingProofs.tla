-------------------------- MODULE ClientRingProofs --------------------------
(***************************************************************************)
(* Theorems about ClientRing, for any number of nodes, any descriptors and *)
(* any order of appends and deletions, from RingAssumption.                *)
(*                                                                         *)
(* The invariant says that there is a sequence of nodes, without           *)
(* repetition, whose neighbours are linked both ways and whose first and   *)
(* last are the head and the tail: the ring that the C code means. That    *)
(* the walk from the head then visits this sequence is an induction over   *)
(* its length; the library's induction is stated for an operator and out   *)
(* of reach, so it is done here from the least number of a set, which is   *)
(* well founded. Each operation rewrites the sequence: an append adds a    *)
(* node at its end, a deletion cuts one out.                               *)
(***************************************************************************)
EXTENDS ClientRing, TLAPS, FiniteSetTheorems, SequenceTheorems, WellFoundedInduction

\* Every set of natural numbers that is not empty has a least one.
LEMMA LeastNumber ==
  ASSUME NEW S, S \subseteq Nat, S # {}
  PROVE  \E x \in S : \A y \in S : x <= y
<1>1. PICK x \in S : \A y \in S : ~(<<y, x>> \in OpToRel(<, Nat))
  BY WFMin, NatLessThanWellFounded
<1>2. \A y \in S : x <= y
  <2> TAKE y \in S
  <2>1. ~(y < x)
    BY <1>1 DEF OpToRel
  <2> QED BY <2>1
<1> QED BY <1>2

(***************************************************************************)
(* Induction over an interval, for the set of the numbers that are good:   *)
(* the library states it for an operator, which no prover instantiates.    *)
(***************************************************************************)
LEMMA IntervalInduction ==
  ASSUME NEW a \in Nat, NEW b \in Nat, NEW Good, a \in Good,
         \A k \in a .. b : k \in Good /\ k < b => k + 1 \in Good
  PROVE  a .. b \subseteq Good
<1> DEFINE Bad == (a .. b) \ Good
<1> SUFFICES ASSUME Bad # {} PROVE FALSE
  OBVIOUS
<1>1. Bad \subseteq Nat
  OBVIOUS
<1>2. PICK k \in Bad : \A l \in Bad : k <= l
  <2> HIDE DEF Bad
  <2> QED BY <1>1, LeastNumber
<1>3. k \in a .. b /\ k # a
  BY <1>2
<1>4. k - 1 \in a .. b /\ k - 1 < b /\ (k - 1) + 1 = k
  BY <1>3
<1>5. k - 1 \in Good
  BY <1>2, <1>4
<1> QED BY <1>2, <1>4, <1>5

\* f follows nextClient n times.  There is such a function for every n, so
\* that Hop, the one for the number of nodes, has the equation it is defined
\* by.
HopTo(f, n) ==
  f = [k \in 0 .. n |-> IF k = 0 THEN clientListHead ELSE Follow(f[k - 1])]

LEMMA HopExists == ASSUME NEW n \in Nat PROVE \E f : HopTo(f, n)
<1> DEFINE Good == {m \in Nat : \E f : HopTo(f, m)}
<1>1. 0 \in Good
  <2>1. HopTo([k \in 0 .. 0 |-> clientListHead], 0)
    BY DEF HopTo
  <2> QED BY <2>1
<1>2. ASSUME NEW m \in Nat, m \in Good PROVE m + 1 \in Good
  <2>1. PICK f : HopTo(f, m)
    BY <1>2
  <2> DEFINE g == [k \in 0 .. m + 1 |-> IF k = m + 1 THEN Follow(f[m]) ELSE f[k]]
  <2>2. ASSUME NEW k \in 0 .. m + 1
        PROVE  g[k] = IF k = 0 THEN clientListHead ELSE Follow(g[k - 1])
    <3>1. CASE k = m + 1
      BY <3>1
    <3>2. CASE k # m + 1
      <4>1. k \in 0 .. m
        BY <3>2
      <4>2. f[k] = IF k = 0 THEN clientListHead ELSE Follow(f[k - 1])
        BY <2>1, <4>1 DEF HopTo
      <4>3. k # 0 => g[k - 1] = f[k - 1]
        BY <4>1
      <4> QED BY <3>2, <4>2, <4>3
    <3> QED BY <3>1, <3>2
  <2>3. HopTo(g, m + 1)
    BY <2>2 DEF HopTo
  <2> QED BY <2>3
<1> HIDE DEF Good
<1>3. 0 .. n \subseteq Good
  BY <1>1, <1>2, IntervalInduction
<1>4. n \in Good
  BY <1>3
<1> QED BY <1>4 DEF Good

LEMMA HopDomain == DOMAIN Hop = 0 .. Cardinality(Nodes)
<1>1. Cardinality(Nodes) \in Nat
  BY RingAssumption, FS_CardinalityType
<1>2. PICK f : HopTo(f, Cardinality(Nodes))
  BY <1>1, HopExists
<1>3. HopTo(Hop, Cardinality(Nodes))
  BY <1>2 DEF Hop, HopTo
<1> QED BY <1>3 DEF HopTo

LEMMA HopUnfolds ==
  \A k \in 0 .. Cardinality(Nodes) :
    Hop[k] = IF k = 0 THEN clientListHead ELSE Follow(Hop[k - 1])
<1>1. Cardinality(Nodes) \in Nat
  BY RingAssumption, FS_CardinalityType
<1>2. PICK f : HopTo(f, Cardinality(Nodes))
  BY <1>1, HopExists
<1>3. HopTo(Hop, Cardinality(Nodes))
  BY <1>2 DEF Hop, HopTo
<1> QED BY <1>3 DEF HopTo


----------------------------------------------------------------------------
(* The ring. *)

Elements(s) == {s[i] : i \in DOMAIN s}
Ids(s) == [k \in 1 .. Len(s) |-> node[s[k]].clientId]

\* The neighbours of place i of a ring of n.
After(n, i) == IF i = n THEN 1 ELSE i + 1
Before(n, i) == IF i = 1 THEN n ELSE i - 1

\* The types of the pointers and of what they point to.
TypeOK ==
  /\ clientListHead \in Nodes
  /\ clientListTail \in Nodes \cup {NULL}
  /\ node \in [Nodes -> [nextClient : Nodes \cup {NULL},
                         preClient : Nodes \cup {NULL}, clientId : Int]]
  /\ allocated \subseteq Nodes

\* The nodes s, in this order, are the ring, and nothing else is allocated.
RingOf(s) ==
  /\ s \in Seq(Nodes) /\ s # << >>
  /\ \A i, j \in 1 .. Len(s) : s[i] = s[j] => i = j
  /\ clientListHead = s[1] /\ clientListTail = s[Len(s)]
  /\ \A i \in 1 .. Len(s) : /\ node[s[i]].nextClient = s[After(Len(s), i)]
                            /\ node[s[i]].preClient = s[Before(Len(s), i)]
  /\ allocated = Elements(s)

\* The one node that initList made and deleteNode keeps.
Unused == allocated = {clientListHead} /\ node[clientListHead] = Empty

\* The inductive invariant.
Inv ==
  /\ TypeOK
  /\ clientListTail = NULL => Unused
  /\ clientListTail # NULL => \E s : RingOf(s)

\* What a walk from the head finds in the ring s.
Walked(s) ==
  /\ Len(s) <= Cardinality(Nodes)
  /\ \A k \in 1 .. Len(s) : Hop[k - 1] = s[k]
  /\ Reached = Elements(s)
  /\ Members = Ids(s)

LEMMA RingFacts ==
  ASSUME NEW s, RingOf(s)
  PROVE  /\ Len(s) \in Nat /\ Len(s) >= 1 /\ DOMAIN s = 1 .. Len(s)
         /\ \A i \in 1 .. Len(s) : /\ s[i] \in Nodes
                                   /\ After(Len(s), i) \in 1 .. Len(s)
                                   /\ Before(Len(s), i) \in 1 .. Len(s)
<1>1. Len(s) \in Nat /\ DOMAIN s = 1 .. Len(s) /\ \A i \in 1 .. Len(s) : s[i] \in Nodes
  BY DEF RingOf
<1>2. Len(s) >= 1
  BY EmptySeq DEF RingOf
<1>3. ASSUME NEW n \in Nat, n >= 1, NEW i \in 1 .. n
      PROVE  (IF i = n THEN 1 ELSE i + 1) \in 1 .. n /\ (IF i = 1 THEN n ELSE i - 1) \in 1 .. n
  OBVIOUS
<1>4. \A i \in 1 .. Len(s) : After(Len(s), i) \in 1 .. Len(s) /\ Before(Len(s), i) \in 1 .. Len(s)
  BY <1>1, <1>2, <1>3 DEF After, Before
<1> QED BY <1>1, <1>2, <1>4

\* A ring has no more nodes than there are.
LEMMA RingFits ==
  ASSUME NEW s, RingOf(s)
  PROVE  Len(s) <= Cardinality(Nodes) /\ Cardinality(Elements(s)) = Len(s)
<1>1. Len(s) \in Nat /\ DOMAIN s = 1 .. Len(s) /\ \A i \in 1 .. Len(s) : s[i] \in Nodes
  BY RingFacts
<1>2. IsFiniteSet(1 .. Len(s)) /\ Cardinality(1 .. Len(s)) = Len(s)
  BY <1>1, FS_Interval
<1>3. s \in Bijection(1 .. Len(s), Elements(s))
  BY <1>1 DEF RingOf, Elements, Bijection, Injection, Surjection, IsInjective
<1>4. IsFiniteSet(Elements(s)) /\ Cardinality(Elements(s)) = Len(s)
  BY <1>2, <1>3, FS_Bijection DEF ExistsBijection
<1>5. Elements(s) \in SUBSET Nodes
  BY <1>1 DEF Elements
<1> QED BY <1>4, <1>5, FS_Subset, RingAssumption

\* By induction on the place: the walk is at s[k] after k - 1 hops, and at
\* s[1] again after the last.
LEMMA WalkGoesRound == \A s : TypeOK /\ RingOf(s) => Walked(s)
<1> SUFFICES ASSUME NEW s, TypeOK, RingOf(s) PROVE Walked(s)
  OBVIOUS
<1> DEFINE last == Cardinality(Nodes)
<1>1. /\ Len(s) \in Nat /\ Len(s) >= 1 /\ DOMAIN s = 1 .. Len(s)
      /\ \A i \in 1 .. Len(s) : s[i] \in Nodes /\ After(Len(s), i) \in 1 .. Len(s)
  BY RingFacts
<1>2. last \in Nat /\ Len(s) <= last /\ Cardinality(Elements(s)) = Len(s)
  BY RingFits, RingAssumption, FS_CardinalityType
<1>3. \A i \in 1 .. Len(s) : Follow(s[i]) = s[After(Len(s), i)]
  BY <1>1, RingAssumption DEF Follow, RingOf
<1>4. Hop[0] = s[1] /\ \A k \in 1 .. last : Hop[k] = Follow(Hop[k - 1])
  BY <1>2, HopUnfolds DEF RingOf
<1> HIDE DEF last
<1>5. \A k \in 1 .. Len(s) : Hop[k - 1] = s[k]
  <2> DEFINE Good == {k \in Nat : Hop[k - 1] = s[k]}
  <2>1. 1 \in Good
    BY <1>4
  <2>2. ASSUME NEW k \in 1 .. Len(s), k \in Good, k < Len(s) PROVE k + 1 \in Good
    <3>1. k \in 1 .. last /\ (k + 1) - 1 = k /\ k + 1 \in Nat
      BY <1>1, <1>2, <2>2
    <3>2. Hop[k] = Follow(s[k])
      BY <1>4, <2>2, <3>1
    <3>3. After(Len(s), k) = k + 1
      BY <1>1, <2>2 DEF After
    <3> QED BY <1>3, <3>1, <3>2, <3>3
  <2> HIDE DEF Good
  <2>3. 1 .. Len(s) \subseteq Good
    BY <1>1, <2>1, <2>2, IntervalInduction
  <2> QED BY <2>3 DEF Good
<1>6. \A k \in 0 .. last : Hop[k] \in Elements(s)
  <2> DEFINE Good == {k \in Nat : Hop[k] \in Elements(s)}
  <2>1. 0 \in Good
    BY <1>1, <1>4 DEF Elements
  <2>2. ASSUME NEW k \in 0 .. last, k \in Good, k < last PROVE k + 1 \in Good
    <3>1. k + 1 \in 1 .. last /\ (k + 1) - 1 = k /\ k + 1 \in Nat
      BY <1>2, <2>2
    <3>2. PICK i \in 1 .. Len(s) : Hop[k] = s[i]
      BY <1>1, <2>2 DEF Elements
    <3>3. Hop[k + 1] = s[After(Len(s), i)]
      BY <1>3, <1>4, <3>1, <3>2
    <3> QED BY <1>1, <3>1, <3>3 DEF Elements
  <2> HIDE DEF Good
  <2>3. 0 .. last \subseteq Good
    BY <1>2, <2>1, <2>2, IntervalInduction
  <2> QED BY <2>3 DEF Good
<1>7. DOMAIN Hop = 0 .. last
  BY HopDomain DEF last
<1>8. Reached = Elements(s)
  <2>1. Reached \subseteq Elements(s)
    BY <1>6, <1>7 DEF Reached
  <2>2. ASSUME NEW i \in 1 .. Len(s) PROVE s[i] \in Reached
    <3>1. i - 1 \in 0 .. last /\ Hop[i - 1] = s[i]
      BY <1>1, <1>2, <1>5
    <3> QED BY <1>1, <1>7, <3>1, RingAssumption DEF Reached
  <2> QED BY <1>1, <2>1, <2>2 DEF Elements
<1>9. Members = Ids(s)
  <2>1. clientListTail # NULL
    BY <1>1, RingAssumption DEF RingOf
  <2>2. Members = [k \in 1 .. Len(s) |-> node[Hop[k - 1]].clientId]
    BY <1>2, <1>8, <2>1 DEF Members
  <2> QED BY <1>5, <2>2 DEF Ids
<1> QED BY <1>2, <1>5, <1>8, <1>9 DEF Walked, last

LEMMA WalkGoesRoundNext == (\A s : TypeOK /\ RingOf(s) => Walked(s))'
BY WalkGoesRound, PTL

\* Without a tail the walk stops at the head, and the list is empty.
LEMMA EmptyWalk ==
  TypeOK /\ clientListTail = NULL /\ Unused => Reached = {clientListHead} /\ Members = << >>
<1> SUFFICES ASSUME TypeOK, clientListTail = NULL, Unused
             PROVE  Reached = {clientListHead} /\ Members = << >>
  OBVIOUS
<1> DEFINE last == Cardinality(Nodes)
<1>1. last \in Nat /\ DOMAIN Hop = 0 .. last
  BY RingAssumption, FS_CardinalityType, HopDomain
<1>2. Hop[0] = clientListHead /\ \A k \in 1 .. last : Hop[k] = Follow(Hop[k - 1])
  BY <1>1, HopUnfolds
<1>3. Follow(clientListHead) = NULL /\ Follow(NULL) = NULL
  BY RingAssumption DEF Follow, Unused, Empty, TypeOK
<1> HIDE DEF last
<1>4. \A k \in 0 .. last : Hop[k] \in {clientListHead, NULL}
  <2> DEFINE Good == {k \in Nat : Hop[k] \in {clientListHead, NULL}}
  <2>1. 0 \in Good
    BY <1>2
  <2>2. ASSUME NEW k \in 0 .. last, k \in Good, k < last PROVE k + 1 \in Good
    <3>1. k + 1 \in 1 .. last /\ (k + 1) - 1 = k /\ k + 1 \in Nat
      BY <1>1, <2>2
    <3> QED BY <1>2, <1>3, <2>2, <3>1
  <2> HIDE DEF Good
  <2>3. 0 .. last \subseteq Good
    BY <1>1, <2>1, <2>2, IntervalInduction
  <2> QED BY <2>3 DEF Good
<1>5. clientListHead # NULL /\ 0 \in 0 .. last
  BY <1>1, RingAssumption DEF TypeOK
<1>6. Reached = {clientListHead}
  BY <1>1, <1>2, <1>4, <1>5 DEF Reached
<1> QED BY <1>6 DEF Members

----------------------------------------------------------------------------
LEMMA ListStaysInt ==
  ASSUME NEW s, TypeOK, RingOf(s)
  PROVE  Ids(s) \in Seq(Int) /\ Len(Ids(s)) = Len(s) /\ DOMAIN Ids(s) = 1 .. Len(s)
<1>1. Len(s) \in Nat /\ \A i \in 1 .. Len(s) : s[i] \in Nodes
  BY RingFacts
<1>2. \A p \in Nodes : node[p].clientId \in Int
  BY DEF TypeOK
<1>3. Ids(s) \in [1 .. Len(s) -> Int]
  BY <1>1, <1>2 DEF Ids
<1> QED BY <1>1, <1>3

----------------------------------------------------------------------------
(* appendList. *)

LEMMA AppendFirstStep ==
  ASSUME Inv, NEW d \in Int, AppendFirst(d), UNCHANGED ret
  PROVE  Inv' /\ Members' = Append(Members, d)
<1>1. TypeOK
  BY DEF Inv
<1>2. clientListTail = NULL
  <2>1. ASSUME NEW s, RingOf(s) PROVE FALSE
    <3>1. /\ 1 \in 1 .. Len(s) /\ s[After(Len(s), 1)] \in Nodes
          /\ node[clientListHead].nextClient = s[After(Len(s), 1)]
      BY <2>1, RingFacts DEF RingOf
    <3> QED BY <3>1, RingAssumption DEF AppendFirst
  <2> QED BY <2>1 DEF Inv
<1>3. Members = << >> /\ Unused
  BY <1>1, <1>2, EmptyWalk DEF Inv
<1>0. PICK t : t = <<clientListHead>>
  OBVIOUS
<1>4. TypeOK'
  BY <1>1 DEF TypeOK, AppendFirst
<1>5. RingOf(t)'
  <2>1. t \in Seq(Nodes) /\ Len(t) = 1 /\ t[1] = clientListHead /\ t # << >>
    BY <1>0, <1>1 DEF TypeOK
  <2>2. After(1, 1) = 1 /\ Before(1, 1) = 1
    BY DEF After, Before
  <2>3. /\ node'[clientListHead].nextClient = clientListHead
        /\ node'[clientListHead].preClient = clientListHead
    BY <1>1 DEF TypeOK, AppendFirst
  <2>4. Elements(t) = {clientListHead}
    BY <2>1 DEF Elements
  <2>5. /\ clientListHead' = clientListHead /\ clientListTail' = clientListHead
        /\ allocated' = {clientListHead}
    BY <1>3 DEF AppendFirst, Unused
  <2>6. \A i \in 1 .. Len(t) : i = 1
    BY <2>1
  <2>7. allocated' = Elements(t)
    BY <2>4, <2>5
  <2>8. \A i \in 1 .. Len(t) : /\ node'[t[i]].nextClient = t[After(Len(t), i)]
                              /\ node'[t[i]].preClient = t[Before(Len(t), i)]
    BY <2>1, <2>2, <2>3, <2>6
  <2>9. clientListHead' = t[1] /\ clientListTail' = t[Len(t)]
    BY <2>1, <2>5
  <2>10. \A i, j \in 1 .. Len(t) : t[i] = t[j] => i = j
    BY <2>6
  <2> HIDE DEF Elements
  <2> QED BY <2>1, <2>7, <2>8, <2>9, <2>10 DEF RingOf
<1>6. Members' = Ids(t)'
  BY <1>4, <1>5, WalkGoesRoundNext DEF Walked
<1>7. Ids(t)' = <<d>>
  BY <1>0, <1>1 DEF Ids, TypeOK, AppendFirst
<1>8. clientListTail' # NULL
  BY <1>1, RingAssumption DEF TypeOK, AppendFirst
<1> QED BY <1>3, <1>4, <1>5, <1>6, <1>7, <1>8 DEF Inv

LEMMA LongerInterval ==
  ASSUME NEW n \in Nat PROVE 1 .. n + 1 = (1 .. n) \cup {n + 1}
OBVIOUS

LEMMA AppendNewStep ==
  ASSUME Inv, NEW d \in Int, AppendNew(d), UNCHANGED ret
  PROVE  Inv' /\ Members' = Append(Members, d)
<1>1. TypeOK
  BY DEF Inv
<1>2. PICK s : RingOf(s)
  BY <1>1 DEF Inv, AppendNew, Unused, Empty
<1>3. PICK p \in Nodes \ allocated :
        /\ node' = Appended(p, d) /\ allocated' = allocated \cup {p} /\ clientListTail' = p
  BY DEF AppendNew
<1>4. clientListHead' = clientListHead
  BY DEF AppendNew
<1>5. PICK n : n = Len(s)
  OBVIOUS
<1>6. /\ n \in Nat /\ n >= 1 /\ DOMAIN s = 1 .. n
      /\ \A i \in 1 .. n : s[i] \in Nodes /\ After(n, i) \in 1 .. n /\ Before(n, i) \in 1 .. n
  BY <1>2, <1>5, RingFacts
<1> DEFINE Unmixed == \A i, j \in 1 .. n : s[i] = s[j] => i = j
<1>a. /\ Unmixed
      /\ clientListHead = s[1] /\ clientListTail = s[n]
      /\ \A i \in 1 .. n : /\ node[s[i]].nextClient = s[After(n, i)]
                          /\ node[s[i]].preClient = s[Before(n, i)]
      /\ allocated = {s[i] : i \in 1 .. n}
  BY <1>2, <1>5, <1>6 DEF RingOf, Elements
<1> HIDE DEF Unmixed
<1>7. \A i \in 1 .. n : s[i] # p
  BY <1>3, <1>a
<1>8. PICK t : t = Append(s, p)
  OBVIOUS
<1>9. /\ t \in Seq(Nodes) /\ t # << >> /\ Len(t) = n + 1
      /\ t[n + 1] = p /\ \A i \in 1 .. n : t[i] = s[i]
  <2>1. s \in Seq(Nodes) /\ p \in Nodes
    BY <1>2, <1>3 DEF RingOf
  <2> QED BY <1>5, <1>8, <2>1, AppendProperties
<1>10. \A q \in Nodes :
         /\ node'[q].nextClient = IF q = p THEN s[1]
                                  ELSE IF q = s[n] THEN p ELSE node[q].nextClient
         /\ node'[q].preClient = IF q = s[1] THEN p
                                 ELSE IF q = p THEN s[n] ELSE node[q].preClient
         /\ node'[q].clientId = IF q = p THEN d ELSE node[q].clientId
  <2>1. clientListHead = s[1] /\ clientListTail = s[n]
    BY <1>a
  <2>2. s[1] # p /\ s[n] # p /\ s[1] \in Nodes /\ s[n] \in Nodes
    BY <1>6, <1>7
  <2> QED BY <1>1, <1>3, <2>1, <2>2 DEF TypeOK, Appended
<1>11. TypeOK'
  BY <1>1, <1>3, <1>4 DEF TypeOK, Appended
<1>12. RingOf(t)'
  <2>1. \A i, j \in 1 .. n + 1 : t[i] = t[j] => i = j
    <3>1. \A i \in 1 .. n + 1 : i = n + 1 \/ i \in 1 .. n
      BY <1>6
    <3> QED BY <3>1, <1>7, <1>9, <1>a DEF Unmixed
  <2>2. clientListHead' = t[1] /\ clientListTail' = t[n + 1]
    BY <1>3, <1>4, <1>6, <1>9, <1>a
  <2>3. allocated' = Elements(t)
    <3>1. DOMAIN t = (1 .. n) \cup {n + 1}
      <4>1. DOMAIN t = 1 .. n + 1
        BY <1>9
      <4>2. 1 .. n + 1 = (1 .. n) \cup {n + 1}
        BY <1>6, LongerInterval
      <4> QED BY <4>1, <4>2
    <3> QED BY <1>3, <1>9, <1>a, <3>1 DEF Elements
  <2>4. ASSUME NEW i \in 1 .. n + 1
        PROVE  /\ node'[t[i]].nextClient = t[After(n + 1, i)]
               /\ node'[t[i]].preClient = t[Before(n + 1, i)]
    <3>1. CASE i = n + 1
      <4>1. After(n + 1, i) = 1 /\ Before(n + 1, i) = n
        BY <1>6, <3>1 DEF After, Before
      <4>2. t[i] = p /\ p \in Nodes /\ p # s[1] /\ t[1] = s[1] /\ t[n] = s[n]
        BY <1>3, <1>6, <1>7, <1>9, <3>1
      <4> QED BY <1>10, <4>1, <4>2
    <3>2. CASE i # n + 1
      <4>0. i \in 1 .. n /\ 1 \in 1 .. n /\ n \in 1 .. n
        BY <1>6, <3>2
      <4>1. i \in 1 .. n /\ t[i] = s[i] /\ s[i] \in Nodes /\ s[i] # p
        BY <1>6, <1>7, <1>9, <4>0
      <4>2. s[i] = s[n] <=> i = n
        BY <1>a, <4>0 DEF Unmixed
      <4>3. s[i] = s[1] <=> i = 1
        BY <1>a, <4>0 DEF Unmixed
      <4>4. node[s[i]].nextClient = s[After(n, i)] /\ node[s[i]].preClient = s[Before(n, i)]
        BY <1>a, <4>0
      <4>5. node'[t[i]].nextClient = t[After(n + 1, i)]
        <5>1. CASE i = n
          BY <1>6, <1>9, <1>10, <4>1, <5>1 DEF After
        <5>2. CASE i # n
          <6>1. After(n, i) = i + 1 /\ After(n + 1, i) = i + 1 /\ i + 1 \in 1 .. n
            BY <1>6, <4>1, <5>2 DEF After
          <6> QED BY <1>9, <1>10, <4>1, <4>2, <4>4, <5>2, <6>1
        <5> QED BY <5>1, <5>2
      <4>6. node'[t[i]].preClient = t[Before(n + 1, i)]
        <5>1. CASE i = 1
          BY <1>6, <1>9, <1>10, <4>1, <5>1 DEF Before
        <5>2. CASE i # 1
          <6>1. Before(n, i) = i - 1 /\ Before(n + 1, i) = i - 1 /\ i - 1 \in 1 .. n
            BY <1>6, <4>1, <5>2 DEF Before
          <6> QED BY <1>9, <1>10, <4>1, <4>3, <4>4, <5>2, <6>1
        <5> QED BY <5>1, <5>2
      <4> QED BY <4>5, <4>6
    <3> QED BY <3>1, <3>2
  <2> QED BY <1>9, <2>1, <2>2, <2>3, <2>4 DEF RingOf, Elements
<1>13. Members = Ids(s) /\ Members' = Ids(t)'
  BY <1>1, <1>2, <1>11, <1>12, WalkGoesRound, WalkGoesRoundNext DEF Walked
<1>14. Ids(t)' = Append(Ids(s), d)
  <2>1. Ids(s) \in Seq(Int) /\ Len(Ids(s)) = n /\ DOMAIN Ids(s) = 1 .. n
    BY <1>1, <1>2, <1>5, ListStaysInt
  <2>2. Ids(t)' = [k \in 1 .. n + 1 |-> node'[t[k]].clientId]
    BY <1>9 DEF Ids
  <2>3. ASSUME NEW k \in 1 .. n + 1 PROVE node'[t[k]].clientId = Append(Ids(s), d)[k]
    <3>1. CASE k = n + 1
      BY <1>3, <1>9, <1>10, <2>1, <3>1
    <3>2. CASE k # n + 1
      <4>1. k \in 1 .. n
        BY <1>6, <3>2
      <4>2. Ids(s)[k] = node[s[k]].clientId
        BY <1>5, <4>1 DEF Ids
      <4>3. node'[t[k]].clientId = node[s[k]].clientId
        BY <1>6, <1>7, <1>9, <1>10, <4>1
      <4>4. Append(Ids(s), d)[k] = Ids(s)[k]
        BY <2>1, <4>1
      <4> QED BY <4>2, <4>3, <4>4
    <3> QED BY <3>1, <3>2
  <2>4. /\ Append(Ids(s), d) \in Seq(Int) /\ Len(Append(Ids(s), d)) = n + 1
    BY <2>1
  <2>5. DOMAIN Append(Ids(s), d) = 1 .. n + 1
    BY <2>4
  <2> HIDE DEF Ids
  <2>6. PICK m : m = Append(Ids(s), d)
    OBVIOUS
  <2>7. m \in Seq(Int) /\ DOMAIN m = 1 .. n + 1 /\ \A k \in 1 .. n + 1 : m[k] = node'[t[k]].clientId
    BY <2>3, <2>4, <2>5, <2>6
  <2>8. m = [k \in 1 .. n + 1 |-> m[k]]
    BY <2>7
  <2> QED BY <2>2, <2>6, <2>7, <2>8
<1>15. clientListTail' # NULL
  BY <1>3, RingAssumption
<1> QED BY <1>11, <1>12, <1>13, <1>14, <1>15 DEF Inv

LEMMA AppendStep ==
  ASSUME Inv, NEW d \in Int, appendList(d)
  PROVE  Inv' /\ Members' = Append(Members, d)
BY AppendFirstStep, AppendNewStep DEF appendList

----------------------------------------------------------------------------
(* deleteNode. *)

\* Where entry j of a sequence without its entry k was.
Skip(k, j) == IF j < k THEN j ELSE j + 1

\* The neighbours of what is left are those it had, but those of the entry
\* that is gone are now each other's.
LEMMA SkipLinks ==
  ASSUME NEW n \in Nat, n >= 2, NEW k \in 1 .. n, NEW j \in 1 .. n - 1
  PROVE  /\ Skip(k, j) \in 1 .. n /\ Skip(k, j) # k
         /\ After(n - 1, j) \in 1 .. n - 1 /\ Before(n - 1, j) \in 1 .. n - 1
         /\ Skip(k, After(n - 1, j)) =
              IF Skip(k, j) = Before(n, k) THEN After(n, k) ELSE After(n, Skip(k, j))
         /\ Skip(k, Before(n - 1, j)) =
              IF Skip(k, j) = After(n, k) THEN Before(n, k) ELSE Before(n, Skip(k, j))
<1>1. Skip(k, j) \in 1 .. n /\ Skip(k, j) # k
  BY DEF Skip
<1>2. After(n - 1, j) \in 1 .. n - 1 /\ Before(n - 1, j) \in 1 .. n - 1
  BY DEF After, Before
<1>3. Skip(k, After(n - 1, j)) =
        IF Skip(k, j) = Before(n, k) THEN After(n, k) ELSE After(n, Skip(k, j))
  BY DEF Skip, After, Before
<1>4. Skip(k, Before(n - 1, j)) =
        IF Skip(k, j) = After(n, k) THEN Before(n, k) ELSE Before(n, Skip(k, j))
  BY DEF Skip, After, Before
<1> QED BY <1>1, <1>2, <1>3, <1>4

\* Skip finds every place but k, each once.
LEMMA SkipCovers ==
  ASSUME NEW n \in Nat, NEW k \in 1 .. n, NEW i \in 1 .. n, i # k
  PROVE  \E j \in 1 .. n - 1 : Skip(k, j) = i
<1>1. CASE i < k
  BY <1>1 DEF Skip
<1>2. CASE i > k
  <2>1. i - 1 \in 1 .. n - 1 /\ Skip(k, i - 1) = i
    BY <1>2 DEF Skip
  <2> QED BY <2>1
<1> QED BY <1>1, <1>2

LEMMA SkipInjective ==
  ASSUME NEW k \in Nat, NEW i \in Nat, NEW j \in Nat, Skip(k, i) = Skip(k, j)
  PROVE  i = j
BY DEF Skip

LEMMA RemoveAtSkips ==
  ASSUME NEW S, NEW m \in Seq(S), NEW k \in 1 .. Len(m)
  PROVE  /\ RemoveAt(m, k) \in Seq(S) /\ Len(RemoveAt(m, k)) = Len(m) - 1
         /\ \A j \in 1 .. Len(m) - 1 : RemoveAt(m, k)[j] = m[Skip(k, j)]
<1>1. Len(m) \in Nat /\ k \in Nat /\ k >= 1 /\ k <= Len(m)
  OBVIOUS
<1>2. PICK n : n = Len(m)
  OBVIOUS
<1>3. PICK a : a = SubSeq(m, 1, k - 1)
  OBVIOUS
<1>4. PICK b : b = SubSeq(m, k + 1, n)
  OBVIOUS
<1>5. a \in Seq(S) /\ Len(a) = k - 1 /\ \A i \in 1 .. k - 1 : a[i] = m[i]
  <2>1. \A i \in 1 .. k - 1 : m[i] \in S
    BY <1>1
  <2>2. /\ SubSeq(m, 1, k - 1) \in Seq(S)
        /\ Len(SubSeq(m, 1, k - 1)) = IF 1 <= k - 1 THEN (k - 1) - 1 + 1 ELSE 0
        /\ \A i \in 1 .. (k - 1) - 1 + 1 : SubSeq(m, 1, k - 1)[i] = m[1 + i - 1]
    BY <1>1, <2>1, SubSeqProperties
  <2> QED BY <1>1, <1>3, <2>2
<1>6. b \in Seq(S) /\ Len(b) = n - k /\ \A i \in 1 .. n - k : b[i] = m[k + i]
  <2>1. \A i \in k + 1 .. n : m[i] \in S
    BY <1>1, <1>2
  <2>2. /\ SubSeq(m, k + 1, n) \in Seq(S)
        /\ Len(SubSeq(m, k + 1, n)) = IF k + 1 <= n THEN n - (k + 1) + 1 ELSE 0
        /\ \A i \in 1 .. n - (k + 1) + 1 : SubSeq(m, k + 1, n)[i] = m[(k + 1) + i - 1]
    BY <1>1, <1>2, <2>1, SubSeqProperties
  <2>3. n - (k + 1) + 1 = n - k /\ \A i \in 1 .. n - k : (k + 1) + i - 1 = k + i
    BY <1>1, <1>2
  <2> QED BY <1>1, <1>2, <1>4, <2>2, <2>3
<1>7. RemoveAt(m, k) = a \o b
  BY <1>2, <1>3, <1>4 DEF RemoveAt
<1>8. a \o b \in Seq(S) /\ Len(a \o b) = n - 1
  BY <1>1, <1>2, <1>5, <1>6, ConcatProperties
<1>9. ASSUME NEW j \in 1 .. n - 1 PROVE (a \o b)[j] = m[Skip(k, j)]
  <2>1. (a \o b)[j] = IF j <= k - 1 THEN a[j] ELSE b[j - (k - 1)]
    BY <1>1, <1>2, <1>5, <1>6, ConcatProperties
  <2>2. CASE j < k
    BY <1>1, <1>5, <2>1, <2>2 DEF Skip
  <2>3. CASE ~(j < k)
    <3>1. j - (k - 1) \in 1 .. n - k /\ k + (j - (k - 1)) = j + 1 /\ ~(j <= k - 1)
      BY <1>1, <1>2, <2>3
    <3> QED BY <1>6, <2>1, <2>3, <3>1 DEF Skip
  <2> QED BY <2>2, <2>3
<1> QED BY <1>2, <1>7, <1>8, <1>9

\* What the four cases of deleteNode have in common: node k of the ring is
\* cut out, and its neighbours are linked.
Cut(s, k) ==
  /\ clientListHead' = s[Skip(k, 1)] /\ clientListTail' = s[Skip(k, Len(s) - 1)]
  /\ allocated' = allocated \ {s[k]}
  /\ \A q \in Nodes : q # s[k] =>
       /\ node'[q].nextClient = IF q = s[Before(Len(s), k)] THEN s[After(Len(s), k)]
                                                            ELSE node[q].nextClient
       /\ node'[q].preClient = IF q = s[After(Len(s), k)] THEN s[Before(Len(s), k)]
                                                          ELSE node[q].preClient
       /\ node'[q].clientId = node[q].clientId

\* What is left is the ring without node k, and the list lost entry k.
LEMMA CutLeavesRing ==
  ASSUME TypeOK, NEW s, RingOf(s), Len(s) >= 2, NEW k \in 1 .. Len(s), Cut(s, k), TypeOK'
  PROVE  RingOf(RemoveAt(s, k))' /\ Members' = RemoveAt(Members, k)
<1>1. PICK n : n = Len(s)
  OBVIOUS
<1>2. /\ n \in Nat /\ n >= 2 /\ k \in 1 .. n /\ DOMAIN s = 1 .. n
      /\ \A i \in 1 .. n : s[i] \in Nodes /\ After(n, i) \in 1 .. n /\ Before(n, i) \in 1 .. n
  BY <1>1, RingFacts
<1> DEFINE Unmixed == \A i, j \in 1 .. n : s[i] = s[j] => i = j
<1>3. /\ Unmixed
      /\ \A i \in 1 .. n : /\ node[s[i]].nextClient = s[After(n, i)]
                          /\ node[s[i]].preClient = s[Before(n, i)]
      /\ allocated = {s[i] : i \in 1 .. n}
  BY <1>1, <1>2 DEF RingOf, Elements
<1> HIDE DEF Unmixed
<1>4. PICK t : t = RemoveAt(s, k)
  OBVIOUS
<1>5. t \in Seq(Nodes) /\ Len(t) = n - 1 /\ \A j \in 1 .. n - 1 : t[j] = s[Skip(k, j)]
  <2>1. s \in Seq(Nodes)
    BY DEF RingOf
  <2> QED BY <1>1, <1>4, <2>1, RemoveAtSkips
<1>6. \A j \in 1 .. n - 1 :
        /\ Skip(k, j) \in 1 .. n /\ Skip(k, j) # k
        /\ After(n - 1, j) \in 1 .. n - 1 /\ Before(n - 1, j) \in 1 .. n - 1
        /\ Skip(k, After(n - 1, j)) =
             IF Skip(k, j) = Before(n, k) THEN After(n, k) ELSE After(n, Skip(k, j))
        /\ Skip(k, Before(n - 1, j)) =
             IF Skip(k, j) = After(n, k) THEN Before(n, k) ELSE Before(n, Skip(k, j))
  BY <1>2, SkipLinks
<1>7. ASSUME NEW j \in 1 .. n - 1
      PROVE  /\ node'[t[j]].nextClient = t[After(n - 1, j)]
             /\ node'[t[j]].preClient = t[Before(n - 1, j)]
             /\ node'[t[j]].clientId = node[s[Skip(k, j)]].clientId
  <2> DEFINE q == t[j]
  <2>1. q = s[Skip(k, j)] /\ Skip(k, j) \in 1 .. n /\ q \in Nodes /\ q # s[k]
    BY <1>2, <1>3, <1>5, <1>6 DEF Unmixed
  <2>2. After(n, k) \in 1 .. n /\ Before(n, k) \in 1 .. n
    BY <1>2
  <2>3. /\ q = s[Before(n, k)] <=> Skip(k, j) = Before(n, k)
        /\ q = s[After(n, k)] <=> Skip(k, j) = After(n, k)
    BY <1>3, <2>1, <2>2 DEF Unmixed
  <2>4. /\ node[q].nextClient = s[After(n, Skip(k, j))]
        /\ node[q].preClient = s[Before(n, Skip(k, j))]
    BY <1>3, <2>1
  <2>5. /\ t[After(n - 1, j)] = s[Skip(k, After(n - 1, j))]
        /\ t[Before(n - 1, j)] = s[Skip(k, Before(n - 1, j))]
    BY <1>5, <1>6
  <2> HIDE DEF q
  <2>6. /\ node'[q].nextClient = IF q = s[Before(n, k)] THEN s[After(n, k)]
                                                        ELSE node[q].nextClient
        /\ node'[q].preClient = IF q = s[After(n, k)] THEN s[Before(n, k)]
                                                      ELSE node[q].preClient
        /\ node'[q].clientId = node[q].clientId
    BY <1>1, <2>1 DEF Cut
  <2>7. node'[q].nextClient = t[After(n - 1, j)]
    BY <1>6, <2>3, <2>4, <2>5, <2>6
  <2>8. node'[q].preClient = t[Before(n - 1, j)]
    BY <1>6, <2>3, <2>4, <2>5, <2>6
  <2> QED BY <2>1, <2>6, <2>7, <2>8 DEF q
<1>8. RingOf(t)'
  <2>1. t # << >> /\ DOMAIN t = 1 .. n - 1
    BY <1>2, <1>5
  <2>2. \A i, j \in 1 .. n - 1 : t[i] = t[j] => i = j
    <3> TAKE i, j \in 1 .. n - 1
    <3> HAVE t[i] = t[j]
    <3>1. /\ Skip(k, i) \in 1 .. n /\ Skip(k, j) \in 1 .. n
          /\ s[Skip(k, i)] = s[Skip(k, j)]
      BY <1>5, <1>6
    <3>2. Skip(k, i) = Skip(k, j)
      BY <1>3, <3>1 DEF Unmixed
    <3> QED BY <1>2, <3>2, SkipInjective
  <2>3. clientListHead' = t[1] /\ clientListTail' = t[n - 1]
    <3>1. 1 \in 1 .. n - 1 /\ n - 1 \in 1 .. n - 1
      BY <1>2
    <3> QED BY <1>1, <1>5, <3>1 DEF Cut
  <2>4. allocated' = Elements(t)
    <3>1. ASSUME NEW i \in 1 .. n, i # k PROVE s[i] \in Elements(t)
      <4>1. PICK j \in 1 .. n - 1 : Skip(k, j) = i
        BY <1>2, <3>1, SkipCovers
      <4> QED BY <1>5, <2>1, <4>1 DEF Elements
    <3>2. ASSUME NEW j \in 1 .. n - 1 PROVE t[j] \in allocated \ {s[k]}
      <4>1. t[j] = s[Skip(k, j)] /\ Skip(k, j) \in 1 .. n /\ Skip(k, j) # k
        BY <1>5, <1>6
      <4>2. s[Skip(k, j)] # s[k]
        BY <1>2, <1>3, <4>1 DEF Unmixed
      <4> QED BY <1>3, <4>1, <4>2
    <3>3. allocated' = allocated \ {s[k]}
      BY DEF Cut
    <3>4. allocated' \subseteq Elements(t)
      BY <1>3, <3>1, <3>3
    <3>5. Elements(t) \subseteq allocated'
      BY <2>1, <3>2, <3>3 DEF Elements
    <3> QED BY <3>4, <3>5
  <2>5. \A j \in 1 .. n - 1 : /\ node'[t[j]].nextClient = t[After(n - 1, j)]
                             /\ node'[t[j]].preClient = t[Before(n - 1, j)]
    BY <1>7
  <2> QED BY <1>5, <2>1, <2>2, <2>3, <2>4, <2>5 DEF RingOf, Elements
<1>9. Members = Ids(s) /\ Members' = Ids(t)'
  BY <1>8, WalkGoesRound, WalkGoesRoundNext DEF Walked
<1>10. Ids(t)' = RemoveAt(Ids(s), k)
  <2>1. Ids(s) \in Seq(Int) /\ Len(Ids(s)) = n
    BY <1>1, ListStaysInt
  <2>2. PICK m : m = RemoveAt(Ids(s), k)
    OBVIOUS
  <2>3. m \in Seq(Int) /\ Len(m) = n - 1 /\ \A j \in 1 .. n - 1 : m[j] = Ids(s)[Skip(k, j)]
    <3>1. k \in 1 .. Len(Ids(s))
      BY <1>2, <2>1
    <3> HIDE DEF Ids
    <3>2. /\ RemoveAt(Ids(s), k) \in Seq(Int) /\ Len(RemoveAt(Ids(s), k)) = Len(Ids(s)) - 1
          /\ \A j \in 1 .. Len(Ids(s)) - 1 : RemoveAt(Ids(s), k)[j] = Ids(s)[Skip(k, j)]
      BY <2>1, <3>1, RemoveAtSkips
    <3> QED BY <2>1, <2>2, <3>2
  <2>4. ASSUME NEW j \in 1 .. n - 1 PROVE m[j] = node'[t[j]].clientId
    <3>1. Skip(k, j) \in 1 .. n /\ t[j] = s[Skip(k, j)]
      BY <1>5, <1>6
    <3>2. m[j] = node[s[Skip(k, j)]].clientId
      BY <1>1, <2>3, <3>1 DEF Ids
    <3>3. node'[t[j]].clientId = node[s[Skip(k, j)]].clientId
      BY <1>7
    <3> QED BY <3>1, <3>2, <3>3
  <2>5. m = [j \in 1 .. n - 1 |-> m[j]]
    BY <2>3
  <2>6. Ids(t)' = [j \in 1 .. n - 1 |-> node'[t[j]].clientId]
    BY <1>5 DEF Ids
  <2> QED BY <2>2, <2>4, <2>5, <2>6
<1> QED BY <1>4, <1>8, <1>9, <1>10

\* Two nodes linked to each other, as the code writes it.
LEMMA Relinked ==
  ASSUME NEW linked \in [Nodes -> [nextClient : Nodes \cup {NULL},
                                  preClient : Nodes \cup {NULL}, clientId : Int]],
         NEW p \in Nodes, NEW q \in Nodes, NEW relinked,
         relinked = [linked EXCEPT ![p].nextClient = q, ![q].preClient = p]
  PROVE  /\ relinked \in [Nodes -> [nextClient : Nodes \cup {NULL},
                                    preClient : Nodes \cup {NULL}, clientId : Int]]
         /\ \A r \in Nodes :
              /\ relinked[r].nextClient = IF r = p THEN q ELSE linked[r].nextClient
              /\ relinked[r].preClient = IF r = q THEN p ELSE linked[r].preClient
              /\ relinked[r].clientId = linked[r].clientId
OBVIOUS

\* Each case of deleteNode is such a cut, or empties the ring.
LEMMA DeleteFoundStep ==
  ASSUME Inv, NEW s, RingOf(s), NEW k \in 1 .. Len(s),
         \/ DeleteOnly(s[k]) \/ DeleteHead(s[k]) \/ DeleteTail(s[k]) \/ DeleteAmong(s[k])
  PROVE  Inv' /\ Members' = RemoveAt(Members, k)
<1>1. TypeOK
  BY DEF Inv
<1>2. PICK n : n = Len(s)
  OBVIOUS
<1>3. /\ n \in Nat /\ n >= 1 /\ k \in 1 .. n /\ DOMAIN s = 1 .. n
      /\ \A i \in 1 .. n : s[i] \in Nodes /\ After(n, i) \in 1 .. n /\ Before(n, i) \in 1 .. n
  BY <1>2, RingFacts
<1> DEFINE Unmixed == \A i, j \in 1 .. n : s[i] = s[j] => i = j
<1>4. /\ Unmixed
      /\ clientListHead = s[1] /\ clientListTail = s[n]
      /\ \A i \in 1 .. n : /\ node[s[i]].nextClient = s[After(n, i)]
                          /\ node[s[i]].preClient = s[Before(n, i)]
      /\ allocated = {s[i] : i \in 1 .. n}
  BY <1>2, <1>3 DEF RingOf, Elements
<1> HIDE DEF Unmixed
<1>5. /\ 1 \in 1 .. n /\ n \in 1 .. n
      /\ s[k] = clientListHead <=> k = 1
      /\ s[k] = clientListTail <=> k = n
  <2>1. 1 \in 1 .. n /\ n \in 1 .. n
    BY <1>3
  <2> QED BY <1>3, <1>4, <2>1 DEF Unmixed
<1>6. CASE n = 1
  <2>1. k = 1 /\ After(n, 1) = 1
    BY <1>3, <1>6 DEF After
  <2>2. DeleteOnly(s[k])
    BY <1>4, <1>5, <1>6, <2>1 DEF DeleteHead, DeleteTail, DeleteAmong
  <2>3. TypeOK' /\ clientListTail' = NULL
    BY <1>1, <2>2 DEF TypeOK, DeleteOnly, HeadOfEmpty, Empty
  <2>4. Unused'
    <3>1. allocated = {s[1]}
      BY <1>3, <1>4, <1>6
    <3> QED BY <1>1, <1>4, <2>2, <3>1 DEF Unused, DeleteOnly, HeadOfEmpty, TypeOK
  <2>5. Members' = << >>
    BY <2>3 DEF Members
  <2>6. Members = Ids(s) /\ Ids(s) \in Seq(Int) /\ Len(Ids(s)) = n
    BY <1>1, <1>2, WalkGoesRound, ListStaysInt DEF Walked
  <2>7. RemoveAt(Members, k) \in Seq(Int) /\ Len(RemoveAt(Members, k)) = 0
    <3> DEFINE m == Members
    <3>1. m \in Seq(Int) /\ Len(m) = 1 /\ k \in 1 .. Len(m)
      BY <1>6, <2>1, <2>6
    <3> HIDE DEF m
    <3>2. RemoveAt(m, k) \in Seq(Int) /\ Len(RemoveAt(m, k)) = Len(m) - 1
      BY <3>1, RemoveAtSkips
    <3>3. RemoveAt(m, k) \in Seq(Int) /\ Len(RemoveAt(m, k)) = 0
      BY <3>1, <3>2
    <3> QED BY <3>3 DEF m
  <2>8. RemoveAt(Members, k) = << >>
    BY <2>7, EmptySeq
  <2> QED BY <2>3, <2>4, <2>5, <2>8 DEF Inv
<1>7. CASE n # 1
  <2>1. n >= 2 /\ n - 1 \in 1 .. n /\ 2 \in 1 .. n
    BY <1>3, <1>7
  <2>2. ~DeleteOnly(s[k])
    <3>1. After(n, 1) = 2
      BY <1>7 DEF After
    <3>2. s[2] # s[1]
      BY <1>4, <1>5, <2>1 DEF Unmixed
    <3> QED BY <1>4, <1>5, <3>1, <3>2 DEF DeleteOnly
  <2>3. /\ After(n, n) = 1 /\ After(n, 1) = 2 /\ Before(n, 1) = n /\ Before(n, n) = n - 1
    BY <1>3, <1>7 DEF After, Before
  <2>4. /\ clientListHead' = s[Skip(k, 1)] /\ clientListTail' = s[Skip(k, n - 1)]
        /\ allocated' = allocated \ {s[k]}
        /\ node' = [node EXCEPT ![s[Before(n, k)]].nextClient = s[After(n, k)],
                                ![s[After(n, k)]].preClient = s[Before(n, k)]]
    <3>1. CASE DeleteHead(s[k])
      <4>1. k = 1 /\ Skip(k, 1) = 2 /\ Skip(k, n - 1) = n
        BY <1>3, <1>5, <2>1, <3>1 DEF DeleteHead, Skip
      <4> QED BY <1>4, <1>5, <2>3, <3>1, <4>1 DEF DeleteHead, Beheaded
    <3>2. CASE DeleteTail(s[k])
      <4>1. k = n /\ Skip(k, 1) = 1 /\ Skip(k, n - 1) = n - 1
        BY <1>3, <1>5, <2>1, <3>2 DEF DeleteTail, Skip
      <4> QED BY <1>4, <1>5, <2>3, <3>2, <4>1 DEF DeleteTail
    <3>3. CASE DeleteAmong(s[k])
      <4>1. k # 1 /\ k # n /\ Skip(k, 1) = 1 /\ Skip(k, n - 1) = n
        BY <1>3, <1>5, <2>1, <3>3 DEF DeleteAmong, Skip
      <4> QED BY <1>3, <1>4, <3>3, <4>1 DEF DeleteAmong, FreedAmong
    <3> QED BY <2>2, <3>1, <3>2, <3>3
  <2>5. Cut(s, k) /\ TypeOK'
    <3>1. /\ Skip(k, 1) \in 1 .. n /\ Skip(k, n - 1) \in 1 .. n
      BY <1>3, <2>1 DEF Skip
    <3>2. s[Before(n, k)] \in Nodes /\ s[After(n, k)] \in Nodes
      BY <1>3
    <3>3. /\ node' \in [Nodes -> [nextClient : Nodes \cup {NULL},
                                  preClient : Nodes \cup {NULL}, clientId : Int]]
          /\ \A q \in Nodes :
               /\ node'[q].nextClient = IF q = s[Before(n, k)] THEN s[After(n, k)]
                                                               ELSE node[q].nextClient
               /\ node'[q].preClient = IF q = s[After(n, k)] THEN s[Before(n, k)]
                                                             ELSE node[q].preClient
               /\ node'[q].clientId = node[q].clientId
      BY <1>1, <2>4, <3>2, Relinked DEF TypeOK
    <3>4. TypeOK'
      <4>1. s[Skip(k, 1)] \in Nodes /\ s[Skip(k, n - 1)] \in Nodes
        BY <1>3, <3>1
      <4>2. clientListHead' \in Nodes /\ clientListTail' \in Nodes
        BY <2>4, <4>1
      <4>3. allocated' \subseteq Nodes
        BY <1>1, <2>4 DEF TypeOK
      <4> QED BY <3>3, <4>2, <4>3 DEF TypeOK
    <3> QED BY <1>2, <2>4, <3>3, <3>4 DEF Cut
  <2>6. RingOf(RemoveAt(s, k))' /\ Members' = RemoveAt(Members, k)
    BY <1>1, <1>2, <2>1, <2>5, CutLeavesRing
  <2>7. clientListTail' # NULL
    <3>1. Skip(k, n - 1) \in 1 .. n
      BY <1>3, <2>1 DEF Skip
    <3> QED BY <1>2, <1>3, <2>5, <3>1, RingAssumption DEF Cut
  <2> QED BY <2>5, <2>6, <2>7 DEF Inv
<1> QED BY <1>6, <1>7

LEMMA PointersUnchanged == ASSUME Inv, UNCHANGED pointers PROVE Inv' /\ Members' = Members
<1> USE DEF pointers
<1>1. TypeOK' /\ (clientListTail' = NULL => Unused')
  BY DEF Inv, TypeOK, Unused, Empty
<1>2. \A s : RingOf(s) => RingOf(s)'
  BY DEF RingOf, Elements
<1>3. Members' = Members
  BY DEF Members, Reached, Hop, Follow
<1> QED BY <1>1, <1>2, <1>3 DEF Inv

LEMMA MembersAreInt == ASSUME Inv PROVE Members \in Seq(Int)
<1>1. CASE clientListTail = NULL
  BY <1>1 DEF Members
<1>2. CASE clientListTail # NULL
  BY <1>2, WalkGoesRound, ListStaysInt DEF Walked, Inv
<1> QED BY <1>1, <1>2

\* Entry k is the first that holds d.
FirstAt(m, d, k) == k \in 1 .. Len(m) /\ m[k] = d /\ \A j \in 1 .. k - 1 : m[j] # d

LEMMA ListedHasFirst ==
  ASSUME NEW m \in Seq(Int), NEW d, NEW l \in 1 .. Len(m), m[l] = d
  PROVE  \E k \in 1 .. Len(m) : FirstAt(m, d, k)
<1> DEFINE S == {k \in 1 .. Len(m) : m[k] = d}
<1>1. S \subseteq Nat /\ S # {}
  OBVIOUS
<1>2. PICK k \in S : \A j \in S : k <= j
  <2> HIDE DEF S
  <2> QED BY <1>1, LeastNumber
<1>3. \A j \in 1 .. k - 1 : m[j] # d
  <2> TAKE j \in 1 .. k - 1
  <2>1. j \in 1 .. Len(m) /\ ~(k <= j)
    BY <1>2
  <2> QED BY <1>2, <2>1
<1> QED BY <1>2, <1>3 DEF FirstAt

LEMMA DeleteStep ==
  ASSUME Inv, NEW d, deleteNode(d)
  PROVE  /\ Inv'
         /\ \/ /\ ret' = 0
               /\ \E k \in 1 .. Len(Members) :
                    FirstAt(Members, d, k) /\ Members' = RemoveAt(Members, k)
            \/ /\ ret' = -1 /\ Members' = Members
               /\ \A k \in 1 .. Len(Members) : Members[k] # d
<1>1. CASE /\ \A i \in Nodes : ~Finds(d, i)
           /\ ret' = -1
           /\ UNCHANGED pointers
  <2>1. ASSUME NEW l \in 1 .. Len(Members), Members[l] = d PROVE FALSE
    <3>1. PICK k \in 1 .. Len(Members) : FirstAt(Members, d, k)
      BY <2>1, MembersAreInt, ListedHasFirst
    <3>2. clientListTail # NULL
      BY <3>1 DEF Members
    <3>3. PICK s : RingOf(s)
      BY <3>2 DEF Inv
    <3>4. Walked(s) /\ Len(Ids(s)) = Len(s)
      BY <3>3, WalkGoesRound, ListStaysInt DEF Inv
    <3>5. k \in 1 .. Len(s) /\ Hop[k - 1] = s[k] /\ s[k] \in Nodes
      BY <3>1, <3>3, <3>4, RingFacts DEF Walked
    <3>6. Finds(d, s[k])
      BY <3>1, <3>2, <3>5 DEF Finds, FirstAt
    <3> QED BY <1>1, <3>5, <3>6
  <2> QED BY <1>1, <2>1, PointersUnchanged
<1>2. CASE /\ \E i \in Nodes :
                /\ Finds(d, i)
                /\ DeleteOnly(i) \/ DeleteHead(i) \/ DeleteTail(i) \/ DeleteAmong(i)
           /\ ret' = 0
  <2>1. PICK i \in Nodes :
          /\ Finds(d, i)
          /\ DeleteOnly(i) \/ DeleteHead(i) \/ DeleteTail(i) \/ DeleteAmong(i)
    BY <1>2
  <2>2. PICK k \in 1 .. Len(Members) : Hop[k - 1] = i /\ FirstAt(Members, d, k)
    BY <2>1 DEF Finds, FirstAt
  <2>3. PICK s : RingOf(s)
    BY <2>1 DEF Inv, Finds
  <2>4. Walked(s) /\ Len(Ids(s)) = Len(s)
    BY <2>3, WalkGoesRound, ListStaysInt DEF Inv
  <2>5. k \in 1 .. Len(s) /\ i = s[k]
    BY <2>2, <2>4 DEF Walked
  <2>6. Inv' /\ Members' = RemoveAt(Members, k)
    BY <2>1, <2>3, <2>5, DeleteFoundStep
  <2> QED BY <1>2, <2>2, <2>6
<1> QED BY <1>1, <1>2 DEF deleteNode

----------------------------------------------------------------------------
LEMMA InitInv == Init => Inv
BY RingAssumption DEF Init, Inv, TypeOK, Unused, Empty

LEMMA InvStep == ASSUME Inv, [Next]_vars PROVE Inv'
<1>1. ASSUME NEW d \in Descriptors, appendList(d) PROVE Inv'
  BY <1>1, AppendStep, RingAssumption
<1>2. ASSUME NEW d \in Descriptors, deleteNode(d) PROVE Inv'
  BY <1>2, DeleteStep
<1>3. ASSUME UNCHANGED vars PROVE Inv'
  BY <1>3, PointersUnchanged DEF vars
<1> QED BY <1>1, <1>2, <1>3 DEF Next

LEMMA AlwaysInv == Spec => []Inv
BY InitInv, InvStep, PTL DEF Spec

----------------------------------------------------------------------------
LEMMA RingLinksBack ==
  ASSUME Inv, NEW s, RingOf(s)
  PROVE  WellLinked
<1>1. PICK n : n = Len(s)
  OBVIOUS
<1>2. /\ n \in Nat /\ n >= 1 /\ DOMAIN s = 1 .. n
      /\ \A i \in 1 .. n : s[i] \in Nodes /\ After(n, i) \in 1 .. n /\ Before(n, i) \in 1 .. n
  BY <1>1, RingFacts
<1>3. /\ clientListHead = s[1] /\ clientListTail = s[n]
      /\ \A i \in 1 .. n : /\ node[s[i]].nextClient = s[After(n, i)]
                          /\ node[s[i]].preClient = s[Before(n, i)]
  BY <1>1 DEF RingOf
<1>4. Reached = {s[i] : i \in 1 .. n}
  BY <1>2, WalkGoesRound DEF Walked, Inv, Elements
<1>5. \A i \in 1 .. n : /\ After(n, Before(n, i)) = i /\ Before(n, After(n, i)) = i
                       /\ After(n, n) = 1
  BY <1>2 DEF After, Before
<1>6. \A i \in 1 .. n : Follow(s[i]) = s[After(n, i)]
  BY <1>2, <1>3, RingAssumption DEF Follow
<1>7. node[clientListTail].nextClient = clientListHead
  <2>1. n \in 1 .. n
    BY <1>2
  <2> QED BY <1>3, <1>5, <2>1
<1>8. ASSUME NEW p \in Reached
      PROVE  /\ p = Follow(node[p].preClient)
             /\ Follow(p) \in Reached /\ node[Follow(p)].preClient = p
  <2>1. PICK i \in 1 .. n : p = s[i]
    BY <1>4
  <2>2. Before(n, i) \in 1 .. n /\ After(n, i) \in 1 .. n
    BY <1>2
  <2>3. node[p].preClient = s[Before(n, i)] /\ Follow(p) = s[After(n, i)]
    BY <1>3, <1>6, <2>1
  <2>4. Follow(s[Before(n, i)]) = s[i]
    BY <1>5, <1>6, <2>2
  <2>5. node[s[After(n, i)]].preClient = s[i]
    BY <1>3, <1>5, <2>2
  <2> QED BY <1>4, <2>1, <2>2, <2>3, <2>4, <2>5
<1> QED BY <1>7, <1>8 DEF WellLinked

(***************************************************************************)
(* The ring is the same backwards as forwards and closes at the tail,      *)
(* after any appends and deletions: appendList links its node both ways,   *)
(* and each of the four cases of deleteNode links the neighbours it        *)
(* leaves.                                                                 *)
(***************************************************************************)
THEOREM RingWellLinked == Spec => []WellLinked
<1>1. Inv => WellLinked
  BY RingLinksBack DEF Inv, WellLinked
<1> QED BY <1>1, AlwaysInv, PTL

(***************************************************************************)
(* deleteNode frees the node it cuts out and no other: the allocated nodes *)
(* are those a walk reaches, and the first node while the list is empty.   *)
(***************************************************************************)
THEOREM RingLeaksNothing == Spec => []NoLeakNoDangling
<1>1. ASSUME Inv PROVE NoLeakNoDangling
  <2>1. CASE clientListTail = NULL
    BY <1>1, <2>1, EmptyWalk DEF Inv, Unused, NoLeakNoDangling
  <2>2. CASE clientListTail # NULL
    BY <1>1, <2>2, WalkGoesRound DEF Inv, Walked, RingOf, NoLeakNoDangling
  <2> QED BY <2>1, <2>2
<1> QED BY <1>1, AlwaysInv, PTL

\* The abstract deletion removes the entry that deleteNode finds first.
LEMMA RemoveFirstIsRemoveAt ==
  ASSUME NEW m \in Seq(Int), NEW d, NEW k, FirstAt(m, d, k)
  PROVE  RemoveFirst(m, d) = RemoveAt(m, k)
<1> DEFINE I == {i \in 1 .. Len(m) : m[i] = d}
<1>1. k \in I /\ \A i \in I : k <= i
  <2>1. k \in 1 .. Len(m) /\ m[k] = d /\ \A j \in 1 .. k - 1 : m[j] # d
    BY DEF FirstAt
  <2>2. ASSUME NEW i \in I PROVE k <= i
    <3>1. i \notin 1 .. k - 1
      BY <2>1
    <3> QED BY <2>1, <3>1
  <2> QED BY <2>1, <2>2
<1>2. Min(I) = k
  <2>1. Min(I) \in I /\ \A i \in I : Min(I) <= i
    BY <1>1 DEF Min
  <2>2. I \subseteq Nat
    OBVIOUS
  <2>3. PICK least : least = Min(I)
    OBVIOUS
  <2>4. k \in Nat /\ least \in Nat /\ least <= k /\ k <= least
    <3> HIDE DEF I
    <3> QED BY <1>1, <2>1, <2>2, <2>3
  <2> QED BY <2>3, <2>4
<1>3. RemoveFirst(m, d) = RemoveAt(m, Min(I))
  BY <1>1 DEF RemoveFirst, SelectInSeq
<1> QED BY <1>2, <1>3

(***************************************************************************)
(* The ring implements ClientList: appendList adds the descriptor at the   *)
(* end, deleteNode removes its first entry and returns 0, or returns -1    *)
(* and changes nothing when there is none.                                 *)
(***************************************************************************)
THEOREM RingKeepsTheList == Spec => KeepsTheList
<1>1. Init => Promise!Init
  BY DEF Init, Promise!Init, Members
<1>2. ASSUME Inv, [Next]_vars PROVE [Promise!Next]_<<Members, ret>>
  <2>1. ASSUME NEW d \in Descriptors, appendList(d) PROVE Promise!Add(d)
    BY <1>2, <2>1, AppendStep, RingAssumption DEF Promise!Add, appendList
  <2>2. ASSUME NEW d \in Descriptors, deleteNode(d)
        PROVE  Promise!Delete(d) \/ Promise!DeleteUnlisted(d)
    <3>1. Members \in Seq(Int)
      BY <1>2, MembersAreInt
    <3>2. d \in Promise!Range(Members) <=> \E k \in 1 .. Len(Members) : Members[k] = d
      BY <3>1 DEF Promise!Range
    <3>3. CASE /\ ret' = 0
               /\ \E k \in 1 .. Len(Members) :
                    FirstAt(Members, d, k) /\ Members' = RemoveAt(Members, k)
      <4>1. PICK k \in 1 .. Len(Members) :
                   FirstAt(Members, d, k) /\ Members' = RemoveAt(Members, k)
        BY <3>3
      <4>2. Members' = RemoveFirst(Members, d)
        BY <3>1, <4>1, RemoveFirstIsRemoveAt
      <4>3. Promise!RemoveFirst(Members, d) = RemoveFirst(Members, d)
        BY DEF Promise!RemoveFirst, Promise!RemoveAt, Promise!SelectInSeq, Promise!Min,
               RemoveFirst, RemoveAt, SelectInSeq, Min
      <4> QED BY <3>2, <3>3, <4>1, <4>2, <4>3 DEF Promise!Delete, FirstAt
    <3>4. CASE /\ ret' = -1 /\ Members' = Members
               /\ \A k \in 1 .. Len(Members) : Members[k] # d
      BY <3>2, <3>4 DEF Promise!DeleteUnlisted
    <3> QED BY <1>2, <2>2, <3>3, <3>4, DeleteStep
  <2>3. ASSUME UNCHANGED vars PROVE UNCHANGED <<Members, ret>>
    BY <1>2, <2>3, PointersUnchanged DEF vars
  <2> QED BY <1>2, <2>1, <2>2, <2>3 DEF Next, Promise!Next
<1> QED BY <1>1, <1>2, AlwaysInv, PTL DEF Spec, KeepsTheList, Promise!Spec
----------------------------------------------------------------------------
(* What the operations do to the entries of one descriptor: the facts that *)
(* WifiUartProofs needs of the list.                                       *)

Occurs(m, d) == \E k \in 1 .. Len(m) : m[k] = d
Once(m, d) == \A k, l \in 1 .. Len(m) : m[k] = d /\ m[l] = d => k = l

\* An append adds an entry of d and leaves the others alone.
LEMMA AppendAddsEntry ==
  ASSUME NEW m \in Seq(Int), NEW d \in Int, NEW e
  PROVE  /\ Occurs(Append(m, d), e) <=> Occurs(m, e) \/ e = d
         /\ Once(m, e) /\ (e = d => ~Occurs(m, e)) => Once(Append(m, d), e)
<1>1. PICK n \in Nat : n = Len(m)
  OBVIOUS
<1>2. PICK l : l = Append(m, d)
  OBVIOUS
<1>3. Len(l) = n + 1 /\ l[n + 1] = d /\ \A k \in 1 .. n : l[k] = m[k]
  BY <1>1, <1>2
<1>4. \A k \in 1 .. n + 1 : k \in 1 .. n \/ k = n + 1
  BY <1>1
<1>5. 1 .. n \subseteq 1 .. n + 1 /\ n + 1 \in 1 .. n + 1
  BY <1>1
<1>6. Occurs(l, e) <=> Occurs(m, e) \/ e = d
  BY <1>1, <1>3, <1>4, <1>5 DEF Occurs
<1>7. Once(m, e) /\ (e = d => ~Occurs(m, e)) => Once(l, e)
  BY <1>1, <1>3, <1>4 DEF Occurs, Once
<1> QED BY <1>2, <1>6, <1>7

\* Without its entry k, a sequence has the entries it had but that one.
LEMMA RemovalDropsEntry ==
  ASSUME NEW m \in Seq(Int), NEW k \in 1 .. Len(m), NEW d, m[k] = d, NEW e
  PROVE  /\ e # d => (Occurs(RemoveAt(m, k), e) <=> Occurs(m, e))
         /\ Once(m, e) => Once(RemoveAt(m, k), e)
         /\ Once(m, d) => ~Occurs(RemoveAt(m, k), d)
<1>1. PICK n \in Nat : n = Len(m)
  OBVIOUS
<1>2. PICK r : r = RemoveAt(m, k)
  OBVIOUS
<1>3. Len(r) = n - 1 /\ \A j \in 1 .. n - 1 : r[j] = m[Skip(k, j)]
  BY <1>1, <1>2, RemoveAtSkips
<1>4. \A j \in 1 .. n - 1 : Skip(k, j) \in 1 .. n /\ Skip(k, j) # k
  BY <1>1 DEF Skip
<1>5. \A i \in 1 .. n : i # k => \E j \in 1 .. n - 1 : Skip(k, j) = i
  BY <1>1, SkipCovers
<1>6. \A i, j \in 1 .. n - 1 : Skip(k, i) = Skip(k, j) => i = j
  BY <1>1 DEF Skip
<1>7. k \in 1 .. n
  BY <1>1
<1>8. ASSUME e # d PROVE Occurs(r, e) <=> Occurs(m, e)
  <2>1. ASSUME NEW i \in 1 .. n, m[i] = e PROVE \E j \in 1 .. n - 1 : r[j] = e
    <3>1. PICK j \in 1 .. n - 1 : Skip(k, j) = i
      BY <1>5, <1>8, <2>1
    <3> QED BY <1>3, <2>1, <3>1
  <2>2. ASSUME NEW j \in 1 .. n - 1, r[j] = e PROVE \E i \in 1 .. n : m[i] = e
    BY <1>3, <1>4, <2>2
  <2> QED BY <1>1, <1>3, <2>1, <2>2 DEF Occurs
<1>9. Once(m, e) => Once(r, e)
  <2> SUFFICES ASSUME Once(m, e), NEW a \in 1 .. n - 1, NEW b \in 1 .. n - 1, r[a] = e, r[b] = e
               PROVE  a = b
    BY <1>3 DEF Once
  <2> HIDE DEF Skip
  <2>1. m[Skip(k, a)] = e /\ m[Skip(k, b)] = e
    BY <1>3
  <2>2. Skip(k, a) \in 1 .. n /\ Skip(k, b) \in 1 .. n
    BY <1>4
  <2>3. Skip(k, a) = Skip(k, b)
    BY <1>1, <2>1, <2>2 DEF Once
  <2> QED BY <1>6, <2>3
<1>10. Once(m, d) => ~Occurs(r, d)
  BY <1>1, <1>3, <1>4, <1>7 DEF Once, Occurs
<1> QED BY <1>2, <1>8, <1>9, <1>10

LEMMA AppendedEntries ==
  ASSUME Inv, NEW d \in Int, appendList(d), NEW e
  PROVE  /\ Occurs(Members, e)' <=> Occurs(Members, e) \/ e = d
         /\ Once(Members, e) /\ (e = d => ~Occurs(Members, e)) => Once(Members, e)'
<1>1. Members' = Append(Members, d)
  BY AppendStep
<1>2. PICK m \in Seq(Int) : m = Members
  BY MembersAreInt
<1>3. PICK l : l = Append(m, d)
  OBVIOUS
<1>4. (Occurs(Members, e)' <=> Occurs(l, e)) /\ (Once(Members, e)' <=> Once(l, e))
  BY <1>1, <1>2, <1>3 DEF Occurs, Once
<1> QED BY <1>2, <1>3, <1>4, AppendAddsEntry

LEMMA DeletedEntries ==
  ASSUME Inv, NEW d, deleteNode(d)
  PROVE  \/ /\ ret' = 0 /\ Occurs(Members, d)
            /\ \A e : e # d => (Occurs(Members, e)' <=> Occurs(Members, e))
            /\ \A e : Once(Members, e) => Once(Members, e)'
            /\ Once(Members, d) => ~Occurs(Members, d)'
         \/ ret' = -1 /\ Members' = Members /\ ~Occurs(Members, d)
<1>1. PICK m \in Seq(Int) : m = Members
  BY MembersAreInt
<1>2. CASE /\ ret' = 0
           /\ \E k \in 1 .. Len(Members) :
                FirstAt(Members, d, k) /\ Members' = RemoveAt(Members, k)
  <2>1. PICK k \in 1 .. Len(m) : m[k] = d /\ Members' = RemoveAt(m, k)
    BY <1>1, <1>2 DEF FirstAt
  <2>2. PICK r : r = RemoveAt(m, k)
    OBVIOUS
  <2>3. \A e : (Occurs(Members, e)' <=> Occurs(r, e)) /\ (Once(Members, e)' <=> Once(r, e))
    BY <2>1, <2>2 DEF Occurs, Once
  <2>4. \A e : /\ e # d => (Occurs(r, e) <=> Occurs(m, e))
               /\ Once(m, e) => Once(r, e)
               /\ Once(m, d) => ~Occurs(r, d)
    BY <2>1, <2>2, RemovalDropsEntry
  <2>5. Occurs(m, d)
    BY <2>1 DEF Occurs
  <2> QED BY <1>1, <1>2, <2>3, <2>4, <2>5
<1>3. CASE /\ ret' = -1 /\ Members' = Members
           /\ \A k \in 1 .. Len(Members) : Members[k] # d
  BY <1>3 DEF Occurs
<1> QED BY <1>2, <1>3, DeleteStep
=============================================================================
