------------------------- MODULE OrderedIndexProofs -------------------------
(***************************************************************************)
(* What holds of either index, for any members and scores: items in order, *)
(* sequences of them, and how rank and range are answered from one list in *)
(* order that has the items of the table.                                  *)
(*                                                                         *)
(* And the skip list, for any number of levels and any heights: each level *)
(* is a sorted list of some nodes of the level below.                      *)
(***************************************************************************)
EXTENDS OrderedIndex, FiniteSetTheorems, WellFoundedInduction, TLAPS

-----------------------------------------------------------------------------
(* Numbers and the order of items                                            *)

LEMMA LeastNumber ==
    ASSUME NEW S \in SUBSET Nat, S # {}
    PROVE  \E x \in S : \A y \in S : x <= y
<1>1. IsWellFoundedOn(OpToRel(<, Nat), Nat)
  BY NatLessThanWellFounded
<1>2. PICK x \in S : \A y \in S : ~ (<<y, x>> \in OpToRel(<, Nat))
  BY <1>1, WFMin
<1>3. \A y \in S : ~ (y < x)
  BY <1>2, Zenon DEF OpToRel
<1> QED  BY <1>3, SMT

\* What holds of n and, if of a number, of the one below it, holds down to 0.
LEMMA CountDown ==
    ASSUME NEW n \in Nat, NEW S, n \in S, \A i \in 0 .. n : i > 0 /\ i \in S => i - 1 \in S
    PROVE  \A i \in 0 .. n : i \in S
<1> SUFFICES ASSUME NEW k \in 0 .. n, k \notin S PROVE FALSE
  OBVIOUS
<1> DEFINE B == {j \in 0 .. n : n - j \notin S}
<1>1. B \in SUBSET Nat /\ n - k \in 0 .. n /\ n - (n - k) = k
  BY SMT
<1>2. B # {}
  BY <1>1
<1>3. PICK j \in B : \A i \in B : j <= i
  BY <1>1, <1>2, LeastNumber
<1>4. j \in 0 .. n /\ n - j \notin S
  OBVIOUS
<1>5. j # 0
  BY <1>4, SMT
<1>6. j - 1 \in 0 .. n /\ ~ (j <= j - 1)
  BY <1>4, <1>5, SMT
<1>7. n - (j - 1) \in S
  BY <1>3, <1>6
<1>8. n - (j - 1) \in 0 .. n /\ n - (j - 1) > 0 /\ (n - (j - 1)) - 1 = n - j
  BY <1>4, <1>5, SMT
<1> QED  BY <1>4, <1>7, <1>8

LEMMA LessOrder ==
    ASSUME NEW x \in AnyItem, NEW y \in AnyItem
    PROVE  /\ ~ less(x, x)
           /\ less(x, y) => ~ less(y, x)
           /\ less(x, y) \/ x = y \/ less(y, x)
           /\ \A z \in AnyItem : less(x, y) /\ less(y, z) => less(x, z)
<1>1. /\ x.member \in Int /\ x.score \in Int /\ y.member \in Int /\ y.score \in Int
      /\ \A z \in AnyItem : z.member \in Int /\ z.score \in Int
  BY DEF AnyItem
<1>2. x.member = y.member /\ x.score = y.score => x = y
  BY DEF AnyItem
<1>3. /\ ~ less(x, x)
      /\ less(x, y) => ~ less(y, x)
      /\ less(x, y) \/ (x.member = y.member /\ x.score = y.score) \/ less(y, x)
  BY <1>1, SMT DEF less
<1>4. \A z \in AnyItem : less(x, y) /\ less(y, z) => less(x, z)
  BY <1>1, SMT DEF less
<1> QED  BY <1>2, <1>3, <1>4

-----------------------------------------------------------------------------
(* A level as a sequence                                                     *)

At(list, i) == IF i = 0 THEN HeadNode ELSE list[i]

Nodes(list) == {list[i] : i \in 1 .. Len(list)}

Sorted(list) == /\ list \in Seq(AnyItem)
                /\ \A i, j \in 1 .. Len(list) : i < j => less(list[i], list[j])

\* The pointers of a level go through a list's items in order, and no other node
\* has one.
Threads(next, level, list) ==
    /\ \A i \in 0 .. Len(list) :
          /\ At(list, i) \in DOMAIN next
          /\ next[At(list, i)][level] = IF i = Len(list) THEN Nil ELSE list[i + 1]
    /\ \A n \in DOMAIN next :
          (\A i \in 0 .. Len(list) : n # At(list, i)) => next[n][level] = Nil

\* How many items of a list come before x.
Before(list, x, p) == p \in 0 .. Len(list) /\ \A i \in 1 .. Len(list) : less(list[i], x) <=> i <= p
Cut(list, x) == CHOOSE p : Before(list, x, p)

LEMMA ListParts ==
    ASSUME NEW list, Sorted(list)
    PROVE  /\ Len(list) \in Nat /\ DOMAIN list = 1 .. Len(list)
           /\ \A i \in 1 .. Len(list) : list[i] \in AnyItem /\ list[i] # HeadNode /\ list[i] # Nil
           /\ \A i, j \in 0 .. Len(list) : At(list, i) = At(list, j) => i = j
<1>1. list \in Seq(AnyItem)
  BY DEF Sorted
<1>2. Len(list) \in Nat /\ DOMAIN list = 1 .. Len(list) /\ \A i \in 1 .. Len(list) : list[i] \in AnyItem
  BY <1>1
<1>3. \A i \in 1 .. Len(list) : list[i] # HeadNode /\ list[i] # Nil
  BY <1>2, SkipListAssumption
<1>4. ASSUME NEW i \in 0 .. Len(list), NEW j \in 0 .. Len(list), At(list, i) = At(list, j) PROVE i = j
  <2>1. i = 0 \/ i \in 1 .. Len(list)
    BY <1>2, SMT
  <2>2. j = 0 \/ j \in 1 .. Len(list)
    BY <1>2, SMT
  <2>3. CASE i = 0 \/ j = 0
    BY <1>3, <1>4, <2>1, <2>2, <2>3 DEF At
  <2>4. CASE i # 0 /\ j # 0
    <3>1. i \in 1 .. Len(list) /\ j \in 1 .. Len(list) /\ list[i] = list[j]
      BY <1>4, <2>1, <2>2, <2>4 DEF At
    <3>2. ~ less(list[i], list[j]) /\ ~ less(list[j], list[i])
      BY <1>2, <3>1, LessOrder
    <3>3. ~ (i < j) /\ ~ (j < i)
      BY <3>1, <3>2 DEF Sorted
    <3> QED  BY <3>1, <3>3, SMT
  <2> QED  BY <2>3, <2>4
<1> QED  BY <1>2, <1>3, <1>4

LEMMA CutIs ==
    ASSUME NEW list, Sorted(list), NEW x \in AnyItem
    PROVE  Before(list, x, Cut(list, x))
<1> DEFINE B == {i \in 1 .. Len(list) : ~ less(list[i], x)}
<1>1. PICK n \in Nat : n = Len(list)
  BY ListParts
<1>2. \E p : Before(list, x, p)
  <2>1. CASE B = {}
    <3>1. \A i \in 1 .. n : i <= n
      BY <1>1, SMT
    <3>2. n \in 0 .. n
      BY <1>1, SMT
    <3> QED  BY <1>1, <2>1, <3>1, <3>2 DEF Before
  <2>2. CASE B # {}
    <3>1. B \in SUBSET Nat
      BY <1>1, SMT
    <3>2. PICK m \in B : \A i \in B : m <= i
      BY <2>2, <3>1, LeastNumber
    <3>3. m \in 1 .. n /\ ~ less(list[m], x)
      BY <1>1
    <3>4. m - 1 \in 0 .. n
      BY <1>1, <3>3, SMT
    <3>5. ASSUME NEW i \in 1 .. n PROVE less(list[i], x) <=> i <= m - 1
      <4>1. CASE less(list[i], x)
        <5>1. i # m
          BY <3>3, <4>1
        <5>2. ~ (m < i)
          <6>1. ASSUME m < i PROVE FALSE
            <7>1. less(list[m], list[i])
              BY <1>1, <3>3, <3>5, <6>1 DEF Sorted
            <7>2. less(list[m], x)
              BY <1>1, <3>3, <3>5, <4>1, <7>1, ListParts, LessOrder
            <7> QED  BY <3>3, <7>2
          <6> QED  BY <6>1
        <5> QED  BY <3>3, <3>5, <4>1, <5>1, <5>2, SMT
      <4>2. CASE ~ less(list[i], x)
        <5>1. m <= i
          BY <1>1, <3>2, <3>5, <4>2
        <5> QED  BY <3>3, <3>5, <4>2, <5>1, SMT
      <4> QED  BY <4>1, <4>2
    <3> QED  BY <1>1, <3>4, <3>5 DEF Before
  <2> QED  BY <2>1, <2>2
<1> QED  BY <1>2 DEF Cut

-----------------------------------------------------------------------------
(* The search                                                                *)

Walk(next, level, x, w) ==
    w = [n \in DOMAIN next |->
            IF next[n][level] # Nil /\ less(next[n][level], x) THEN w[next[n][level]] ELSE n]

LEMMA LastBeforeIs ==
    ASSUME NEW s, NEW level, NEW x, \E w : Walk(s.next, level, x, w)
    PROVE  Walk(s.next, level, x, lastBefore(s, x, level))
<1> DEFINE Is(w) == w = [n \in DOMAIN s.next |->
                            LET next == s.next[n][level]
                            IN IF next # Nil /\ less(next, x) THEN w[next] ELSE n]
<1>1. lastBefore(s, x, level) = CHOOSE w : Is(w)
  BY DEF lastBefore
<1>2. \A w : Is(w) <=> Walk(s.next, level, x, w)
  BY DEF Walk
<1>3. \E w : Is(w)
  BY <1>2
<1>4. Is(lastBefore(s, x, level))
  BY <1>1, <1>3
<1> QED  BY <1>2, <1>4

\* What follows a node of a level.
LEMMA NextOf ==
    ASSUME NEW next, NEW level, NEW list, Sorted(list), Threads(next, level, list),
           NEW x \in AnyItem, NEW p, Before(list, x, p), NEW i \in 0 .. Len(list)
    PROVE  LET n == next[At(list, i)][level] IN
           /\ n # Nil /\ less(n, x) <=> i < p
           /\ i < p => n = At(list, i + 1) /\ i + 1 \in 0 .. p
<1>1. PICK m \in Nat : m = Len(list)
  BY ListParts
<1>2. next[At(list, i)][level] = IF i = m THEN Nil ELSE list[i + 1]
  BY <1>1 DEF Threads
<1>3. p \in 0 .. m /\ \A j \in 1 .. m : less(list[j], x) <=> j <= p
  BY <1>1 DEF Before
<1>4. CASE i = m
  <2>1. ~ (i < p)
    BY <1>1, <1>3, <1>4, SMT
  <2> QED  BY <1>2, <1>4, <2>1
<1>5. CASE i # m
  <2>1. i + 1 \in 1 .. m
    BY <1>1, <1>5, SMT
  <2>2. i + 1 <= p <=> i < p
    BY <1>1, <1>3, <2>1, SMT
  <2>3. list[i + 1] # Nil
    BY <1>1, <2>1, ListParts
  <2>4. next[At(list, i)][level] = list[i + 1]
    BY <1>2, <1>5
  <2>5. less(list[i + 1], x) <=> i + 1 <= p
    BY <1>3, <2>1
  <2>6. i < p => i + 1 \in 0 .. p
    BY <1>1, <1>3, SMT
  <2>7. i + 1 # 0
    BY <1>1, SMT
  <2> QED  BY <2>2, <2>3, <2>4, <2>5, <2>6, <2>7 DEF At
<1> QED  BY <1>4, <1>5

\* From any node of a level before x the walk ends at the last one before x.
LEMMA WalkIs ==
    ASSUME NEW s, NEW level, NEW list, Sorted(list), Threads(s.next, level, list),
           NEW x \in AnyItem, NEW p, Before(list, x, p), NEW i \in 0 .. p
    PROVE  lastBefore(s, x, level)[At(list, i)] = At(list, p)
<1>1. PICK m \in Nat : m = Len(list)
  BY ListParts
<1>2. p \in Nat /\ p \in 0 .. m /\ \A j \in 0 .. p : j \in 0 .. m
  BY <1>1, SMT DEF Before
<1>3. PICK next : next = s.next
  OBVIOUS
<1>4. Threads(next, level, list)
  BY <1>3
<1>5. \A j \in 0 .. m : At(list, j) \in DOMAIN next
  BY <1>1, <1>4 DEF Threads
<1>6. \A j \in 0 .. m : LET n == next[At(list, j)][level] IN
         /\ n # Nil /\ less(n, x) <=> j < p
         /\ j < p => n = At(list, j + 1) /\ j + 1 \in 0 .. p
  BY <1>1, <1>4, NextOf
<1>7. \E w : Walk(next, level, x, w)
  <2> DEFINE Passed(n) == \E j \in 0 .. p : n = At(list, j)
  <2>1. PICK w : w = [n \in DOMAIN next |-> IF Passed(n) THEN At(list, p) ELSE n]
    OBVIOUS
  <2>2. ASSUME NEW n \in DOMAIN next
        PROVE  w[n] = IF next[n][level] # Nil /\ less(next[n][level], x) THEN w[next[n][level]] ELSE n
    <3>1. CASE \E j \in 0 .. m : n = At(list, j)
      <4>1. PICK j \in 0 .. m : n = At(list, j)
        BY <3>1
      <4>2. CASE j < p
        <5>1. next[n][level] = At(list, j + 1) /\ j + 1 \in 0 .. p /\ less(next[n][level], x) /\ next[n][level] # Nil
          BY <1>6, <4>1, <4>2
        <5>2. j \in 0 .. p
          BY <1>1, <1>2, <4>2, SMT
        <5>3. At(list, j + 1) \in DOMAIN next /\ Passed(At(list, j + 1)) /\ Passed(n)
          BY <1>2, <1>5, <4>1, <5>1, <5>2
        <5> QED  BY <2>1, <5>1, <5>3
      <4>3. CASE ~ (j < p)
        <5>1. ~ (next[n][level] # Nil /\ less(next[n][level], x))
          BY <1>6, <4>1, <4>3
        <5>2. w[n] = n
          <6>1. CASE Passed(n)
            <7>1. PICK k \in 0 .. p : n = At(list, k)
              BY <6>1
            <7>2. k = j
              BY <1>1, <1>2, <4>1, <7>1, ListParts
            <7>3. j = p
              BY <1>1, <1>2, <4>3, <7>2, SMT
            <7> QED  BY <2>1, <4>1, <6>1, <7>3
          <6> QED  BY <2>1, <6>1
        <5> QED  BY <5>1, <5>2
      <4> QED  BY <4>2, <4>3
    <3>2. CASE ~ (\E j \in 0 .. m : n = At(list, j))
      <4>1. next[n][level] = Nil
        BY <1>1, <1>4, <3>2 DEF Threads
      <4>2. ~ Passed(n)
        BY <1>2, <3>2
      <4> QED  BY <2>1, <4>1, <4>2
    <3> QED  BY <3>1, <3>2
  <2> QED  BY <2>1, <2>2 DEF Walk
<1>8. PICK w : w = lastBefore(s, x, level) /\ Walk(next, level, x, w)
  BY <1>3, <1>7, LastBeforeIs
<1>9. \A n \in DOMAIN next :
         w[n] = IF next[n][level] # Nil /\ less(next[n][level], x) THEN w[next[n][level]] ELSE n
  BY <1>8 DEF Walk
<1> DEFINE S == {j \in 0 .. p : w[At(list, j)] = At(list, p)}
<1>10. p \in S
  <2>1. ~ (p < p) /\ p \in 0 .. p
    BY <1>2, SMT
  <2> QED  BY <1>2, <1>5, <1>6, <1>9, <2>1
<1>11. ASSUME NEW j \in 0 .. p, j > 0, j \in S PROVE j - 1 \in S
  <2>1. j - 1 \in 0 .. p /\ j - 1 < p /\ (j - 1) + 1 = j
    BY <1>2, <1>11, SMT
  <2> QED  BY <1>2, <1>5, <1>6, <1>9, <1>11, <2>1
<1> HIDE DEF S
<1>12. \A j \in 0 .. p : j \in S
  BY <1>2, <1>10, <1>11, CountDown
<1> QED  BY <1>8, <1>12 DEF S

\* The lists of all levels: each leaves out some nodes of the one below.
Lists(s, lists) ==
    /\ \A level \in Levels : Sorted(lists[level]) /\ Threads(s.next, level, lists[level])
    /\ \A level \in Levels : level > 1 => Nodes(lists[level]) \subseteq Nodes(lists[level - 1])
    /\ DOMAIN s.next = {HeadNode} \union Nodes(lists[1])

LEMMA LevelsParts ==
    /\ MaxHeight \in Nat /\ 1 \in Levels /\ MaxHeight \in Levels
    /\ \A level \in Levels : level \in Nat
    /\ \A level \in Levels : level # MaxHeight => level + 1 \in Levels
    /\ \A level \in Levels : level > 1 => level - 1 \in Levels
  BY SkipListAssumption, SMT DEF Levels

\* A node before x on a level is before x on the one below.
LEMMA LevelBelow ==
    ASSUME NEW s, NEW lists, Lists(s, lists), NEW x \in AnyItem, NEW level \in Levels, level > 1
    PROVE  \E i \in 0 .. Cut(lists[level - 1], x) :
              At(lists[level], Cut(lists[level], x)) = At(lists[level - 1], i)
<1>1. PICK upper : upper = lists[level]
  OBVIOUS
<1>2. PICK lower : lower = lists[level - 1]
  OBVIOUS
<1>3. Sorted(upper) /\ Sorted(lower)
  BY <1>1, <1>2, LevelsParts DEF Lists
<1>4. PICK p : p = Cut(upper, x)
  OBVIOUS
<1>5. PICK q : q = Cut(lower, x)
  OBVIOUS
<1>6. Before(upper, x, p) /\ Before(lower, x, q)
  BY <1>3, <1>4, <1>5, CutIs
<1>7. q \in Nat /\ 0 \in 0 .. q
  BY <1>3, <1>6, ListParts, SMT DEF Before
<1>8. CASE p = 0
  BY <1>1, <1>2, <1>4, <1>5, <1>7, <1>8 DEF At
<1>9. CASE p # 0
  <2>1. p \in 1 .. Len(upper) /\ p <= p
    BY <1>3, <1>6, <1>9, ListParts, SMT DEF Before
  <2>2. PICK j \in 1 .. Len(lower) : upper[p] = lower[j]
    <3>1. upper[p] \in Nodes(upper)
      BY <2>1 DEF Nodes
    <3>2. Nodes(lists[level]) \subseteq Nodes(lists[level - 1])
      BY DEF Lists
    <3>3. upper[p] \in Nodes(lower)
      BY <1>1, <1>2, <3>1, <3>2
    <3> QED  BY <3>3 DEF Nodes
  <2>3. less(upper[p], x)
    BY <1>6, <2>1 DEF Before
  <2>4. j <= q
    BY <1>6, <2>2, <2>3 DEF Before
  <2>5. j \in 0 .. q /\ j # 0
    BY <1>3, <1>7, <2>2, <2>4, ListParts, SMT
  <2> QED  BY <1>1, <1>2, <1>4, <1>5, <1>9, <2>2, <2>5 DEF At
<1> QED  BY <1>8, <1>9

Descends(s, x, u) ==
    u = [level \in Levels |->
            lastBefore(s, x, level)[IF level = MaxHeight THEN HeadNode ELSE u[level + 1]]]

\* On each level the search finds the last node before x.
LEMMA SearchIs ==
    ASSUME NEW s, NEW lists, Lists(s, lists), NEW x \in AnyItem, NEW level \in Levels
    PROVE  predecessors(s, x)[level] = At(lists[level], Cut(lists[level], x))
<1> DEFINE found(l) == At(lists[l], Cut(lists[l], x))
           start(u, l) == IF l = MaxHeight THEN HeadNode ELSE u[l + 1]
<1>1. ASSUME NEW l \in Levels, NEW n, n = HeadNode \/ (l # MaxHeight /\ n = found(l + 1))
      PROVE  lastBefore(s, x, l)[n] = found(l)
  <2>1. PICK list : list = lists[l]
    OBVIOUS
  <2>2. PICK p : p = Cut(list, x)
    OBVIOUS
  <2>3. Sorted(list) /\ Threads(s.next, l, list) /\ Before(list, x, p)
    BY <2>1, <2>2, CutIs DEF Lists
  <2>4. \E i \in 0 .. p : n = At(list, i)
    <3>1. CASE n = HeadNode
      <4>1. 0 \in 0 .. p
        BY <2>3, ListParts, SMT DEF Before
      <4> QED  BY <3>1, <4>1 DEF At
    <3>2. CASE l # MaxHeight /\ n = found(l + 1)
      <4>1. l + 1 \in Levels /\ l + 1 > 1 /\ (l + 1) - 1 = l
        BY <3>2, LevelsParts, SMT DEF Levels
      <4> QED  BY <2>1, <2>2, <3>2, <4>1, LevelBelow
    <3> QED  BY <1>1, <3>1, <3>2
  <2> QED  BY <2>1, <2>2, <2>3, <2>4, WalkIs
<1>2. \E u : Descends(s, x, u)
  <2>1. PICK u : u = [l \in Levels |-> found(l)]
    OBVIOUS
  <2>2. ASSUME NEW l \in Levels PROVE u[l] = lastBefore(s, x, l)[start(u, l)]
    <3>1. PICK n : n = start(u, l)
      OBVIOUS
    <3>2. n = HeadNode \/ (l # MaxHeight /\ n = found(l + 1))
      BY <2>1, <3>1, LevelsParts
    <3>3. lastBefore(s, x, l)[n] = found(l)
      BY <1>1, <3>2
    <3>4. u[l] = found(l)
      BY <2>1
    <3> QED  BY <3>1, <3>3, <3>4
  <2> QED  BY <2>1, <2>2 DEF Descends
<1>3. PICK u : u = predecessors(s, x) /\ Descends(s, x, u)
  <2> DEFINE Is(u) == u = [l \in Levels |-> lastBefore(s, x, l)[IF l = MaxHeight THEN HeadNode ELSE u[l + 1]]]
  <2>1. predecessors(s, x) = CHOOSE u : Is(u)
    BY DEF predecessors
  <2>2. \A u : Is(u) <=> Descends(s, x, u)
    BY DEF Descends
  <2>3. Is(predecessors(s, x))
    BY <1>2, <2>1, <2>2
  <2> QED  BY <2>2, <2>3
<1>4. \A l \in Levels : u[l] = lastBefore(s, x, l)[start(u, l)]
  BY <1>3 DEF Descends
<1> DEFINE S == {k \in 0 .. MaxHeight : k + 1 \in Levels => u[k + 1] = found(k + 1)}
<1>5. MaxHeight \in S
  <2>1. MaxHeight \in 0 .. MaxHeight /\ MaxHeight + 1 \notin Levels
    BY LevelsParts, SMT DEF Levels
  <2> QED  BY <2>1
<1>6. ASSUME NEW k \in 0 .. MaxHeight, k > 0, k \in S PROVE k - 1 \in S
  <2>1. k - 1 \in 0 .. MaxHeight /\ (k - 1) + 1 = k /\ k \in Levels
    BY <1>6, LevelsParts, SMT DEF Levels
  <2>2. start(u, k) = HeadNode \/ (k # MaxHeight /\ start(u, k) = found(k + 1))
    BY <1>6, <2>1, LevelsParts
  <2> QED  BY <1>1, <1>4, <2>1, <2>2
<1> HIDE DEF S
<1>7. \A k \in 0 .. MaxHeight : k \in S
  BY <1>5, <1>6, CountDown, LevelsParts
<1>8. level - 1 \in 0 .. MaxHeight /\ (level - 1) + 1 = level
  BY LevelsParts, SMT DEF Levels
<1> QED  BY <1>3, <1>7, <1>8 DEF S

-----------------------------------------------------------------------------
(* A node more and a node less on one level                                  *)

Inserted(list, x, p) ==
    [i \in 1 .. Len(list) + 1 |-> IF i <= p THEN list[i] ELSE IF i = p + 1 THEN x ELSE list[i - 1]]
Removed(list, p) == [i \in 1 .. Len(list) - 1 |-> IF i <= p THEN list[i] ELSE list[i + 1]]

LEMMA SeqOf ==
    ASSUME NEW n \in Nat, NEW S, NEW f \in [1 .. n -> S]
    PROVE  f \in Seq(S) /\ Len(f) = n
  OBVIOUS

LEMMA InsertedSorted ==
    ASSUME NEW list, Sorted(list), NEW x \in AnyItem, \A i \in 1 .. Len(list) : list[i] # x,
           NEW p, Before(list, x, p)
    PROVE  /\ Sorted(Inserted(list, x, p)) /\ Len(Inserted(list, x, p)) = Len(list) + 1
           /\ \A i \in 1 .. Len(list) + 1 :
                 Inserted(list, x, p)[i] =
                    IF i <= p THEN list[i] ELSE IF i = p + 1 THEN x ELSE list[i - 1]
           /\ Nodes(Inserted(list, x, p)) = Nodes(list) \union {x}
<1>1. PICK n \in Nat : n = Len(list)
  BY ListParts
<1>2. PICK new : new = Inserted(list, x, p)
  OBVIOUS
<1>3. new = [i \in 1 .. n + 1 |-> IF i <= p THEN list[i] ELSE IF i = p + 1 THEN x ELSE list[i - 1]]
  BY <1>1, <1>2 DEF Inserted
<1>4. p \in 0 .. n /\ \A i \in 1 .. n : less(list[i], x) <=> i <= p
  BY <1>1 DEF Before
<1>5. \A i \in 1 .. n + 1 : /\ i <= p => i \in 1 .. n
                            /\ ~ (i <= p) /\ i # p + 1 => i - 1 \in 1 .. n /\ ~ (i - 1 <= p)
  BY <1>1, <1>4, SMT
<1>6. \A i \in 1 .. n : list[i] \in AnyItem /\ (i <= p => less(list[i], x)) /\ (~ (i <= p) => less(x, list[i]))
  <2> TAKE i \in 1 .. n
  <2>1. list[i] \in AnyItem /\ list[i] # x
    BY <1>1, ListParts
  <2> QED  BY <1>4, <2>1, LessOrder
<1>7. new \in [1 .. n + 1 -> AnyItem]
  BY <1>3, <1>5, <1>6
<1>8. n + 1 \in Nat
  BY <1>1, SMT
<1>9. new \in Seq(AnyItem) /\ Len(new) = n + 1
  BY <1>7, <1>8, SeqOf
<1>10. ASSUME NEW i \in 1 .. n + 1, NEW j \in 1 .. n + 1, i < j PROVE less(new[i], new[j])
  <2>1. \A k, l \in 1 .. n : k < l => less(list[k], list[l])
    BY <1>1 DEF Sorted
  <2>2. CASE j <= p
    <3>1. i <= p
      BY <1>1, <1>4, <1>10, <2>2, SMT
    <3> QED  BY <1>3, <1>5, <1>10, <2>1, <2>2, <3>1
  <2>3. CASE j = p + 1
    <3>1. i <= p /\ ~ (j <= p)
      BY <1>1, <1>4, <1>10, <2>3, SMT
    <3> QED  BY <1>3, <1>5, <1>6, <2>3, <3>1
  <2>4. CASE ~ (j <= p) /\ j # p + 1
    <3>1. new[j] = list[j - 1] /\ j - 1 \in 1 .. n /\ ~ (j - 1 <= p)
      BY <1>3, <1>5, <2>4
    <3>2. CASE i <= p
      <4>1. i < j - 1
        BY <1>1, <1>4, <3>1, <3>2, SMT
      <4> QED  BY <1>3, <1>5, <2>1, <3>1, <3>2, <4>1
    <3>3. CASE i = p + 1
      <4>1. ~ (i <= p)
        BY <1>1, <1>4, <3>3, SMT
      <4> QED  BY <1>3, <1>6, <3>1, <3>3, <4>1
    <3>4. CASE ~ (i <= p) /\ i # p + 1
      <4>1. i - 1 < j - 1
        BY <1>10, SMT
      <4> QED  BY <1>3, <1>5, <2>1, <3>1, <3>4, <4>1
    <3> QED  BY <3>2, <3>3, <3>4
  <2> QED  BY <2>2, <2>3, <2>4
<1>11. {new[i] : i \in 1 .. n + 1} = {list[i] : i \in 1 .. n} \union {x}
  <2>1. \A i \in 1 .. n + 1 : new[i] \in {list[k] : k \in 1 .. n} \union {x}
    BY <1>3, <1>5
  <2>2. x \in {new[i] : i \in 1 .. n + 1}
    <3>1. p + 1 \in 1 .. n + 1 /\ ~ (p + 1 <= p)
      BY <1>1, <1>4, SMT
    <3> QED  BY <1>3, <3>1
  <2>3. ASSUME NEW k \in 1 .. n PROVE \E i \in 1 .. n + 1 : new[i] = list[k]
    <3>1. CASE k <= p
      <4>1. k \in 1 .. n + 1
        BY <1>1, SMT
      <4> QED  BY <1>3, <3>1, <4>1
    <3>2. CASE ~ (k <= p)
      <4>1. k + 1 \in 1 .. n + 1 /\ ~ (k + 1 <= p) /\ k + 1 # p + 1 /\ (k + 1) - 1 = k
        BY <1>1, <1>4, <3>2, SMT
      <4> QED  BY <1>3, <4>1
    <3> QED  BY <3>1, <3>2
  <2> QED  BY <2>1, <2>2, <2>3
<1>12. Sorted(new)
  BY <1>9, <1>10 DEF Sorted
<1>13. \A i \in 1 .. n + 1 : new[i] = IF i <= p THEN list[i] ELSE IF i = p + 1 THEN x ELSE list[i - 1]
  BY <1>3
<1>14. Len(new) = n + 1
  BY <1>9
<1>15. Nodes(new) = Nodes(list) \union {x}
  BY <1>1, <1>11, <1>14 DEF Nodes
<1> QED  BY <1>1, <1>2, <1>12, <1>13, <1>14, <1>15

LEMMA RemovedSorted ==
    ASSUME NEW list, Sorted(list), NEW p \in Nat, p + 1 \in 1 .. Len(list)
    PROVE  /\ Sorted(Removed(list, p)) /\ Len(Removed(list, p)) = Len(list) - 1
           /\ \A i \in 1 .. Len(list) - 1 :
                 Removed(list, p)[i] = IF i <= p THEN list[i] ELSE list[i + 1]
           /\ Nodes(Removed(list, p)) = Nodes(list) \ {list[p + 1]}
<1>1. PICK n \in Nat : n = Len(list)
  BY ListParts
<1>2. PICK new : new = Removed(list, p)
  OBVIOUS
<1>3. new = [i \in 1 .. n - 1 |-> IF i <= p THEN list[i] ELSE list[i + 1]]
  BY <1>1, <1>2 DEF Removed
<1>4. \A i \in 1 .. n - 1 : i \in 1 .. n /\ i + 1 \in 1 .. n
  BY <1>1, SMT
<1>5. \A i \in 1 .. n : list[i] \in AnyItem
  BY <1>1, ListParts
<1>6. new \in [1 .. n - 1 -> AnyItem]
  BY <1>3, <1>4, <1>5
<1>7. n - 1 \in Nat
  BY <1>1, SMT
<1>8. new \in Seq(AnyItem) /\ Len(new) = n - 1
  BY <1>6, <1>7, SeqOf
<1>9. ASSUME NEW i \in 1 .. n - 1, NEW j \in 1 .. n - 1, i < j PROVE less(new[i], new[j])
  <2>1. \A k, l \in 1 .. n : k < l => less(list[k], list[l])
    BY <1>1 DEF Sorted
  <2>2. i < j + 1 /\ i + 1 < j + 1 /\ (j <= p => i <= p)
    BY <1>9, SMT
  <2> QED  BY <1>3, <1>4, <1>9, <2>1, <2>2
<1>10. {new[i] : i \in 1 .. n - 1} = {list[i] : i \in 1 .. n} \ {list[p + 1]}
  <2>1. \A k, l \in 1 .. n : k # l => list[k] # list[l]
    <3> TAKE k, l \in 1 .. n
    <3>1. k \in 0 .. n /\ l \in 0 .. n /\ k # 0 /\ l # 0
      BY <1>1, SMT
    <3> QED  BY <1>1, <3>1, ListParts DEF At
  <2>2. ASSUME NEW i \in 1 .. n - 1 PROVE new[i] \in {list[k] : k \in 1 .. n} \ {list[p + 1]}
    <3>1. CASE i <= p
      <4>1. i # p + 1
        BY <3>1, SMT
      <4> QED  BY <1>1, <1>3, <1>4, <2>1, <3>1, <4>1
    <3>2. CASE ~ (i <= p)
      <4>1. i + 1 # p + 1
        BY <3>2, SMT
      <4> QED  BY <1>1, <1>3, <1>4, <2>1, <3>2, <4>1
    <3> QED  BY <3>1, <3>2
  <2>3. ASSUME NEW k \in 1 .. n, k # p + 1 PROVE \E i \in 1 .. n - 1 : new[i] = list[k]
    <3>1. CASE k <= p
      <4>1. k \in 1 .. n - 1
        BY <1>1, <3>1, SMT
      <4> QED  BY <1>3, <3>1, <4>1
    <3>2. CASE ~ (k <= p)
      <4>1. k - 1 \in 1 .. n - 1 /\ ~ (k - 1 <= p) /\ (k - 1) + 1 = k
        BY <1>1, <2>3, <3>2, SMT
      <4> QED  BY <1>3, <4>1
    <3> QED  BY <3>1, <3>2
  <2> QED  BY <2>2, <2>3
<1>11. Sorted(new)
  BY <1>8, <1>9 DEF Sorted
<1>12. \A i \in 1 .. n - 1 : new[i] = IF i <= p THEN list[i] ELSE list[i + 1]
  BY <1>3
<1>13. Len(new) = n - 1
  BY <1>8
<1>14. Nodes(new) = Nodes(list) \ {list[p + 1]}
  BY <1>1, <1>10, <1>13 DEF Nodes
<1> QED  BY <1>1, <1>2, <1>11, <1>12, <1>13, <1>14

LEMMA InsertedThreads ==
    ASSUME NEW next, NEW level, NEW list, Sorted(list), Threads(next, level, list),
           NEW x \in AnyItem, x \notin DOMAIN next, NEW p, Before(list, x, p),
           NEW new, DOMAIN new = DOMAIN next \union {x},
           \A n \in DOMAIN new :
              new[n][level] = IF n = x THEN next[At(list, p)][level]
                              ELSE IF n = At(list, p) THEN x ELSE next[n][level]
    PROVE  Threads(new, level, Inserted(list, x, p))
<1>1. PICK m \in Nat : m = Len(list)
  BY ListParts
<1>2. PICK longer : longer = Inserted(list, x, p)
  OBVIOUS
<1>3. /\ \A i \in 0 .. m : At(list, i) \in DOMAIN next
      /\ \A i \in 0 .. m : next[At(list, i)][level] = IF i = m THEN Nil ELSE list[i + 1]
      /\ \A n \in DOMAIN next : (\A i \in 0 .. m : n # At(list, i)) => next[n][level] = Nil
  BY <1>1 DEF Threads
<1>4. p \in 0 .. m
  BY <1>1 DEF Before
<1>5. \A i \in 1 .. m : list[i] # x
  <2> TAKE i \in 1 .. m
  <2>1. i \in 0 .. m /\ i # 0
    BY <1>1, SMT
  <2> QED  BY <1>3, <2>1 DEF At
<1>6. /\ Sorted(longer) /\ Len(longer) = m + 1
      /\ \A i \in 1 .. m + 1 :
            longer[i] = IF i <= p THEN list[i] ELSE IF i = p + 1 THEN x ELSE list[i - 1]
  BY <1>1, <1>2, <1>5, InsertedSorted
<1>7. \A i \in 0 .. m + 1 :
         /\ i <= p => i \in 0 .. m /\ At(longer, i) = At(list, i)
         /\ i = p + 1 => At(longer, i) = x
         /\ ~ (i <= p) /\ i # p + 1 => i - 1 \in 0 .. m /\ ~ (i - 1 <= p) /\ At(longer, i) = At(list, i - 1)
  <2> TAKE i \in 0 .. m + 1
  <2>1. CASE i = 0
    <3>1. i <= p /\ i # p + 1 /\ i \in 0 .. m
      BY <1>1, <1>4, <2>1, SMT
    <3> QED  BY <2>1, <3>1 DEF At
  <2>2. CASE i # 0
    <3>1. /\ i \in 1 .. m + 1 /\ (i <= p => i \in 0 .. m)
          /\ i = p + 1 => ~ (i <= p)
          /\ ~ (i <= p) /\ i # p + 1 => i - 1 \in 0 .. m /\ ~ (i - 1 <= p) /\ i - 1 # 0
      BY <1>1, <1>4, <2>2, SMT
    <3> QED  BY <1>6, <2>2, <3>1 DEF At
  <2> QED  BY <2>1, <2>2
<1>8. \A i, j \in 0 .. m : At(list, i) = At(list, j) => i = j
  BY <1>1, ListParts
<1>9. \A i \in 0 .. m : At(list, i) # x
  BY <1>3
<1>10. ASSUME NEW i \in 0 .. m + 1
       PROVE  /\ At(longer, i) \in DOMAIN new
              /\ new[At(longer, i)][level] = IF i = m + 1 THEN Nil ELSE longer[i + 1]
  <2>1. i # m + 1 => i + 1 \in 0 .. m + 1 /\ i + 1 # 0
    BY <1>1, SMT
  <2>2. i # m + 1 => longer[i + 1] = At(longer, i + 1)
    BY <2>1 DEF At
  <2>3. CASE i <= p /\ i # p
    <3>1. i \in 0 .. m /\ i # m /\ i # m + 1 /\ i + 1 <= p /\ i + 1 # 0
      BY <1>1, <1>4, <2>3, SMT
    <3>2. At(longer, i) = At(list, i) /\ At(list, i) # At(list, p) /\ At(list, i) \in DOMAIN next
      BY <1>3, <1>4, <1>7, <1>8, <2>3, <3>1
    <3>3. new[At(longer, i)][level] = list[i + 1]
      BY <1>3, <1>9, <3>1, <3>2
    <3>4. longer[i + 1] = list[i + 1]
      BY <1>7, <2>1, <2>2, <3>1 DEF At
    <3> QED  BY <3>1, <3>2, <3>3, <3>4
  <2>4. CASE i = p
    <3>1. i \in 0 .. m /\ i <= p /\ i # m + 1
      BY <1>1, <1>4, <2>4, SMT
    <3>2. At(longer, i) = At(list, p) /\ At(list, p) \in DOMAIN next
      BY <1>3, <1>4, <1>7, <2>4, <3>1
    <3>3. new[At(longer, i)][level] = x
      BY <1>4, <1>9, <3>2
    <3>4. longer[i + 1] = x
      BY <1>7, <2>1, <2>2, <2>4, <3>1
    <3> QED  BY <3>1, <3>2, <3>3, <3>4
  <2>5. CASE i = p + 1
    <3>1. At(longer, i) = x
      BY <1>7, <2>5
    <3>2. new[At(longer, i)][level] = next[At(list, p)][level]
      BY <3>1
    <3>3. next[At(list, p)][level] = IF p = m THEN Nil ELSE list[p + 1]
      BY <1>3, <1>4
    <3>4. i = m + 1 <=> p = m
      BY <1>1, <1>4, <2>5, SMT
    <3>5. i # m + 1 => ~ (i + 1 <= p) /\ i + 1 # p + 1 /\ (i + 1) - 1 = p + 1 /\ p + 1 # 0
      BY <1>1, <1>4, <2>5, SMT
    <3>6. i # m + 1 => longer[i + 1] = list[p + 1]
      BY <1>7, <2>1, <2>2, <3>5 DEF At
    <3> QED  BY <3>1, <3>2, <3>3, <3>4, <3>6
  <2>6. CASE ~ (i <= p) /\ i # p + 1
    <3>1. At(longer, i) = At(list, i - 1) /\ i - 1 \in 0 .. m /\ i - 1 # p
      BY <1>4, <1>7, <2>6, SMT
    <3>2. At(list, i - 1) # At(list, p) /\ At(list, i - 1) \in DOMAIN next
      BY <1>3, <1>4, <1>8, <3>1
    <3>3. new[At(longer, i)][level] = next[At(list, i - 1)][level]
      BY <1>9, <3>1, <3>2
    <3>4. next[At(list, i - 1)][level] = IF i - 1 = m THEN Nil ELSE list[(i - 1) + 1]
      BY <1>3, <3>1
    <3>5. (i - 1 = m <=> i = m + 1) /\ (i - 1) + 1 = i /\ i # 0
      BY <1>1, <1>4, <2>6, SMT
    <3>6. i # m + 1 => ~ (i + 1 <= p) /\ i + 1 # p + 1 /\ (i + 1) - 1 = i
      BY <1>1, <1>4, <2>6, SMT
    <3>7. i # m + 1 => longer[i + 1] = list[i]
      BY <1>7, <2>1, <2>2, <3>5, <3>6 DEF At
    <3> QED  BY <3>1, <3>2, <3>3, <3>4, <3>5, <3>7
  <2> QED  BY <1>4, <2>3, <2>4, <2>5, <2>6
<1>11. ASSUME NEW n \in DOMAIN new, \A i \in 0 .. m + 1 : n # At(longer, i) PROVE new[n][level] = Nil
  <2>1. n # x
    <3>1. p + 1 \in 0 .. m + 1
      BY <1>1, <1>4, SMT
    <3> QED  BY <1>7, <1>11, <3>1
  <2>2. \A i \in 0 .. m : n # At(list, i)
    <3> TAKE i \in 0 .. m
    <3>1. CASE i <= p
      <4>1. i \in 0 .. m + 1
        BY <1>1, SMT
      <4> QED  BY <1>7, <1>11, <3>1, <4>1
    <3>2. CASE ~ (i <= p)
      <4>1. i + 1 \in 0 .. m + 1 /\ ~ (i + 1 <= p) /\ i + 1 # p + 1 /\ (i + 1) - 1 = i
        BY <1>1, <1>4, <3>2, SMT
      <4> QED  BY <1>7, <1>11, <4>1
    <3> QED  BY <3>1, <3>2
  <2> QED  BY <1>3, <1>4, <2>1, <2>2
<1>12. Threads(new, level, longer)
  BY <1>6, <1>10, <1>11 DEF Threads
<1> QED  BY <1>2, <1>12

LEMMA RemovedThreads ==
    ASSUME NEW next, NEW level, NEW list, Sorted(list), Threads(next, level, list),
           NEW p \in Nat, p + 1 \in 1 .. Len(list),
           NEW new, DOMAIN new = DOMAIN next \ {list[p + 1]},
           \A n \in DOMAIN new :
              new[n][level] = IF n = At(list, p) THEN next[list[p + 1]][level] ELSE next[n][level]
    PROVE  Threads(new, level, Removed(list, p))
<1>1. PICK m \in Nat : m = Len(list)
  BY ListParts
<1>2. PICK shorter : shorter = Removed(list, p)
  OBVIOUS
<1>3. /\ \A i \in 0 .. m : At(list, i) \in DOMAIN next
      /\ \A i \in 0 .. m : next[At(list, i)][level] = IF i = m THEN Nil ELSE list[i + 1]
      /\ \A n \in DOMAIN next : (\A i \in 0 .. m : n # At(list, i)) => next[n][level] = Nil
  BY <1>1 DEF Threads
<1>4. p \in 0 .. m /\ p + 1 \in 0 .. m /\ p # p + 1 /\ p + 1 # 0 /\ m - 1 \in Nat
  BY <1>1, SMT
<1>5. At(list, p + 1) = list[p + 1]
  BY <1>4 DEF At
<1>6. /\ Sorted(shorter) /\ Len(shorter) = m - 1
      /\ \A i \in 1 .. m - 1 : shorter[i] = IF i <= p THEN list[i] ELSE list[i + 1]
  BY <1>1, <1>2, RemovedSorted
<1>7. \A i \in 0 .. m - 1 :
         /\ i <= p => i \in 0 .. m /\ i # p + 1 /\ At(shorter, i) = At(list, i)
         /\ ~ (i <= p) => i + 1 \in 0 .. m /\ i + 1 # p /\ i + 1 # p + 1
                          /\ At(shorter, i) = At(list, i + 1)
  <2> TAKE i \in 0 .. m - 1
  <2>1. CASE i = 0
    <3>1. i <= p /\ i # p + 1 /\ i \in 0 .. m
      BY <1>1, <1>4, <2>1, SMT
    <3> QED  BY <2>1, <3>1 DEF At
  <2>2. CASE i # 0
    <3>1. /\ i \in 1 .. m - 1 /\ i + 1 # 0
          /\ i <= p => i \in 0 .. m /\ i # p + 1
          /\ ~ (i <= p) => i + 1 \in 0 .. m /\ i + 1 # p /\ i + 1 # p + 1
      BY <1>1, <1>4, <2>2, SMT
    <3> QED  BY <1>6, <2>2, <3>1 DEF At
  <2> QED  BY <2>1, <2>2
<1>8. \A i, j \in 0 .. m : At(list, i) = At(list, j) => i = j
  BY <1>1, ListParts
<1>9. \A i \in 0 .. m : i # p + 1 => At(list, i) \in DOMAIN new
  BY <1>3, <1>4, <1>5, <1>8
<1>10. ASSUME NEW i \in 0 .. m - 1
       PROVE  /\ At(shorter, i) \in DOMAIN new
              /\ new[At(shorter, i)][level] = IF i = m - 1 THEN Nil ELSE shorter[i + 1]
  <2>1. i # m - 1 => i + 1 \in 0 .. m - 1 /\ i + 1 # 0
    BY <1>1, SMT
  <2>2. i # m - 1 => shorter[i + 1] = At(shorter, i + 1)
    BY <2>1 DEF At
  <2>3. CASE i <= p /\ i # p
    <3>1. i \in 0 .. m /\ i # p + 1 /\ i # m /\ i # m - 1 /\ i + 1 <= p /\ i + 1 # 0
      BY <1>1, <1>4, <2>3, SMT
    <3>2. At(shorter, i) = At(list, i) /\ At(list, i) # At(list, p) /\ At(list, i) \in DOMAIN new
      BY <1>4, <1>7, <1>8, <1>9, <2>3, <3>1
    <3>3. new[At(shorter, i)][level] = list[i + 1]
      BY <1>3, <3>1, <3>2
    <3>4. shorter[i + 1] = list[i + 1]
      BY <1>7, <2>1, <2>2, <3>1 DEF At
    <3> QED  BY <3>1, <3>2, <3>3, <3>4
  <2>4. CASE i = p
    <3>1. i <= p /\ (i = m - 1 <=> p + 1 = m)
      BY <1>1, <1>4, <2>4, SMT
    <3>2. At(shorter, i) = At(list, p) /\ At(list, p) \in DOMAIN new
      BY <1>4, <1>7, <1>9, <2>4, <3>1
    <3>3. new[At(shorter, i)][level] = IF p + 1 = m THEN Nil ELSE list[(p + 1) + 1]
      BY <1>3, <1>4, <1>5, <3>2
    <3>4. i # m - 1 => ~ (i + 1 <= p) /\ (i + 1) + 1 = (p + 1) + 1 /\ (p + 1) + 1 # 0
      BY <1>4, <2>4, SMT
    <3>5. i # m - 1 => shorter[i + 1] = list[(p + 1) + 1]
      BY <1>7, <2>1, <2>2, <3>4 DEF At
    <3> QED  BY <3>1, <3>2, <3>3, <3>5
  <2>5. CASE ~ (i <= p)
    <3>1. At(shorter, i) = At(list, i + 1) /\ i + 1 \in 0 .. m /\ i + 1 # p /\ i + 1 # p + 1
      BY <1>7, <2>5
    <3>2. At(list, i + 1) # At(list, p) /\ At(list, i + 1) \in DOMAIN new
      BY <1>4, <1>8, <1>9, <3>1
    <3>3. new[At(shorter, i)][level] = IF i + 1 = m THEN Nil ELSE list[(i + 1) + 1]
      BY <1>3, <3>1, <3>2
    <3>4. (i + 1 = m <=> i = m - 1) /\ (i + 1) + 1 # 0
      BY <1>1, SMT
    <3>5. i # m - 1 => ~ (i + 1 <= p)
      BY <1>4, <2>5, SMT
    <3>6. i # m - 1 => shorter[i + 1] = list[(i + 1) + 1]
      BY <1>7, <2>1, <2>2, <3>4, <3>5 DEF At
    <3> QED  BY <3>1, <3>2, <3>3, <3>4, <3>6
  <2> QED  BY <2>3, <2>4, <2>5
<1>11. ASSUME NEW n \in DOMAIN new, \A i \in 0 .. m - 1 : n # At(shorter, i) PROVE new[n][level] = Nil
  <2>1. \A i \in 0 .. m : n # At(list, i)
    <3> TAKE i \in 0 .. m
    <3>1. CASE i = p + 1
      BY <1>5, <3>1
    <3>2. CASE i <= p
      <4>1. i \in 0 .. m - 1
        BY <1>1, <1>4, <3>2, SMT
      <4> QED  BY <1>7, <1>11, <3>2, <4>1
    <3>3. CASE ~ (i <= p) /\ i # p + 1
      <4>1. i - 1 \in 0 .. m - 1 /\ ~ (i - 1 <= p) /\ (i - 1) + 1 = i
        BY <1>1, <1>4, <3>3, SMT
      <4> QED  BY <1>7, <1>11, <4>1
    <3> QED  BY <3>1, <3>2, <3>3
  <2> QED  BY <1>3, <1>4, <2>1
<1>12. Threads(new, level, shorter)
  BY <1>6, <1>10, <1>11 DEF Threads
<1> QED  BY <1>2, <1>12

\* A level that a node is not on stays as it is.
LEMMA SameThreads ==
    ASSUME NEW next, NEW level, NEW list, Sorted(list), Threads(next, level, list), NEW x,
           NEW new, \A i \in 0 .. Len(list) : At(list, i) \in DOMAIN new,
           \A n \in DOMAIN new \ {x} : n \in DOMAIN next /\ new[n][level] = next[n][level],
           \A i \in 0 .. Len(list) : At(list, i) # x,
           x \in DOMAIN new => new[x][level] = Nil
    PROVE  Threads(new, level, list)
<1>1. PICK m \in Nat : m = Len(list)
  BY ListParts
<1>2. /\ \A i \in 0 .. m : next[At(list, i)][level] = IF i = m THEN Nil ELSE list[i + 1]
      /\ \A n \in DOMAIN next : (\A i \in 0 .. m : n # At(list, i)) => next[n][level] = Nil
  BY <1>1 DEF Threads
<1>3. \A i \in 0 .. m : /\ At(list, i) \in DOMAIN new
                        /\ new[At(list, i)][level] = IF i = m THEN Nil ELSE list[i + 1]
  BY <1>1, <1>2
<1>4. \A n \in DOMAIN new : (\A i \in 0 .. m : n # At(list, i)) => new[n][level] = Nil
  BY <1>1, <1>2
<1> QED  BY <1>1, <1>3, <1>4 DEF Threads

-----------------------------------------------------------------------------
(* A node more and a node less on all levels                                 *)

\* All nodes of a level are nodes of the levels below it, and no other nodes are.
LEMMA ListNodes ==
    ASSUME NEW s, NEW lists, Lists(s, lists), NEW level \in Levels
    PROVE  /\ Sorted(lists[level]) /\ Threads(s.next, level, lists[level])
           /\ \A i \in 0 .. Len(lists[level]) : At(lists[level], i) \in DOMAIN s.next
           /\ \A i \in 1 .. Len(lists[level]) : lists[level][i] \in DOMAIN s.next
<1>1. Sorted(lists[level]) /\ Threads(s.next, level, lists[level])
  BY DEF Lists
<1>2. \A i \in 0 .. Len(lists[level]) : At(lists[level], i) \in DOMAIN s.next
  BY <1>1 DEF Threads
<1>3. \A i \in 1 .. Len(lists[level]) : i \in 0 .. Len(lists[level]) /\ i # 0
  BY <1>1, ListParts, SMT
<1> QED  BY <1>1, <1>2, <1>3 DEF At

LEMMA LinkLists ==
    ASSUME NEW s, NEW lists, Lists(s, lists), NEW x \in AnyItem, x \notin DOMAIN s.next,
           NEW h \in Levels
    PROVE  /\ Lists(Link(s, x, h),
                    [level \in Levels |-> IF level <= h THEN Inserted(lists[level], x, Cut(lists[level], x))
                                          ELSE lists[level]])
           /\ Link(s, x, h).members = Scored(s.members, x.member, x)
           /\ Link(s, x, h).length = s.length + 1
<1>1. PICK r : r = Link(s, x, h)
  OBVIOUS
<1>2. PICK new : new = r.next
  OBVIOUS
<1>3. PICK next : next = s.next
  OBVIOUS
<1>4. PICK update : update = predecessors(s, x)
  OBVIOUS
<1> DEFINE pointer(n, level) ==
               IF n = x THEN IF level <= h THEN next[update[level]][level] ELSE Nil
               ELSE IF level <= h /\ n = update[level] THEN x ELSE next[n][level]
<1>5. r = [next |-> [n \in DOMAIN next \union {x} |-> [level \in Levels |-> pointer(n, level)]],
           members |-> Scored(s.members, x.member, x), length |-> s.length + 1]
  BY <1>1, <1>3, <1>4 DEF Link
<1>6. new = [n \in DOMAIN next \union {x} |-> [level \in Levels |-> pointer(n, level)]]
  BY <1>2, <1>5
<1> HIDE DEF pointer
<1>7. DOMAIN new = DOMAIN next \union {x}
  BY <1>6
<1>8. \A n \in DOMAIN new, level \in Levels : new[n][level] = pointer(n, level)
  BY <1>6
<1>9. PICK lists2 : lists2 = [level \in Levels |->
                                IF level <= h THEN Inserted(lists[level], x, Cut(lists[level], x))
                                ELSE lists[level]]
  OBVIOUS
<1>10. ASSUME NEW level \in Levels
       PROVE  /\ Sorted(lists2[level]) /\ Threads(new, level, lists2[level])
              /\ Nodes(lists2[level]) = IF level <= h THEN Nodes(lists[level]) \union {x}
                                        ELSE Nodes(lists[level])
  <2>1. PICK list : list = lists[level]
    OBVIOUS
  <2>2. PICK p : p = Cut(list, x)
    OBVIOUS
  <2>3. /\ Sorted(list) /\ Threads(next, level, list)
        /\ \A i \in 0 .. Len(list) : At(list, i) \in DOMAIN next /\ At(list, i) # x
        /\ \A i \in 1 .. Len(list) : list[i] # x
    BY <1>3, <2>1, ListNodes
  <2>4. CASE level <= h
    <3>1. Before(list, x, p)
      BY <2>2, <2>3, CutIs
    <3>2. update[level] = At(list, p)
      BY <1>4, <2>1, <2>2, SearchIs
    <3>3. \A n \in DOMAIN new :
             new[n][level] = IF n = x THEN next[At(list, p)][level]
                             ELSE IF n = At(list, p) THEN x ELSE next[n][level]
      BY <1>8, <2>4, <3>2 DEF pointer
    <3>4. lists2[level] = Inserted(list, x, p)
      BY <1>9, <2>1, <2>2, <2>4
    <3>5. Threads(new, level, Inserted(list, x, p))
      BY <1>3, <1>7, <2>3, <3>1, <3>3, InsertedThreads
    <3>6. Sorted(Inserted(list, x, p)) /\ Nodes(Inserted(list, x, p)) = Nodes(list) \union {x}
      BY <2>3, <3>1, InsertedSorted
    <3> QED  BY <2>1, <2>4, <3>4, <3>5, <3>6
  <2>5. CASE ~ (level <= h)
    <3>1. \A n \in DOMAIN new : new[n][level] = IF n = x THEN Nil ELSE next[n][level]
      BY <1>8, <2>5 DEF pointer
    <3>2. lists2[level] = list
      BY <1>9, <2>1, <2>5
    <3>3. Threads(new, level, list)
      BY <1>7, <2>3, <3>1, SameThreads
    <3> QED  BY <2>1, <2>3, <2>5, <3>2, <3>3
  <2> QED  BY <2>4, <2>5
<1>11. ASSUME NEW level \in Levels, level > 1
       PROVE  Nodes(lists2[level]) \subseteq Nodes(lists2[level - 1])
  <2>1. level - 1 \in Levels /\ (level <= h => level - 1 <= h)
    BY <1>11, LevelsParts, SMT DEF Levels
  <2>2. Nodes(lists[level]) \subseteq Nodes(lists[level - 1])
    BY <1>11 DEF Lists
  <2> QED  BY <1>10, <2>1, <2>2
<1>12. DOMAIN new = {HeadNode} \union Nodes(lists2[1])
  <2>1. 1 \in Levels /\ 1 <= h
    BY LevelsParts, SMT DEF Levels
  <2>2. DOMAIN next = {HeadNode} \union Nodes(lists[1])
    BY <1>3 DEF Lists
  <2> QED  BY <1>7, <1>10, <2>1, <2>2
<1>13. Lists(r, lists2)
  BY <1>2, <1>10, <1>11, <1>12 DEF Lists
<1> QED  BY <1>1, <1>5, <1>9, <1>13

LEMMA CutAt ==
    ASSUME NEW list, Sorted(list), NEW x \in Nodes(list)
    PROVE  LET p == Cut(list, x) IN p \in Nat /\ p + 1 \in 1 .. Len(list) /\ list[p + 1] = x
<1>1. PICK m \in Nat : m = Len(list)
  BY ListParts
<1>2. PICK k \in 1 .. m : list[k] = x
  BY <1>1 DEF Nodes
<1>3. PICK p : p = Cut(list, x)
  OBVIOUS
<1>4. p \in 0 .. m /\ \A i \in 1 .. m : less(list[i], x) <=> i <= p
  BY <1>1, <1>2, <1>3, ListParts, CutIs DEF Before
<1>5. \A i \in 1 .. m : less(list[i], x) <=> i < k
  <2> TAKE i \in 1 .. m
  <2>1. list[i] \in AnyItem /\ list[k] \in AnyItem
    BY <1>1, <1>2, ListParts
  <2>2. i < k => less(list[i], x)
    BY <1>1, <1>2 DEF Sorted
  <2>3. k < i => less(x, list[i])
    BY <1>1, <1>2 DEF Sorted
  <2>4. i = k \/ i < k \/ k < i
    BY SMT
  <2>5. i = k => ~ (i < k)
    BY SMT
  <2>6. k < i => ~ (i < k)
    BY SMT
  <2> QED  BY <1>2, <2>1, <2>2, <2>3, <2>4, <2>5, <2>6, LessOrder
<1>6. p = k - 1
  <2>1. ~ (k <= p)
    <3>1. ~ (k < k)
      BY SMT
    <3> QED  BY <1>2, <1>4, <1>5, <3>1
  <2>2. ASSUME p < k - 1 PROVE FALSE
    <3>1. p + 1 \in 1 .. m /\ p + 1 < k /\ ~ (p + 1 <= p)
      BY <1>1, <1>2, <1>4, <2>2, SMT
    <3> QED  BY <1>4, <1>5, <3>1
  <2> QED  BY <1>1, <1>2, <1>4, <2>1, <2>2, SMT
<1>7. p \in Nat /\ p + 1 = k
  BY <1>1, <1>2, <1>6, SMT
<1> QED  BY <1>1, <1>2, <1>3, <1>7

LEMMA UnlinkLists ==
    ASSUME NEW s, NEW lists, Lists(s, lists), NEW x \in Nodes(lists[1])
    PROVE  /\ Lists(Unlink(s, x),
                    [level \in Levels |-> IF x \in Nodes(lists[level])
                                          THEN Removed(lists[level], Cut(lists[level], x))
                                          ELSE lists[level]])
           /\ Unlink(s, x).members = Unscored(s.members, x.member)
           /\ Unlink(s, x).length = s.length - 1
<1>1. PICK r : r = Unlink(s, x)
  OBVIOUS
<1>2. PICK new : new = r.next
  OBVIOUS
<1>3. PICK next : next = s.next
  OBVIOUS
<1>4. PICK update : update = predecessors(s, x)
  OBVIOUS
<1> DEFINE pointer(n, level) ==
               IF n = update[level] /\ next[n][level] = x THEN next[x][level] ELSE next[n][level]
<1>5. r = [next |-> [n \in DOMAIN next \ {x} |-> [level \in Levels |-> pointer(n, level)]],
           members |-> Unscored(s.members, x.member), length |-> s.length - 1]
  BY <1>1, <1>3, <1>4 DEF Unlink
<1>6. new = [n \in DOMAIN next \ {x} |-> [level \in Levels |-> pointer(n, level)]]
  BY <1>2, <1>5
<1> HIDE DEF pointer
<1>7. DOMAIN new = DOMAIN next \ {x}
  BY <1>6
<1>8. \A n \in DOMAIN new, level \in Levels : new[n][level] = pointer(n, level)
  BY <1>6
<1>9. PICK lists2 : lists2 = [level \in Levels |->
                                IF x \in Nodes(lists[level])
                                THEN Removed(lists[level], Cut(lists[level], x))
                                ELSE lists[level]]
  OBVIOUS
<1>10. x \in AnyItem /\ x # HeadNode /\ x # Nil
  BY LevelsParts, ListNodes, ListParts DEF Nodes
<1>11. ASSUME NEW level \in Levels
       PROVE  /\ Sorted(lists2[level]) /\ Threads(new, level, lists2[level])
              /\ Nodes(lists2[level]) = Nodes(lists[level]) \ {x}
  <2>1. PICK list : list = lists[level]
    OBVIOUS
  <2>2. PICK p : p = Cut(list, x)
    OBVIOUS
  <2>3. /\ Sorted(list) /\ Threads(next, level, list)
        /\ \A i \in 0 .. Len(list) : At(list, i) \in DOMAIN next
    BY <1>3, <2>1, ListNodes
  <2>4. update[level] = At(list, p)
    BY <1>4, <1>10, <2>1, <2>2, SearchIs
  <2>5. Before(list, x, p)
    BY <1>10, <2>2, <2>3, CutIs
  <2>6. p \in 0 .. Len(list)
    BY <2>5 DEF Before
  <2>7. next[At(list, p)][level] = IF p = Len(list) THEN Nil ELSE list[p + 1]
    BY <2>3, <2>6 DEF Threads
  <2>8. CASE x \in Nodes(list)
    <3>1. p \in Nat /\ p + 1 \in 1 .. Len(list) /\ list[p + 1] = x
      BY <2>2, <2>3, <2>8, CutAt
    <3>2. p # Len(list)
      BY <2>3, <3>1, ListParts, SMT
    <3>3. next[At(list, p)][level] = x
      BY <2>7, <3>1, <3>2
    <3>4. \A n \in DOMAIN new :
             new[n][level] = IF n = At(list, p) THEN next[list[p + 1]][level] ELSE next[n][level]
      BY <1>8, <2>4, <3>1, <3>3 DEF pointer
    <3>5. lists2[level] = Removed(list, p)
      BY <1>9, <2>1, <2>2, <2>8
    <3>6. Threads(new, level, Removed(list, p))
      BY <1>7, <2>3, <3>1, <3>4, RemovedThreads
    <3>7. Sorted(Removed(list, p)) /\ Nodes(Removed(list, p)) = Nodes(list) \ {x}
      BY <2>3, <3>1, RemovedSorted
    <3> QED  BY <2>1, <3>5, <3>6, <3>7
  <2>9. CASE x \notin Nodes(list)
    <3>1. \A i \in 1 .. Len(list) : list[i] # x
      BY <2>9 DEF Nodes
    <3>2. \A i \in 0 .. Len(list) : At(list, i) # x
      <4>1. \A i \in 0 .. Len(list) : i = 0 \/ i \in 1 .. Len(list)
        BY <2>3, ListParts, SMT
      <4> QED  BY <1>10, <3>1, <4>1 DEF At
    <3>3. next[At(list, p)][level] # x
      <4>1. p # Len(list) => p + 1 \in 1 .. Len(list)
        BY <2>3, <2>6, ListParts, SMT
      <4> QED  BY <1>10, <2>7, <3>1, <4>1
    <3>4. \A n \in DOMAIN new : new[n][level] = next[n][level]
      BY <1>8, <2>4, <3>3 DEF pointer
    <3>5. lists2[level] = list
      BY <1>9, <2>1, <2>9
    <3>6. Threads(new, level, list)
      BY <1>7, <2>3, <3>2, <3>4, SameThreads
    <3> QED  BY <2>1, <2>3, <2>9, <3>5, <3>6
  <2> QED  BY <2>1, <2>8, <2>9
<1>12. ASSUME NEW level \in Levels, level > 1
       PROVE  Nodes(lists2[level]) \subseteq Nodes(lists2[level - 1])
  <2>1. level - 1 \in Levels
    BY <1>12, LevelsParts
  <2>2. Nodes(lists[level]) \subseteq Nodes(lists[level - 1])
    BY <1>12 DEF Lists
  <2> QED  BY <1>11, <2>1, <2>2
<1>13. DOMAIN new = {HeadNode} \union Nodes(lists2[1])
  <2>1. DOMAIN next = {HeadNode} \union Nodes(lists[1])
    BY <1>3 DEF Lists
  <2> QED  BY <1>7, <1>10, <1>11, <2>1, LevelsParts
<1>14. Lists(r, lists2)
  BY <1>2, <1>11, <1>12, <1>13 DEF Lists
<1> QED  BY <1>1, <1>5, <1>9, <1>14

-----------------------------------------------------------------------------
(* The list of a level is what its chain is                                  *)

Rest(list, i) == [k \in 1 .. Len(list) - i |-> list[i + k]]

LEMMA RestParts ==
    ASSUME NEW list, Sorted(list)
    PROVE  /\ Rest(list, Len(list)) = <<>> /\ Rest(list, 0) = list
           /\ \A i \in 0 .. Len(list) : i # Len(list) =>
                 Rest(list, i) = <<list[i + 1]>> \o Rest(list, i + 1)
<1>1. PICK m \in Nat : m = Len(list)
  BY ListParts
<1>2. list \in Seq(AnyItem) /\ list = [k \in 1 .. m |-> list[k]] /\ \A k \in 1 .. m : list[k] \in AnyItem
  BY <1>1 DEF Sorted
<1>3. Rest(list, m) = <<>>
  <2>1. 1 .. m - m = {}
    BY <1>1, SMT
  <2> QED  BY <1>1, <2>1 DEF Rest
<1>4. Rest(list, 0) = list
  <2>1. Rest(list, 0) = [k \in 1 .. m - 0 |-> list[0 + k]]
    BY <1>1 DEF Rest
  <2>2. m - 0 = m /\ \A k \in 1 .. m : 0 + k = k
    BY <1>1, SMT
  <2> QED  BY <1>2, <2>1, <2>2
<1>5. ASSUME NEW i \in 0 .. m, i # m PROVE Rest(list, i) = <<list[i + 1]>> \o Rest(list, i + 1)
  <2>1. PICK q \in Nat : q = m - (i + 1)
    <3>1. m - (i + 1) \in Nat
      BY <1>1, <1>5, SMT
    <3> QED  BY <3>1
  <2>2. /\ i + 1 \in 1 .. m /\ m - i = 1 + q /\ 1 + q \in Nat
        /\ \A k \in 1 .. q : (i + 1) + k \in 1 .. m
        /\ \A k \in 1 .. 1 + q : k # 1 => k - 1 \in 1 .. q /\ (i + 1) + (k - 1) = i + k
        /\ \A k \in 1 .. 1 + q : i + k \in 1 .. m
    BY <1>1, <1>5, <2>1, SMT
  <2>3. PICK a : a = Rest(list, i)
    OBVIOUS
  <2>4. PICK b : b = Rest(list, i + 1)
    OBVIOUS
  <2>5. a = [k \in 1 .. 1 + q |-> list[i + k]]
    BY <1>1, <2>2, <2>3 DEF Rest
  <2>6. b = [k \in 1 .. q |-> list[(i + 1) + k]]
    BY <1>1, <2>1, <2>4 DEF Rest
  <2>7. b \in [1 .. q -> AnyItem]
    BY <1>2, <2>2, <2>6
  <2>8. b \in Seq(AnyItem) /\ Len(b) = q
    BY <2>1, <2>7, SeqOf
  <2>9. list[i + 1] \in AnyItem
    BY <1>2, <2>2
  <2>10. PICK x : x = list[i + 1]
    OBVIOUS
  <2>11. /\ <<x>> \o b = [k \in 1 .. 1 + q |-> IF k = 1 THEN x ELSE b[k - 1]]
    <3>1. PICK c : c = <<x>> \o b
      OBVIOUS
    <3>2. c \in Seq(AnyItem) /\ Len(c) = 1 + q
      BY <2>1, <2>8, <2>9, <2>10, <3>1
    <3>3. DOMAIN c = 1 .. 1 + q /\ c = [k \in 1 .. 1 + q |-> c[k]]
      BY <2>1, <3>2
    <3>4. \A k \in 1 .. 1 + q : c[k] = IF k = 1 THEN x ELSE b[k - 1]
      BY <2>1, <2>8, <2>9, <2>10, <3>1
    <3> QED  BY <3>1, <3>3, <3>4
  <2>12. \A k \in 1 .. 1 + q : list[i + k] = IF k = 1 THEN x ELSE b[k - 1]
    BY <2>2, <2>6, <2>10
  <2> QED  BY <2>3, <2>4, <2>5, <2>10, <2>11, <2>12
<1> QED  BY <1>1, <1>3, <1>4, <1>5

After(next, level, a) ==
    a = [n \in DOMAIN next |->
            IF next[n][level] = Nil THEN <<>> ELSE <<next[n][level]>> \o a[next[n][level]]]

LEMMA ChainIs ==
    ASSUME NEW s, NEW level, NEW list, Sorted(list), Threads(s.next, level, list)
    PROVE  Chain(s, level) = list
<1>1. PICK m \in Nat : m = Len(list)
  BY ListParts
<1>2. PICK next : next = s.next
  OBVIOUS
<1>3. /\ \A i \in 0 .. m : At(list, i) \in DOMAIN next
      /\ \A i \in 0 .. m : next[At(list, i)][level] = IF i = m THEN Nil ELSE list[i + 1]
      /\ \A n \in DOMAIN next : (\A i \in 0 .. m : n # At(list, i)) => next[n][level] = Nil
  BY <1>1, <1>2 DEF Threads
<1>4. \A i, j \in 0 .. m : At(list, i) = At(list, j) => i = j
  BY <1>1, ListParts
<1>5. \A i \in 0 .. m : i # m => /\ i + 1 \in 0 .. m /\ i + 1 \in 1 .. m
                                 /\ list[i + 1] = At(list, i + 1) /\ list[i + 1] # Nil
  <2> TAKE i \in 0 .. m
  <2>1. i # m => i + 1 \in 0 .. m /\ i + 1 \in 1 .. m /\ i + 1 # 0
    BY <1>1, SMT
  <2> QED  BY <1>1, <2>1, ListParts DEF At
<1>6. Rest(list, m) = <<>> /\ Rest(list, 0) = list
      /\ \A i \in 0 .. m : i # m => Rest(list, i) = <<list[i + 1]>> \o Rest(list, i + 1)
  BY <1>1, RestParts
<1>7. \E a : After(next, level, a)
  <2> DEFINE place(n) == CHOOSE i \in 0 .. m : n = At(list, i)
  <2>1. PICK a : a = [n \in DOMAIN next |->
                         IF \E i \in 0 .. m : n = At(list, i) THEN Rest(list, place(n)) ELSE <<>>]
    OBVIOUS
  <2>2. \A i \in 0 .. m : place(At(list, i)) = i
    BY <1>4
  <2>3. \A i \in 0 .. m : a[At(list, i)] = Rest(list, i)
    BY <1>3, <2>1, <2>2
  <2> HIDE DEF place
  <2>4. ASSUME NEW n \in DOMAIN next
        PROVE  a[n] = IF next[n][level] = Nil THEN <<>> ELSE <<next[n][level]>> \o a[next[n][level]]
    <3>1. CASE \E i \in 0 .. m : n = At(list, i)
      <4>1. PICK i \in 0 .. m : n = At(list, i)
        BY <3>1
      <4>2. CASE i = m
        <5>1. next[n][level] = Nil /\ a[n] = <<>>
          BY <1>3, <1>6, <2>3, <4>1, <4>2
        <5> QED  BY <5>1
      <4>3. CASE i # m
        <5>1. next[n][level] = list[i + 1] /\ next[n][level] # Nil /\ a[next[n][level]] = Rest(list, i + 1)
          BY <1>3, <1>5, <2>3, <4>1, <4>3
        <5>2. a[n] = <<list[i + 1]>> \o Rest(list, i + 1)
          BY <1>6, <2>3, <4>1, <4>3
        <5> QED  BY <5>1, <5>2
      <4> QED  BY <4>2, <4>3
    <3>2. CASE ~ (\E i \in 0 .. m : n = At(list, i))
      BY <1>3, <2>1, <3>2
    <3> QED  BY <3>1, <3>2
  <2> QED  BY <2>1, <2>4 DEF After
<1>8. PICK a : After(next, level, a) /\ a[HeadNode] = Chain(s, level)
  <2> DEFINE Is(a) == a = [n \in DOMAIN s.next |->
                              IF s.next[n][level] = Nil THEN <<>>
                              ELSE <<s.next[n][level]>> \o a[s.next[n][level]]]
  <2>1. Chain(s, level) = (CHOOSE a : Is(a))[HeadNode]
    BY DEF Chain
  <2>2. \A a : Is(a) <=> After(next, level, a)
    BY <1>2 DEF After
  <2> QED  BY <1>7, <2>1, <2>2
<1>9. \A n \in DOMAIN next :
         a[n] = IF next[n][level] = Nil THEN <<>> ELSE <<next[n][level]>> \o a[next[n][level]]
  BY <1>8 DEF After
<1> DEFINE S == {i \in 0 .. m : a[At(list, i)] = Rest(list, i)}
<1>10. m \in S
  <2>1. m \in 0 .. m
    BY <1>1, SMT
  <2> QED  BY <1>3, <1>6, <1>9, <2>1
<1>11. ASSUME NEW i \in 0 .. m, i > 0, i \in S PROVE i - 1 \in S
  <2>1. PICK j \in 0 .. m : j = i - 1 /\ j # m /\ j + 1 = i
    <3>1. i - 1 \in 0 .. m /\ i - 1 # m /\ (i - 1) + 1 = i
      BY <1>1, <1>11, SMT
    <3> QED  BY <3>1
  <2>2. At(list, j) \in DOMAIN next /\ next[At(list, j)][level] = At(list, i) /\ At(list, i) # Nil
        /\ At(list, i) = list[i]
    BY <1>3, <1>5, <2>1
  <2>3. a[At(list, j)] = <<list[i]>> \o a[At(list, i)]
    BY <1>9, <2>2
  <2>4. a[At(list, i)] = Rest(list, i)
    BY <1>11
  <2>5. Rest(list, j) = <<list[i]>> \o Rest(list, i)
    BY <1>6, <2>1
  <2>6. a[At(list, j)] = Rest(list, j)
    BY <2>3, <2>4, <2>5
  <2> QED  BY <2>1, <2>6
<1> HIDE DEF S
<1>12. \A i \in 0 .. m : i \in S
  BY <1>1, <1>10, <1>11, CountDown
<1>13. 0 \in 0 .. m /\ At(list, 0) = HeadNode
  BY <1>1, SMT DEF At
<1> QED  BY <1>6, <1>8, <1>12, <1>13 DEF S

-----------------------------------------------------------------------------
(* The table of members, and the calls                                       *)

\* The table has the items of the lowest level, each under its member.
Table(s, list) ==
    /\ s.members = [m \in DOMAIN s.members |-> s.members[m]]
    /\ \A m \in DOMAIN s.members : s.members[m] \in Nodes(list) /\ s.members[m].member = m
    /\ \A x \in Nodes(list) : x.member \in DOMAIN s.members /\ s.members[x.member] = x
    /\ s.length = Len(list)

SkipOK(s) == \E lists : Lists(s, lists) /\ Table(s, lists[1])

LEMMA Items ==
    ASSUME NEW m \in Int, NEW score \in Int
    PROVE  Item(m, score) \in AnyItem /\ Item(m, score).member = m /\ Item(m, score).score = score
  BY DEF Item, AnyItem

LEMMA NodesAreItems ==
    ASSUME NEW list, Sorted(list), NEW x \in Nodes(list)
    PROVE  x \in AnyItem /\ x # HeadNode /\ x # Nil
  BY ListParts DEF Nodes

LEMMA NewSkip == SkipOK(NewSkipList) /\ NewSkipList.members = NoScores
<1>1. PICK lists : lists = [level \in Levels |-> <<>>]
  OBVIOUS
<1>2. PICK s : s = NewSkipList
  OBVIOUS
<1>3. /\ s.next = [n \in {HeadNode} |-> [level \in Levels |-> Nil]]
      /\ s.members = NoScores /\ s.length = 0
  BY <1>2 DEF NewSkipList
<1>4. PICK e : e = <<>>
  OBVIOUS
<1>5. e \in Seq(AnyItem) /\ Len(e) = 0 /\ 1 .. Len(e) = {} /\ 0 .. Len(e) = {0}
  BY <1>4, SMT
<1>6. Sorted(e) /\ Nodes(e) = {}
  BY <1>5 DEF Sorted, Nodes
<1>7. ASSUME NEW level \in Levels PROVE Threads(s.next, level, e)
  <2>1. PICK next : next = s.next
    OBVIOUS
  <2>2. DOMAIN next = {HeadNode} /\ next[HeadNode][level] = Nil
    BY <1>3, <2>1
  <2>3. At(e, 0) = HeadNode /\ Len(e) = 0
    BY <1>5 DEF At
  <2> QED  BY <1>5, <2>1, <2>2, <2>3 DEF Threads
<1>8. Lists(s, lists)
  <2>1. \A level \in Levels : lists[level] = e
    BY <1>1, <1>4
  <2>2. DOMAIN s.next = {HeadNode}
    BY <1>3
  <2> QED  BY <1>6, <1>7, <2>1, <2>2, LevelsParts DEF Lists
<1>9. Table(s, lists[1])
  <2>1. lists[1] = e
    BY <1>1, <1>4, LevelsParts
  <2>2. s.members = <<>> /\ DOMAIN s.members = {}
    BY <1>3 DEF NoScores
  <2>3. s.members = [m \in DOMAIN s.members |-> s.members[m]]
    BY <2>2
  <2> QED  BY <1>3, <1>5, <1>6, <2>1, <2>2, <2>3 DEF Table
<1> QED  BY <1>2, <1>3, <1>8, <1>9 DEF SkipOK

LEMMA LinkOK ==
    ASSUME NEW s, SkipOK(s), NEW x \in AnyItem, x.member \notin DOMAIN s.members, NEW h \in Levels
    PROVE  SkipOK(Link(s, x, h)) /\ Link(s, x, h).members = Scored(s.members, x.member, x)
<1>1. PICK lists : Lists(s, lists) /\ Table(s, lists[1])
  BY DEF SkipOK
<1>2. PICK list : list = lists[1]
  OBVIOUS
<1>3. Sorted(list) /\ DOMAIN s.next = {HeadNode} \union Nodes(list)
  BY <1>1, <1>2, ListNodes, LevelsParts DEF Lists
<1>4. x \notin Nodes(list)
  BY <1>1, <1>2 DEF Table
<1>5. x \notin DOMAIN s.next
  BY <1>3, <1>4, SkipListAssumption
<1>6. PICK p : p = Cut(list, x)
  OBVIOUS
<1>7. PICK longer : longer = Inserted(list, x, p)
  OBVIOUS
<1>8. Len(longer) = Len(list) + 1 /\ Nodes(longer) = Nodes(list) \union {x}
  <2>1. \A i \in 1 .. Len(list) : list[i] # x
    BY <1>4 DEF Nodes
  <2> QED  BY <1>3, <1>6, <1>7, <2>1, CutIs, InsertedSorted
<1>9. PICK lists2 : lists2 = [level \in Levels |->
                                IF level <= h THEN Inserted(lists[level], x, Cut(lists[level], x))
                                ELSE lists[level]]
  OBVIOUS
<1>10. PICK r : r = Link(s, x, h)
  OBVIOUS
<1>11. Lists(r, lists2) /\ r.members = Scored(s.members, x.member, x) /\ r.length = s.length + 1
  BY <1>1, <1>5, <1>9, <1>10, LinkLists
<1>12. lists2[1] = longer
  <2>1. 1 \in Levels /\ 1 <= h
    BY LevelsParts, SMT DEF Levels
  <2> QED  BY <1>2, <1>6, <1>7, <1>9, <2>1
<1>13. Table(r, longer)
  <2>1. r.members = [m \in DOMAIN s.members \union {x.member} |->
                        IF m = x.member THEN x ELSE s.members[m]]
    BY <1>11 DEF Scored
  <2>2. /\ \A m \in DOMAIN s.members : s.members[m] \in Nodes(list) /\ s.members[m].member = m
        /\ \A y \in Nodes(list) : y.member \in DOMAIN s.members /\ s.members[y.member] = y
        /\ s.length = Len(list)
    BY <1>1, <1>2 DEF Table
  <2>3. r.members = [m \in DOMAIN r.members |-> r.members[m]]
    BY <2>1
  <2>4. DOMAIN r.members = DOMAIN s.members \union {x.member}
    BY <2>1
  <2>5. \A m \in DOMAIN r.members : r.members[m] \in Nodes(longer) /\ r.members[m].member = m
    BY <1>8, <2>1, <2>2, <2>4
  <2>6. \A y \in Nodes(longer) : y.member \in DOMAIN r.members /\ r.members[y.member] = y
    BY <1>8, <2>1, <2>2, <2>4
  <2>7. r.length = Len(longer)
    BY <1>8, <1>11, <2>2
  <2> QED  BY <2>3, <2>5, <2>6, <2>7 DEF Table
<1> QED  BY <1>10, <1>11, <1>12, <1>13 DEF SkipOK

LEMMA UnlinkOK ==
    ASSUME NEW s, SkipOK(s), NEW m \in DOMAIN s.members
    PROVE  SkipOK(Unlink(s, s.members[m])) /\ Unlink(s, s.members[m]).members = Unscored(s.members, m)
<1>1. PICK lists : Lists(s, lists) /\ Table(s, lists[1])
  BY DEF SkipOK
<1>2. PICK list : list = lists[1]
  OBVIOUS
<1>3. PICK x : x = s.members[m]
  OBVIOUS
<1>4. Sorted(list) /\ x \in Nodes(list) /\ x.member = m
  BY <1>1, <1>2, <1>3, ListNodes, LevelsParts DEF Table
<1>5. PICK p : p = Cut(list, x)
  OBVIOUS
<1>6. p \in Nat /\ p + 1 \in 1 .. Len(list) /\ list[p + 1] = x
  BY <1>4, <1>5, CutAt
<1>7. PICK shorter : shorter = Removed(list, p)
  OBVIOUS
<1>8. Len(shorter) = Len(list) - 1 /\ Nodes(shorter) = Nodes(list) \ {x}
  BY <1>4, <1>6, <1>7, RemovedSorted
<1>9. PICK lists2 : lists2 = [level \in Levels |-> IF x \in Nodes(lists[level])
                                                   THEN Removed(lists[level], Cut(lists[level], x))
                                                   ELSE lists[level]]
  OBVIOUS
<1>10. PICK r : r = Unlink(s, x)
  OBVIOUS
<1>11. Lists(r, lists2) /\ r.members = Unscored(s.members, m) /\ r.length = s.length - 1
  BY <1>1, <1>2, <1>4, <1>9, <1>10, UnlinkLists
<1>12. lists2[1] = shorter
  BY <1>2, <1>4, <1>5, <1>7, <1>9, LevelsParts
<1>13. Table(r, shorter)
  <2>1. r.members = [n \in DOMAIN s.members \ {m} |-> s.members[n]]
    BY <1>11 DEF Unscored
  <2>2. /\ \A n \in DOMAIN s.members : s.members[n] \in Nodes(list) /\ s.members[n].member = n
        /\ \A y \in Nodes(list) : y.member \in DOMAIN s.members /\ s.members[y.member] = y
        /\ s.length = Len(list)
    BY <1>1, <1>2 DEF Table
  <2>3. r.members = [n \in DOMAIN r.members |-> r.members[n]]
    BY <2>1
  <2>4. DOMAIN r.members = DOMAIN s.members \ {m}
    BY <2>1
  <2>5. \A n \in DOMAIN r.members : r.members[n] \in Nodes(shorter) /\ r.members[n].member = n
    BY <1>3, <1>4, <1>8, <2>1, <2>2, <2>4
  <2>6. \A y \in Nodes(shorter) : y.member \in DOMAIN r.members /\ r.members[y.member] = y
    BY <1>3, <1>8, <2>1, <2>2, <2>4
  <2>7. r.length = Len(shorter)
    BY <1>8, <1>11, <2>2
  <2> QED  BY <2>3, <2>5, <2>6, <2>7 DEF Table
<1> QED  BY <1>3, <1>10, <1>11, <1>12, <1>13 DEF SkipOK

\* What the table holds of a member is an item of it, and its score is what
\* slScore answers.
LEMMA TableItems ==
    ASSUME NEW s, SkipOK(s)
    PROVE  /\ s.members = [m \in DOMAIN s.members |-> s.members[m]]
           /\ \A m \in DOMAIN s.members :
                 /\ s.members[m] \in AnyItem /\ s.members[m].member = m
                 /\ m \in Int /\ slScore(s, m) \in Int /\ s.members[m] = Item(m, slScore(s, m))
<1>1. PICK lists : Lists(s, lists) /\ Table(s, lists[1])
  BY DEF SkipOK
<1>2. Sorted(lists[1])
  BY <1>1, ListNodes, LevelsParts
<1>3. \A m \in DOMAIN s.members : s.members[m] \in AnyItem /\ s.members[m].member = m
  BY <1>1, <1>2, NodesAreItems DEF Table
<1>4. ASSUME NEW m \in DOMAIN s.members
      PROVE  m \in Int /\ slScore(s, m) \in Int /\ s.members[m] = Item(m, slScore(s, m))
  <2>1. PICK x : x = s.members[m]
    OBVIOUS
  <2>2. x \in AnyItem /\ x.member = m /\ slScore(s, m) = x.score
    BY <1>3, <2>1 DEF slScore
  <2>3. x.member \in Int /\ x.score \in Int /\ x = Item(x.member, x.score)
    BY <2>2 DEF AnyItem, Item
  <2> QED  BY <2>1, <2>2, <2>3
<1> QED  BY <1>1, <1>3, <1>4 DEF Table

LEMMA RemoveOK ==
    ASSUME NEW s, SkipOK(s), NEW m
    PROVE  SkipOK(slRemove(s, m)) /\ slRemove(s, m).members = Unscored(s.members, m)
<1>1. CASE m \in DOMAIN s.members
  BY <1>1, UnlinkOK DEF slRemove, slIsMember
<1>2. CASE m \notin DOMAIN s.members
  <2>1. slRemove(s, m) = s /\ DOMAIN s.members \ {m} = DOMAIN s.members
    BY <1>2 DEF slRemove, slIsMember
  <2> QED  BY <2>1, TableItems DEF Unscored
<1> QED  BY <1>1, <1>2

LEMMA UpdateOK ==
    ASSUME NEW s, SkipOK(s), NEW m \in Int, NEW score \in Int, NEW h \in Levels
    PROVE  /\ SkipOK(slUpdate(s, m, score, h))
           /\ slUpdate(s, m, score, h).members =
                 IF m \in DOMAIN s.members THEN Scored(s.members, m, Item(m, score)) ELSE s.members
<1>1. PICK x : x = Item(m, score)
  OBVIOUS
<1>2. x \in AnyItem /\ x.member = m
  BY <1>1, Items
<1>3. CASE m \notin DOMAIN s.members
  BY <1>3 DEF slUpdate, slIsMember
<1>4. CASE m \in DOMAIN s.members /\ slScore(s, m) = score
  <2>1. slUpdate(s, m, score, h) = s /\ s.members[m] = x
    BY <1>1, <1>4, TableItems DEF slUpdate
  <2>2. s.members = [n \in DOMAIN s.members |-> s.members[n]] /\ DOMAIN s.members \union {m} = DOMAIN s.members
    BY <1>4, TableItems
  <2>3. Scored(s.members, m, x) = s.members
    BY <2>1, <2>2 DEF Scored
  <2> QED  BY <1>1, <1>4, <2>1, <2>3
<1>5. CASE m \in DOMAIN s.members /\ slScore(s, m) # score
  <2>1. PICK r : r = slRemove(s, m)
    OBVIOUS
  <2>2. SkipOK(r) /\ r.members = Unscored(s.members, m)
    BY <2>1, RemoveOK
  <2>3. DOMAIN r.members = DOMAIN s.members \ {m} /\ \A n \in DOMAIN r.members : r.members[n] = s.members[n]
    BY <2>2 DEF Unscored
  <2>4. slUpdate(s, m, score, h) = Link(r, x, h)
    BY <1>1, <1>5, <2>1 DEF slUpdate, slIsMember
  <2>5. SkipOK(Link(r, x, h)) /\ Link(r, x, h).members = Scored(r.members, m, x)
    BY <1>2, <2>2, <2>3, LinkOK
  <2>6. Scored(r.members, m, x) = Scored(s.members, m, x)
    <3>1. DOMAIN r.members \union {m} = DOMAIN s.members \union {m}
      BY <2>3
    <3>2. \A n \in DOMAIN s.members \union {m} : n # m => r.members[n] = s.members[n]
      BY <2>3
    <3> QED  BY <3>1, <3>2 DEF Scored
  <2> QED  BY <1>1, <1>5, <2>4, <2>5, <2>6
<1> QED  BY <1>3, <1>4, <1>5

LEMMA AddOK ==
    ASSUME NEW s, SkipOK(s), NEW m \in Int, NEW score \in Int, NEW h \in Levels
    PROVE  /\ SkipOK(slAdd(s, m, score, h))
           /\ slAdd(s, m, score, h).members = Scored(s.members, m, Item(m, score))
<1>1. CASE m \in DOMAIN s.members
  BY <1>1, UpdateOK DEF slAdd, slIsMember
<1>2. CASE m \notin DOMAIN s.members
  <2>1. PICK x : x = Item(m, score)
    OBVIOUS
  <2>2. x \in AnyItem /\ x.member = m
    BY <2>1, Items
  <2>3. slAdd(s, m, score, h) = Link(s, x, h)
    BY <1>2, <2>1 DEF slAdd, slIsMember
  <2> QED  BY <1>2, <2>1, <2>2, <2>3, LinkOK
<1> QED  BY <1>1, <1>2

-----------------------------------------------------------------------------
(* The invariant, and the levels                                             *)

IInv == /\ kind \in {"skiplist", "bplustree"}
        /\ kind = "skiplist" => SkipOK(index)

LEMMA Given ==
    ASSUME NEW m \in Members
    PROVE  m \in Int /\ \A score \in Scores[m] : score \in Int
  BY OrderedIndexAssumption

\* What a call does to the table of a skip list.
LEMMA SkipSteps ==
    ASSUME kind = "skiplist", SkipOK(index), [Next]_vars
    PROVE  /\ kind' = "skiplist" /\ SkipOK(index')
           /\ \/ index'.members = index.members
              \/ \E m \in Members : index'.members = Unscored(index.members, m)
              \/ \E m \in Members : \E score \in Scores[m] :
                    index'.members = Scored(index.members, m, Item(m, score))
<1>1. CASE UNCHANGED vars
  BY <1>1 DEF vars
<1>2. ASSUME NEW m \in Members, Remove(m)
      PROVE  /\ kind' = "skiplist" /\ SkipOK(index') /\ index'.members = Unscored(index.members, m)
  BY <1>2, RemoveOK DEF Remove
<1>3. ASSUME NEW m \in Members, NEW score \in Scores[m], Add(m, score)
      PROVE  /\ kind' = "skiplist" /\ SkipOK(index')
             /\ index'.members = Scored(index.members, m, Item(m, score))
  <2>1. kind' = kind /\ \E h \in Levels : index' = slAdd(index, m, score, h)
    BY <1>3 DEF Add
  <2> QED  BY <2>1, Given, AddOK
<1>4. ASSUME NEW m \in Members, NEW score \in Scores[m], Update(m, score)
      PROVE  /\ kind' = "skiplist" /\ SkipOK(index')
             /\ \/ index'.members = Scored(index.members, m, Item(m, score))
                \/ index'.members = index.members
  <2>1. kind' = kind /\ \E h \in Levels : index' = slUpdate(index, m, score, h)
    BY <1>4 DEF Update
  <2> QED  BY <2>1, Given, UpdateOK
<1> QED  BY <1>1, <1>2, <1>3, <1>4 DEF Next

LEMMA Invariant == Spec => []IInv
<1>1. Init => IInv
  BY NewSkip DEF Init, IInv
<1>2. IInv /\ [Next]_vars => IInv'
  <2> SUFFICES ASSUME IInv, [Next]_vars PROVE IInv'
    OBVIOUS
  <2>1. CASE kind = "skiplist"
    BY <2>1, SkipSteps DEF IInv
  <2>2. CASE kind = "bplustree"
    <3>1. kind' = kind
      BY DEF Next, Add, Update, Remove, vars
    <3> QED  BY <2>2, <3>1 DEF IInv
  <2> QED  BY <2>1, <2>2 DEF IInv
<1> QED  BY <1>1, <1>2, PTL DEF Spec

\* Each level of a skip list is in order, and a search that goes down from one
\* level finds the node it stands at in the next (skip_list.go:168-178).
THEOREM LevelsAreNested == Spec => []LevelsNested
<1>1. IInv => LevelsNested
  <2> SUFFICES ASSUME IInv, kind = "skiplist" PROVE LevelsNested
    BY DEF LevelsNested
  <2>1. PICK lists : Lists(index, lists)
    BY DEF IInv, SkipOK
  <2>2. \A level \in Levels : Sorted(lists[level]) /\ Chain(index, level) = lists[level]
    BY <2>1, ListNodes, ChainIs
  <2>3. ASSUME NEW level \in Levels
        PROVE  Seqs!ToSet(Chain(index, level)) = Nodes(lists[level])
    <3>1. Seqs!ToSet(lists[level]) = Nodes(lists[level])
      BY <2>2, <2>3, ListParts DEF Seqs!ToSet, Nodes
    <3> QED  BY <2>2, <3>1
  <2>4. ASSUME NEW level \in Levels, NEW i \in 1 .. Len(Chain(index, level)) - 1
        PROVE  less(Chain(index, level)[i], Chain(index, level)[i + 1])
    <3>1. PICK list : list = lists[level] /\ Sorted(list) /\ list = Chain(index, level)
      BY <2>2
    <3>2. PICK n \in Nat : n = Len(list)
      BY <3>1, ListParts
    <3>3. i \in 1 .. n - 1
      BY <2>4, <3>1, <3>2
    <3>4. i \in 1 .. n /\ i + 1 \in 1 .. n /\ i < i + 1
      BY <3>2, <3>3, SMT
    <3>5. less(list[i], list[i + 1])
      BY <3>1, <3>2, <3>4 DEF Sorted
    <3> QED  BY <3>1, <3>5
  <2>5. ASSUME NEW level \in Levels, level > 1
        PROVE  Seqs!ToSet(Chain(index, level)) \subseteq Seqs!ToSet(Chain(index, level - 1))
    <3>1. level - 1 \in Levels
      BY <2>5, LevelsParts
    <3> QED  BY <2>1, <2>3, <2>5, <3>1 DEF Lists
  <2> QED  BY <2>4, <2>5 DEF LevelsNested
<1> QED  BY <1>1, Invariant, PTL

-----------------------------------------------------------------------------
(* The list an index shows, and its table                                    *)

ListOf(s, list) == Sorted(list) /\ Table(s, list)
ScoresOf(s) == [m \in DOMAIN s.members |-> slScore(s, m)]

\* The list and the table speak of the same items, one of each member.
LEMMA ListItems ==
    ASSUME NEW s, NEW list, ListOf(s, list)
    PROVE  /\ Len(list) \in Nat /\ DOMAIN list = 1 .. Len(list)
           /\ \A i \in 1 .. Len(list) :
                 /\ list[i] \in AnyItem /\ list[i].member \in DOMAIN s.members
                 /\ s.members[list[i].member] = list[i]
                 /\ ScoresOf(s)[list[i].member] = list[i].score
           /\ \A m \in DOMAIN s.members : \E i \in 1 .. Len(list) : list[i].member = m
           /\ \A i, j \in 1 .. Len(list) : list[i].member = list[j].member => i = j
<1>1. Len(list) \in Nat /\ DOMAIN list = 1 .. Len(list) /\ \A i \in 1 .. Len(list) : list[i] \in AnyItem
  BY ListParts DEF ListOf
<1>2. \A i \in 1 .. Len(list) :
         list[i].member \in DOMAIN s.members /\ s.members[list[i].member] = list[i]
  BY DEF ListOf, Table, Nodes
<1>3. \A m \in DOMAIN s.members : \E i \in 1 .. Len(list) : list[i].member = m
  BY DEF ListOf, Table, Nodes
<1>4. ASSUME NEW i \in 1 .. Len(list), NEW j \in 1 .. Len(list), list[i].member = list[j].member
      PROVE  i = j
  <2>1. list[i] = list[j]
    BY <1>2, <1>4
  <2>2. i \in 0 .. Len(list) /\ j \in 0 .. Len(list) /\ i # 0 /\ j # 0
    BY <1>1, SMT
  <2>3. At(list, i) = At(list, j)
    BY <2>1, <2>2 DEF At
  <2> QED  BY <2>2, <2>3, ListParts DEF ListOf
<1>5. \A i \in 1 .. Len(list) : ScoresOf(s)[list[i].member] = list[i].score
  BY <1>2 DEF ScoresOf, slScore
<1> QED  BY <1>1, <1>2, <1>3, <1>4, <1>5

ScoresIn(list) ==
    LET place(m) == CHOOSE i \in DOMAIN list : list[i].member = m
    IN [m \in {list[i].member : i \in DOMAIN list} |-> list[place(m)].score]

LEMMA ScoresListed ==
    ASSUME NEW s, NEW list, ListOf(s, list)
    PROVE  ScoresIn(list) = ScoresOf(s)
<1> DEFINE place(m) == CHOOSE i \in DOMAIN list : list[i].member = m
<1>1. {list[i].member : i \in DOMAIN list} = DOMAIN s.members
  BY ListItems
<1>2. \A m \in DOMAIN s.members : place(m) \in DOMAIN list /\ list[place(m)].member = m
  BY ListItems
<1>3. \A m \in DOMAIN s.members : list[place(m)].score = slScore(s, m)
  BY <1>2, ListItems DEF slScore
<1>4. [m \in {list[i].member : i \in DOMAIN list} |-> list[place(m)].score] = ScoresOf(s)
  BY <1>1, <1>3 DEF ScoresOf
<1> QED  BY <1>4 DEF ScoresIn

LEMMA ScoresAfter ==
    ASSUME NEW s, NEW t
    PROVE  /\ t.members = s.members => ScoresOf(t) = ScoresOf(s)
           /\ \A m : t.members = Unscored(s.members, m) => ScoresOf(t) = Unscored(ScoresOf(s), m)
           /\ \A m, score : t.members = Scored(s.members, m, Item(m, score))
                               => ScoresOf(t) = Scored(ScoresOf(s), m, score)
<1>1. t.members = s.members => ScoresOf(t) = ScoresOf(s)
  BY DEF ScoresOf, slScore
<1>2. ASSUME NEW m, t.members = Unscored(s.members, m) PROVE ScoresOf(t) = Unscored(ScoresOf(s), m)
  <2>1. DOMAIN t.members = DOMAIN s.members \ {m} /\ \A n \in DOMAIN t.members : t.members[n] = s.members[n]
    BY <1>2 DEF Unscored
  <2> QED  BY <2>1 DEF ScoresOf, slScore, Unscored
<1>3. ASSUME NEW m, NEW score, t.members = Scored(s.members, m, Item(m, score))
      PROVE  ScoresOf(t) = Scored(ScoresOf(s), m, score)
  <2>1. /\ DOMAIN t.members = DOMAIN s.members \union {m}
        /\ \A n \in DOMAIN t.members : t.members[n] = IF n = m THEN Item(m, score) ELSE s.members[n]
    BY <1>3 DEF Scored
  <2>2. Item(m, score).score = score
    BY DEF Item
  <2>3. \A n \in DOMAIN t.members : t.members[n].score = IF n = m THEN score ELSE s.members[n].score
    BY <2>1, <2>2
  <2>4. ScoresOf(t) = [n \in DOMAIN s.members \union {m} |-> IF n = m THEN score ELSE s.members[n].score]
    BY <2>1, <2>3 DEF ScoresOf, slScore
  <2>5. DOMAIN ScoresOf(s) = DOMAIN s.members /\ \A n \in DOMAIN s.members : ScoresOf(s)[n] = s.members[n].score
    BY DEF ScoresOf, slScore
  <2> QED  BY <2>4, <2>5 DEF Scored
<1> QED  BY <1>1, <1>2, <1>3

-----------------------------------------------------------------------------
(* Ranks and ranges                                                          *)

First(list, k) == {list[j].member : j \in 1 .. k}

LEMMA CountFirst ==
    ASSUME NEW s, NEW list, ListOf(s, list), NEW k \in 0 .. Len(list)
    PROVE  Cardinality(First(list, k)) = k
<1>1. PICK n \in Nat : n = Len(list)
  BY ListItems
<1>2. k \in Nat /\ \A j \in 1 .. k : j \in 1 .. n
  BY <1>1, SMT
<1>3. \A i, j \in 1 .. k : list[i].member = list[j].member => i = j
  BY <1>1, <1>2, ListItems
<1>4. PICK f : f = [j \in 1 .. k |-> list[j].member]
  OBVIOUS
<1>5. f \in [1 .. k -> First(list, k)] /\ \A i, j \in 1 .. k : f[i] = f[j] => i = j
  BY <1>3, <1>4 DEF First
<1>6. \A m \in First(list, k) : \E j \in 1 .. k : f[j] = m
  BY <1>4 DEF First
<1>7. f \in Bijection(1 .. k, First(list, k))
  BY <1>5, <1>6 DEF Bijection, Injection, Surjection, IsInjective
<1>8. ExistsBijection(1 .. k, First(list, k))
  BY <1>7 DEF ExistsBijection
<1>9. IsFiniteSet(1 .. k) /\ Cardinality(1 .. k) = k
  <2>1. 1 \in Int /\ k \in Int /\ (1 > k => k = 0) /\ k - 1 + 1 = k
    BY <1>2, SMT
  <2> QED  BY <2>1, FS_Interval
<1> QED  BY <1>8, <1>9, FS_Bijection

LEMMA AllFirst ==
    ASSUME NEW s, NEW list, ListOf(s, list)
    PROVE  DOMAIN ScoresOf(s) = First(list, Len(list))
<1>1. DOMAIN ScoresOf(s) = DOMAIN s.members
  BY DEF ScoresOf
<1> QED  BY <1>1, ListItems DEF First

LEMMA RankIs ==
    ASSUME NEW s, NEW list, ListOf(s, list), NEW i \in 1 .. Len(list)
    PROVE  Rank(ScoresOf(s), list[i].member) = i - 1
<1>1. PICK n \in Nat : n = Len(list)
  BY ListItems
<1>2. PICK sc : sc = ScoresOf(s)
  OBVIOUS
<1>3. PICK m : m = list[i].member
  OBVIOUS
<1>4. \A j \in 1 .. n : Item(list[j].member, sc[list[j].member]) = list[j]
  <2> TAKE j \in 1 .. n
  <2>1. sc[list[j].member] = list[j].score /\ list[j] \in AnyItem
    BY <1>1, <1>2, ListItems
  <2>2. Item(list[j].member, list[j].score) = list[j]
    BY <2>1 DEF AnyItem, Item
  <2> QED  BY <2>1, <2>2
<1>5. \A j \in 1 .. n : less(list[j], list[i]) <=> j < i
  <2> TAKE j \in 1 .. n
  <2>1. list[i] \in AnyItem /\ list[j] \in AnyItem
    BY <1>1, ListItems
  <2>2. (j < i => less(list[j], list[i])) /\ (i < j => less(list[i], list[j]))
    BY <1>1 DEF ListOf, Sorted
  <2>3. j = i \/ j < i \/ i < j
    BY SMT
  <2>4. (j = i \/ i < j) => ~ (j < i)
    BY SMT
  <2> QED  BY <2>1, <2>2, <2>3, <2>4, LessOrder
<1>6. {x \in DOMAIN sc : less(Item(x, sc[x]), Item(m, sc[m]))} = First(list, i - 1)
  <2>1. Item(m, sc[m]) = list[i]
    BY <1>1, <1>3, <1>4
  <2> DOMAIN sc = First(list, n)
    BY <1>1, <1>2, AllFirst
  <2>2. \A x \in DOMAIN sc : \E j \in 1 .. n : x = list[j].member
    BY DEF First
  <2>3. \A j \in 1 .. n : list[j].member \in DOMAIN sc
    BY DEF First
  <2>4. \A j \in Int : j \in 1 .. i - 1 <=> j \in 1 .. n /\ j < i
    BY <1>1, SMT
  <2>5. ASSUME NEW x \in DOMAIN sc
        PROVE  less(Item(x, sc[x]), list[i]) <=> x \in First(list, i - 1)
    <3>1. PICK j \in 1 .. n : x = list[j].member
      BY <2>2
    <3>2. less(Item(x, sc[x]), list[i]) <=> j < i
      BY <1>4, <1>5, <3>1
    <3>3. j < i => x \in First(list, i - 1)
      BY <2>4, <3>1 DEF First
    <3>4. ASSUME x \in First(list, i - 1) PROVE j < i
      <4>1. PICK k \in 1 .. i - 1 : x = list[k].member
        BY <3>4 DEF First
      <4>2. k \in 1 .. n /\ k < i
        BY <2>4, <4>1
      <4>3. k = j
        BY <1>1, <3>1, <4>1, <4>2, ListItems
      <4> QED  BY <4>2, <4>3
    <3> QED  BY <3>2, <3>3, <3>4
  <2>6. First(list, i - 1) \subseteq DOMAIN sc
    <3>1. \A j \in 1 .. i - 1 : j \in 1 .. n
      BY <1>1, SMT
    <3> QED  BY <2>3, <3>1 DEF First
  <2> QED  BY <2>1, <2>5, <2>6
<1>7. i - 1 \in 0 .. n
  BY <1>1, SMT
<1> QED  BY <1>1, <1>2, <1>3, <1>6, <1>7, CountFirst DEF Rank

LEMMA AscendingIs ==
    ASSUME NEW s, NEW list, ListOf(s, list)
    PROVE  /\ Ascending(ScoresOf(s)) = [i \in 1 .. Len(list) |-> list[i].member]
           /\ Len(Ascending(ScoresOf(s))) = Len(list)
<1>1. PICK n \in Nat : n = Len(list)
  BY ListItems
<1>2. PICK sc : sc = ScoresOf(s)
  OBVIOUS
<1>3. DOMAIN sc = First(list, n) /\ Cardinality(DOMAIN sc) = n
  <2>1. n \in 0 .. n
    BY <1>1, SMT
  <2> QED  BY <1>1, <1>2, <2>1, AllFirst, CountFirst
<1>4. \A i \in 1 .. n : list[i].member \in DOMAIN sc /\ Rank(sc, list[i].member) = i - 1
  BY <1>1, <1>2, <1>3, RankIs DEF First
<1>5. ASSUME NEW i \in 1 .. n
      PROVE  (CHOOSE m \in DOMAIN sc : Rank(sc, m) = i - 1) = list[i].member
  <2>1. ASSUME NEW m \in DOMAIN sc, Rank(sc, m) = i - 1 PROVE m = list[i].member
    <3>1. PICK j \in 1 .. n : m = list[j].member
      BY <1>3 DEF First
    <3>2. j - 1 = i - 1
      BY <1>4, <2>1, <3>1
    <3>3. j = i
      BY <3>2, SMT
    <3> QED  BY <3>1, <3>3
  <2> QED  BY <1>4, <2>1
<1>6. Ascending(sc) = [i \in 1 .. n |-> list[i].member]
  BY <1>3, <1>5 DEF Ascending
<1>7. Len(Ascending(sc)) = n
  <2>1. [i \in 1 .. n |-> list[i].member] \in [1 .. n -> First(list, n)]
    BY DEF First
  <2> QED  BY <1>1, <1>6, <2>1, SeqOf
<1> QED  BY <1>1, <1>2, <1>6, <1>7

\* The places, from zero, between start and stop: negative numbers count from
\* the end.
Places(n, start, stop) ==
    LET Counted(r, bound) == IF bound < 0 THEN r - n ELSE r
    IN {r \in 0 .. n - 1 : Counted(r, start) >= start /\ Counted(r, stop) <= stop}

LEMMA SelectedIs ==
    ASSUME NEW n \in Nat, NEW start \in Int, NEW stop \in Int,
           NEW sel, sel = Selected(start, stop, n)
    PROVE  /\ sel.first \in Nat /\ sel.last \in Int /\ sel.last <= n - 1
           /\ Places(n, start, stop) = sel.first .. sel.last
<1> DEFINE Counted(r, bound) == IF bound < 0 THEN r - n ELSE r
           fromEnd(i) == IF i < 0 THEN i + n ELSE i
<1>1. PICK first : first = IF fromEnd(start) < 0 THEN 0 ELSE fromEnd(start)
  OBVIOUS
<1>2. PICK last : last = IF fromEnd(stop) >= n THEN n - 1 ELSE fromEnd(stop)
  OBVIOUS
<1>3. sel = [first |-> first, last |-> last]
  BY <1>1, <1>2 DEF Selected
<1>4. first \in Nat /\ last \in Int /\ last <= n - 1
  BY <1>1, <1>2, SMT
<1>5. \A r \in Int : r \in 0 .. n - 1 /\ Counted(r, start) >= start /\ Counted(r, stop) <= stop
                      <=> first <= r /\ r <= last
  BY <1>1, <1>2, SMT
<1>6. {r \in 0 .. n - 1 : Counted(r, start) >= start /\ Counted(r, stop) <= stop} = first .. last
  <2> HIDE DEF Counted
  <2>1. \A r : r \in first .. last <=> r \in Int /\ first <= r /\ r <= last
    BY <1>4, SMT
  <2>2. \A r \in 0 .. n - 1 : r \in Int
    BY SMT
  <2> QED  BY <1>5, <2>1, <2>2
<1>7. Places(n, start, stop) = first .. last
  BY <1>6 DEF Places
<1> QED  BY <1>3, <1>4, <1>7

\* The members of the entries that start and stop select.
Chosen(list, n, start, stop) ==
    LET r == Selected(start, stop, n)
    IN [i \in 1 .. r.last - r.first + 1 |-> list[r.first + i].member]

LEMMA ChosenAre ==
    ASSUME NEW list, NEW n \in Nat, NEW start \in Int, NEW stop \in Int,
           NEW ranks, ranks = Places(n, start, stop), NEW range, range = Chosen(list, n, start, stop)
    PROVE  /\ Len(range) = Cardinality(ranks)
           /\ \A r \in ranks : range[r - Min(ranks) + 1] = list[r + 1].member
<1>1. PICK sel : sel = Selected(start, stop, n)
  OBVIOUS
<1>2. PICK first \in Nat : first = sel.first
  BY <1>1, SelectedIs
<1>3. PICK last \in Int : last = sel.last
  BY <1>1, SelectedIs
<1>4. ranks = first .. last /\ last <= n - 1
  BY <1>1, <1>2, <1>3, SelectedIs
<1>5. range = [i \in 1 .. last - first + 1 |-> list[first + i].member]
  BY <1>1, <1>2, <1>3 DEF Chosen
<1>6. CASE last < first
  <2>1. 1 .. last - first + 1 = {} /\ first .. last = {}
    BY <1>6, SMT
  <2>2. 1 .. last - first + 1 = 1 .. 0
    BY <1>6, SMT
  <2>3. Len(range) = 0
    <3>1. range \in [1 .. 0 -> {0}]
      BY <1>5, <2>1, <2>2
    <3>2. 0 \in Nat
      OBVIOUS
    <3> QED  BY <3>1, <3>2, SeqOf
  <2> QED  BY <1>4, <2>1, <2>3, FS_EmptySet
<1>7. CASE ~ (last < first)
  <2>1. PICK k \in Nat : k = last - first + 1
    <3>1. last - first + 1 \in Nat
      BY <1>7, SMT
    <3> QED  BY <3>1
  <2>2. Cardinality(ranks) = k
    <3>1. ~ (first > last) /\ first \in Int
      BY <1>7, SMT
    <3> QED  BY <1>4, <2>1, <3>1, FS_Interval
  <2>3. Len(range) = k
    <3>1. range \in [1 .. k -> {range[i] : i \in 1 .. k}]
      BY <1>5, <2>1
    <3> QED  BY <3>1, SeqOf
  <2>4. Min(ranks) = first
    <3>1. first \in ranks /\ \A r \in ranks : first <= r
      BY <1>2, <1>3, <1>4, <1>7, SMT
    <3>2. \A x \in ranks : (\A y \in ranks : x <= y) => x = first
      <4> TAKE x \in ranks
      <4> HAVE \A y \in ranks : x <= y
      <4>1. x <= first /\ first <= x /\ x \in Int
        BY <1>4, <3>1, SMT
      <4> QED  BY <4>1, SMT
    <3> QED  BY <3>1, <3>2 DEF Min
  <2>5. ASSUME NEW r \in ranks PROVE range[r - Min(ranks) + 1] = list[r + 1].member
    <3>1. r - first + 1 \in 1 .. last - first + 1 /\ first + (r - first + 1) = r + 1
      BY <1>4, <2>5, SMT
    <3> QED  BY <1>5, <2>4, <3>1
  <2> QED  BY <2>2, <2>3, <2>5
<1> QED  BY <1>6, <1>7

\* What an index answers by this list and the table of its items, s.
Shows(s, list) ==
    /\ ListOf(s, list) /\ Listed = list /\ index.length = Len(list)
    /\ [m \in DOMAIN index.members |-> getMemberScore(m)] = ScoresOf(s)
    /\ \A m : getRank(m) = IF m \in DOMAIN ScoresOf(s) THEN Rank(ScoresOf(s), m) ELSE NoRank
    /\ \A start, stop \in Int : getRange(start, stop) = Chosen(list, index.length, start, stop)

LEMMA ShownScores ==
    ASSUME NEW s, NEW list, Shows(s, list)
    PROVE  ListedScores = ScoresOf(s)
<1>1. ListedScores = ScoresIn(Listed)
  BY DEF ListedScores, ScoresIn
<1> QED  BY <1>1, ScoresListed DEF Shows

LEMMA ShownAgrees ==
    ASSUME NEW s, NEW list, Shows(s, list)
    PROVE  QueriesAgree
<1>1. PICK n \in Nat : n = Len(list)
  BY ListItems DEF Shows
<1> DEFINE scores == [m \in DOMAIN index.members |-> getMemberScore(m)]
           ascending == Ascending(scores)
           Counted(r, bound) == IF bound < 0 THEN r - Len(ascending) ELSE r
           Between(start, stop) ==
              {r \in 0 .. Len(ascending) - 1 :
                  Counted(r, start) >= start /\ Counted(r, stop) <= stop}
<1>2. scores = ScoresOf(s)
  BY DEF Shows
<1>3. \A start, stop : Between(start, stop) = Places(Len(ascending), start, stop)
  BY DEF Places
<1>4. QueriesAgree <=>
         /\ index.length = Len(ascending) /\ Len(Listed) = Len(ascending) /\ ListedScores = scores
         /\ \A m \in Members :
               getRank(m) = IF m \in DOMAIN scores THEN Rank(scores, m) ELSE NoRank
         /\ \A start \in {-(Len(ascending)) - 1, -2, 0, 1},
               stop \in {-(Len(ascending)) - 1, -1, Len(ascending) - 2, Len(ascending)} :
              /\ Len(getRange(start, stop)) = Cardinality(Between(start, stop))
              /\ \A r \in Between(start, stop) :
                    getRange(start, stop)[r - Min(Between(start, stop)) + 1] = ascending[r + 1]
  BY Zenon DEF QueriesAgree
<1> HIDE DEF Between, Counted, scores
<1>5. ascending = [i \in 1 .. n |-> list[i].member] /\ Len(ascending) = n
  BY <1>1, <1>2, AscendingIs DEF Shows
<1>6. Listed = list /\ index.length = n /\ ListedScores = scores
  BY <1>1, <1>2, ShownScores DEF Shows
<1>7. \A m \in Members : getRank(m) = IF m \in DOMAIN scores THEN Rank(scores, m) ELSE NoRank
  BY <1>2 DEF Shows
<1> HIDE DEF ascending
<1>8. ASSUME NEW start \in {-(Len(ascending)) - 1, -2, 0, 1},
             NEW stop \in {-(Len(ascending)) - 1, -1, Len(ascending) - 2, Len(ascending)}
      PROVE  /\ Len(getRange(start, stop)) = Cardinality(Between(start, stop))
             /\ \A r \in Between(start, stop) :
                   getRange(start, stop)[r - Min(Between(start, stop)) + 1] = ascending[r + 1]
  <2>1. start \in Int /\ stop \in Int
    BY <1>1, <1>5, SMT
  <2>2. PICK ranks : ranks = Between(start, stop)
    OBVIOUS
  <2>3. PICK range : range = getRange(start, stop)
    OBVIOUS
  <2>4. range = Chosen(list, n, start, stop)
    BY <1>6, <2>1, <2>3 DEF Shows
  <2>5. ranks = Places(n, start, stop)
    BY <1>3, <1>5, <2>2
  <2>6. /\ Len(range) = Cardinality(ranks)
        /\ \A r \in ranks : range[r - Min(ranks) + 1] = list[r + 1].member
    BY <1>1, <2>1, <2>4, <2>5, ChosenAre
  <2>7. \A r \in ranks : ascending[r + 1] = list[r + 1].member
    <3>1. \A r \in ranks : r \in 0 .. n - 1
      BY <2>5 DEF Places
    <3>2. \A r \in 0 .. n - 1 : r + 1 \in 1 .. n
      BY SMT
    <3> QED  BY <1>5, <3>1, <3>2
  <2> QED  BY <2>2, <2>3, <2>6, <2>7
<1> QED  BY <1>1, <1>4, <1>5, <1>6, <1>7, <1>8

-----------------------------------------------------------------------------
(* What a skip list shows                                                    *)

LEMMA LowestList ==
    ASSUME NEW s, SkipOK(s)
    PROVE  \E list : ListOf(s, list) /\ Chain(s, 1) = list
<1>1. PICK lists : Lists(s, lists) /\ Table(s, lists[1])
  BY DEF SkipOK
<1>2. Sorted(lists[1]) /\ Threads(s.next, 1, lists[1])
  BY <1>1, ListNodes, LevelsParts
<1>3. Chain(s, 1) = lists[1]
  BY <1>2, ChainIs
<1> QED  BY <1>1, <1>2, <1>3 DEF ListOf

LEMMA SlRankIs ==
    ASSUME NEW s, NEW list, ListOf(s, list), Chain(s, 1) = list, NEW m
    PROVE  slRank(s, m) = IF m \in DOMAIN ScoresOf(s) THEN Rank(ScoresOf(s), m) ELSE NoRank
<1>1. PICK n \in Nat : n = Len(list) /\ DOMAIN list = 1 .. n
  BY ListItems
<1>2. PICK sc : sc = ScoresOf(s)
  OBVIOUS
<1> DEFINE in(nodes) == {i \in DOMAIN nodes : nodes[i].member = m}
           answer(nodes) == IF in(nodes) = {} THEN NoRank
                            ELSE (CHOOSE i \in in(nodes) : \A j \in in(nodes) : i <= j) - 1
           found == in(list)
<1>3. slRank(s, m) = answer(list)
  <2>1. slRank(s, m) = answer(Chain(s, 1))
    BY DEF slRank
  <2> HIDE DEF answer
  <2> QED  BY <2>1
<1>4. DOMAIN sc = First(list, n)
  BY <1>1, <1>2, AllFirst
<1>5. CASE m \notin DOMAIN sc
  <2>1. found = {}
    BY <1>1, <1>4, <1>5 DEF First
  <2> QED  BY <1>2, <1>3, <1>5, <2>1
<1>6. CASE m \in DOMAIN sc
  <2>1. PICK k \in 1 .. n : list[k].member = m
    BY <1>4, <1>6 DEF First
  <2>2. found = {k}
    BY <1>1, <2>1, ListItems
  <2>3. k <= k
    BY <2>1, SMT
  <2>4. answer(list) = IF found = {} THEN NoRank
                       ELSE (CHOOSE i \in found : \A j \in found : i <= j) - 1
    OBVIOUS
  <2> HIDE DEF found, in, answer
  <2>5. (CHOOSE i \in found : \A j \in found : i <= j) = k
    BY <2>2, <2>3
  <2>6. Rank(sc, m) = k - 1
    BY <1>1, <1>2, <2>1, RankIs
  <2>7. found # {}
    BY <2>2
  <2>8. answer(list) = k - 1
    BY <2>4, <2>5, <2>7
  <2> QED  BY <1>2, <1>3, <1>6, <2>6, <2>8
<1> QED  BY <1>5, <1>6

LEMMA SkipShows ==
    ASSUME kind = "skiplist", SkipOK(index)
    PROVE  \E list : Shows(index, list)
<1>1. PICK list : ListOf(index, list) /\ Chain(index, 1) = list
  BY LowestList
<1>2. Listed = list /\ index.length = Len(list)
  BY <1>1 DEF Listed, ListOf, Table
<1>3. [m \in DOMAIN index.members |-> getMemberScore(m)] = ScoresOf(index)
  BY DEF getMemberScore, ScoresOf
<1>4. ASSUME NEW m
      PROVE  getRank(m) = IF m \in DOMAIN ScoresOf(index) THEN Rank(ScoresOf(index), m) ELSE NoRank
  BY <1>1, SlRankIs DEF getRank
<1>5. ASSUME NEW start \in Int, NEW stop \in Int
      PROVE  getRange(start, stop) = Chosen(list, index.length, start, stop)
  <2>1. getRange(start, stop) = slRange(index, start, stop)
    BY DEF getRange
  <2>2. slRange(index, start, stop) = Chosen(Chain(index, 1), index.length, start, stop)
    BY Zenon DEF slRange, Chosen
  <2> QED  BY <1>1, <2>1, <2>2
<1> QED  BY <1>1, <1>2, <1>3, <1>4, <1>5 DEF Shows

-----------------------------------------------------------------------------
(* The operators on sequences that the B+ tree uses                          *)

LEMMA Concat ==
    ASSUME NEW S, NEW a \in Seq(S), NEW b \in Seq(S), NEW v, v = a \o b,
           NEW m, m = Len(a), NEW n, n = Len(b)
    PROVE  /\ v \in Seq(S) /\ Len(v) = m + n
           /\ \A i \in 1 .. m : v[i] = a[i]
           /\ \A i \in 1 .. n : v[m + i] = b[i]
  BY SMTT(30)

LEMMA InsertAtIs ==
    ASSUME NEW S, NEW s \in Seq(S), NEW e \in S, NEW p \in 0 .. Len(s)
    PROVE  /\ Seqs!InsertAt(s, p + 1, e) = Inserted(s, e, p)
           /\ Inserted(s, e, p) \in Seq(S) /\ Len(Inserted(s, e, p)) = Len(s) + 1
<1>1. PICK n \in Nat : n = Len(s)
  OBVIOUS
<1>2. PICK t : t = SubSeq(s, 1, p)
  OBVIOUS
<1>3. PICK u : u = SubSeq(s, p + 1, n)
  OBVIOUS
<1>4. t \in Seq(S) /\ Len(t) = p /\ \A i \in 1 .. p : t[i] = s[i]
  BY <1>1, <1>2, SMTT(30)
<1>5. u \in Seq(S) /\ Len(u) = n - p /\ \A i \in 1 .. n - p : u[i] = s[p + i]
  BY <1>1, <1>3, SMTT(30)
<1>6. PICK v : v = t \o <<e>> \o u
  OBVIOUS
<1>7. v \in Seq(S) /\ Len(v) = n + 1
      /\ \A i \in 1 .. n + 1 : v[i] = IF i <= p THEN s[i] ELSE IF i = p + 1 THEN e ELSE s[i - 1]
  <2>1. PICK w : w = t \o <<e>>
    OBVIOUS
  <2>2. <<e>> \in Seq(S) /\ Len(<<e>>) = 1 /\ <<e>>[1] = e /\ 1 \in 1 .. 1
    OBVIOUS
  <2>3. w \in Seq(S) /\ Len(w) = p + 1 /\ (\A i \in 1 .. p : w[i] = s[i]) /\ w[p + 1] = e
    BY <1>4, <2>1, <2>2, Concat
  <2>4. v = w \o u
    BY <1>6, <2>1
  <2>5. /\ v \in Seq(S) /\ Len(v) = p + 1 + (n - p) /\ \A i \in 1 .. p + 1 : v[i] = w[i]
        /\ \A i \in 1 .. n - p : v[p + 1 + i] = s[p + i]
    <3>1. PICK m, k : m = p + 1 /\ k = n - p
      OBVIOUS
    <3>2. m = Len(w) /\ k = Len(u) /\ \A i \in 1 .. k : u[i] = s[p + i]
      BY <1>5, <2>3, <3>1
    <3>3. /\ v \in Seq(S) /\ Len(v) = m + k /\ (\A i \in 1 .. m : v[i] = w[i])
          /\ \A i \in 1 .. k : v[m + i] = u[i]
      <4>1. w \in Seq(S) /\ u \in Seq(S) /\ v = w \o u /\ m = Len(w) /\ k = Len(u)
        BY <1>5, <2>3, <2>4, <3>2
      <4> QED  BY <4>1, Concat
    <3> QED  BY <3>1, <3>2, <3>3
  <2>6. p + 1 + (n - p) = n + 1
    BY <1>1, SMT
  <2>7. ASSUME NEW i \in 1 .. n + 1
        PROVE  v[i] = IF i <= p THEN s[i] ELSE IF i = p + 1 THEN e ELSE s[i - 1]
    <3>1. CASE i <= p + 1
      <4>1. i \in 1 .. p + 1 /\ (i <= p => i \in 1 .. p) /\ (~ (i <= p) => i = p + 1)
        BY <1>1, <3>1, SMT
      <4> QED  BY <2>3, <2>5, <4>1
    <3>2. CASE ~ (i <= p + 1)
      <4>1. PICK j : j = i - p - 1
        OBVIOUS
      <4>2. j \in 1 .. n - p /\ i = p + 1 + j /\ i - 1 = p + j /\ ~ (i <= p) /\ i # p + 1
        BY <1>1, <3>2, <4>1, SMT
      <4>3. v[p + 1 + j] = s[p + j]
        BY <2>5, <4>2
      <4> QED  BY <4>2, <4>3
    <3> QED  BY <3>1, <3>2
  <2> QED  BY <2>5, <2>6, <2>7
<1>8. v = Inserted(s, e, p)
  BY <1>1, <1>7 DEF Inserted
<1>9. Seqs!InsertAt(s, p + 1, e) = v
  <2>1. PICK q : q = p + 1
    OBVIOUS
  <2>2. q - 1 = p
    BY <2>1, SMT
  <2>3. Seqs!InsertAt(s, q, e) = SubSeq(s, 1, q - 1) \o <<e>> \o SubSeq(s, q, Len(s))
    BY DEF Seqs!InsertAt
  <2> QED  BY <1>1, <1>2, <1>3, <1>6, <2>1, <2>2, <2>3
<1> QED  BY <1>1, <1>7, <1>8, <1>9

LEMMA RemoveAtIs ==
    ASSUME NEW S, NEW s \in Seq(S), NEW p \in Nat, p + 1 \in 1 .. Len(s)
    PROVE  /\ Seqs!RemoveAt(s, p + 1) = Removed(s, p)
           /\ Removed(s, p) \in Seq(S) /\ Len(Removed(s, p)) = Len(s) - 1
<1>1. PICK n \in Nat : n = Len(s)
  OBVIOUS
<1>2. PICK t : t = SubSeq(s, 1, p)
  OBVIOUS
<1>3. PICK u : u = SubSeq(s, p + 2, n)
  OBVIOUS
<1>4. t \in Seq(S) /\ Len(t) = p /\ \A i \in 1 .. p : t[i] = s[i]
  BY <1>1, <1>2, SMTT(30)
<1>5. u \in Seq(S) /\ Len(u) = n - p - 1 /\ \A i \in 1 .. n - p - 1 : u[i] = s[p + 1 + i]
  BY <1>1, <1>3, SMTT(30)
<1>6. PICK v : v = t \o u
  OBVIOUS
<1>7. v \in Seq(S) /\ Len(v) = n - 1
      /\ \A i \in 1 .. n - 1 : v[i] = IF i <= p THEN s[i] ELSE s[i + 1]
  <2>1. /\ v \in Seq(S) /\ Len(v) = p + (n - p - 1) /\ \A i \in 1 .. p : v[i] = s[i]
        /\ \A i \in 1 .. n - p - 1 : v[p + i] = s[p + 1 + i]
    <3>1. PICK k : k = n - p - 1
      OBVIOUS
    <3>2. p = Len(t) /\ k = Len(u) /\ \A i \in 1 .. k : u[i] = s[p + 1 + i]
      BY <1>4, <1>5, <3>1
    <3>3. /\ v \in Seq(S) /\ Len(v) = p + k /\ (\A i \in 1 .. p : v[i] = t[i])
          /\ \A i \in 1 .. k : v[p + i] = u[i]
      <4>1. t \in Seq(S) /\ u \in Seq(S) /\ v = t \o u /\ p = Len(t) /\ k = Len(u)
        BY <1>4, <1>5, <1>6, <3>2
      <4> QED  BY <4>1, Concat
    <3> QED  BY <1>4, <3>1, <3>2, <3>3
  <2>2. p + (n - p - 1) = n - 1
    BY <1>1, SMT
  <2>3. ASSUME NEW i \in 1 .. n - 1 PROVE v[i] = IF i <= p THEN s[i] ELSE s[i + 1]
    <3>1. CASE i <= p
      <4>1. i \in 1 .. p
        BY <1>1, <3>1, SMT
      <4> QED  BY <2>1, <3>1, <4>1
    <3>2. CASE ~ (i <= p)
      <4>1. PICK j : j = i - p
        OBVIOUS
      <4>2. j \in 1 .. n - p - 1 /\ i = p + j /\ i + 1 = p + 1 + j
        BY <1>1, <3>2, <4>1, SMT
      <4>3. v[p + j] = s[p + 1 + j]
        BY <2>1, <4>2
      <4> QED  BY <3>2, <4>2, <4>3
    <3> QED  BY <3>1, <3>2
  <2> QED  BY <2>1, <2>2, <2>3
<1>8. v = Removed(s, p)
  BY <1>1, <1>7 DEF Removed
<1>9. Seqs!RemoveAt(s, p + 1) = v
  <2>1. PICK q : q = p + 1
    OBVIOUS
  <2>2. q - 1 = p /\ q + 1 = p + 2
    BY <2>1, SMT
  <2>3. Seqs!RemoveAt(s, q) = SubSeq(s, 1, q - 1) \o SubSeq(s, q + 1, Len(s))
    BY DEF Seqs!RemoveAt
  <2> QED  BY <1>1, <1>2, <1>3, <1>6, <2>1, <2>2, <2>3
<1> QED  BY <1>1, <1>7, <1>8, <1>9

LEMMA SubSeqIs ==
    ASSUME NEW S, NEW s \in Seq(S), NEW a \in Nat \ {0}, NEW b \in Nat, b <= Len(s), a <= b + 1
    PROVE  /\ SubSeq(s, a, b) \in Seq(S) /\ Len(SubSeq(s, a, b)) = b - a + 1
           /\ DOMAIN SubSeq(s, a, b) = 1 .. b - a + 1
           /\ \A i \in 1 .. b - a + 1 : SubSeq(s, a, b)[i] = s[a + i - 1]
  BY SMTT(30)

\* The child that a search for x goes on to is i.
Leads(keys, x, i) == /\ i \in 1 .. Len(keys) + 1
                     /\ \A j \in 1 .. i - 1 : ~ less(x, keys[j])
                     /\ i <= Len(keys) => less(x, keys[i])

LEMMA MinIs ==
    ASSUME NEW S \in SUBSET Nat, NEW x \in S, \A y \in S : x <= y
    PROVE  Min(S) = x
<1>1. ASSUME NEW z \in S, \A y \in S : z <= y PROVE z = x
  <2>1. z <= x /\ x <= z /\ x \in Nat /\ z \in Nat
    BY <1>1
  <2> QED  BY <2>1, SMT
<1> QED  BY <1>1 DEF Min

LEMMA MinOf ==
    ASSUME NEW S \in SUBSET Nat, S # {}
    PROVE  Min(S) \in S /\ \A y \in S : Min(S) <= y
<1>1. PICK x \in S : \A y \in S : x <= y
  BY LeastNumber
<1> QED  BY <1>1, MinIs

LEMMA BranchIs ==
    ASSUME NEW keys \in Seq(AnyItem), NEW x
    PROVE  /\ Leads(keys, x, Branch(keys, x))
           /\ \A i : Leads(keys, x, i) => i = Branch(keys, x)
<1>1. PICK n \in Nat : n = Len(keys) /\ DOMAIN keys = 1 .. n
  OBVIOUS
<1>2. PICK S : S = {i \in 1 .. n : less(x, keys[i])} \union {n + 1}
  OBVIOUS
<1>3. S \in SUBSET Nat /\ n + 1 \in S /\ \A i \in S : i \in 1 .. n + 1
  BY <1>1, <1>2, SMT
<1>4. Branch(keys, x) = Min(S)
  BY <1>1, <1>2 DEF Branch, Search
<1>5. PICK b : b = Min(S)
  OBVIOUS
<1>6. b \in S /\ \A y \in S : b <= y
  BY <1>3, <1>5, MinOf
<1>7. Leads(keys, x, b)
  <2>1. \A j \in 1 .. b - 1 : j \in 1 .. n /\ ~ (b <= j)
    BY <1>1, <1>3, <1>6, SMT
  <2>2. \A j \in 1 .. b - 1 : ~ less(x, keys[j])
    BY <1>2, <1>6, <2>1
  <2>3. b <= n => less(x, keys[b])
    <3>1. ~ (n + 1 <= n)
      BY <1>1, SMT
    <3> QED  BY <1>2, <1>6, <3>1
  <2> QED  BY <1>1, <1>3, <1>6, <2>2, <2>3 DEF Leads
<1>8. ASSUME NEW i, Leads(keys, x, i) PROVE i = b
  <2>1. i \in 1 .. n + 1 /\ (\A j \in 1 .. i - 1 : ~ less(x, keys[j])) /\ (i <= n => less(x, keys[i]))
    BY <1>1, <1>8 DEF Leads
  <2>2. i \in S
    <3>1. i = n + 1 \/ (i \in 1 .. n /\ i <= n)
      BY <1>1, <2>1, SMT
    <3> QED  BY <1>2, <1>3, <2>1, <3>1
  <2>3. \A y \in S : i <= y
    <3> SUFFICES ASSUME NEW y \in S, ~ (i <= y) PROVE FALSE
      OBVIOUS
    <3>1. y \in 1 .. i - 1 /\ y # n + 1
      BY <1>1, <1>3, <2>1, SMT
    <3> QED  BY <1>2, <2>1, <3>1
  <2> QED  BY <1>3, <1>5, <2>2, <2>3, MinIs
<1> QED  BY <1>4, <1>5, <1>7, <1>8

LEMMA PlaceIs ==
    ASSUME NEW list, Sorted(list), NEW x \in AnyItem, NEW p, Before(list, x, p)
    PROVE  Place(list, x) = p + 1
<1>1. PICK n \in Nat : n = Len(list) /\ DOMAIN list = 1 .. n
  BY ListParts
<1>2. PICK S : S = {i \in 1 .. n : ~ less(list[i], x)} \union {n + 1}
  OBVIOUS
<1>3. p \in 0 .. n /\ \A i \in 1 .. n : less(list[i], x) <=> i <= p
  BY <1>1 DEF Before
<1>4. S \in SUBSET Nat
  BY <1>1, <1>2, SMT
<1>5. p + 1 \in S
  <2>1. p + 1 = n + 1 \/ (p + 1 \in 1 .. n /\ ~ (p + 1 <= p))
    BY <1>1, <1>3, SMT
  <2> QED  BY <1>2, <1>3, <2>1
<1>6. \A y \in S : p + 1 <= y
  <2> TAKE y \in S
  <2>1. y = n + 1 \/ (y \in 1 .. n /\ ~ (y <= p))
    BY <1>2, <1>3
  <2> QED  BY <1>1, <1>3, <2>1, SMT
<1>7. Min(S) = p + 1
  BY <1>4, <1>5, <1>6, MinIs
<1> QED  BY <1>1, <1>2, <1>7 DEF Place, Search

LEMMA FreshIs ==
    ASSUME NEW t, IsFiniteSet(DOMAIN t.nodes), DOMAIN t.nodes \in SUBSET Nat
    PROVE  Fresh(t) \in Nat /\ Fresh(t) \notin DOMAIN t.nodes
<1>1. PICK D : D = DOMAIN t.nodes
  OBVIOUS
<1>2. PICK n \in Nat : n = Cardinality(D)
  BY <1>1, FS_CardinalityType
<1>3. PICK F : F = (1 .. n + 1) \ D
  OBVIOUS
<1>4. F \in SUBSET Nat
  BY <1>3, SMT
<1>5. F # {}
  <2> SUFFICES ASSUME 1 .. n + 1 \subseteq D PROVE FALSE
    BY <1>3
  <2>1. Cardinality(1 .. n + 1) = n + 1
    <3>1. 1 \in Int /\ n + 1 \in Int /\ ~ (1 > n + 1) /\ n + 1 - 1 + 1 = n + 1
      BY SMT
    <3> QED  BY <3>1, FS_Interval
  <2>2. Cardinality(1 .. n + 1) <= Cardinality(D)
    BY <1>1, FS_Subset
  <2> QED  BY <1>2, <2>1, <2>2, SMT
<1>6. Min(F) \in F
  BY <1>4, <1>5, MinOf
<1>7. Fresh(t) = Min(F)
  BY <1>1, <1>2, <1>3 DEF Fresh
<1> QED  BY <1>1, <1>3, <1>4, <1>6, <1>7
=============================================================================
