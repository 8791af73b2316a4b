--------------------------- MODULE BPlusTreeProofs --------------------------
(***************************************************************************)
(* The B+ tree, for any members, scores and order of 3 or more. Every node *)
(* has a height, one more than its children's, so that each descent ends   *)
(* at a leaf; every node has a scope, the items it may hold, which its     *)
(* separators divide among its children; the leaves, from leafHead on, are *)
(* one list both ways and hold the items in order; members names each item *)
(* once; and the counts of the nodes are those of the items beneath them.  *)
(*                                                                         *)
(* What an index of either kind shows, the lowest level or the items of    *)
(* the leaves, is the map of scores that the calls say it is, and the      *)
(* queries answer from it.                                                 *)
(***************************************************************************)
EXTENDS OrderedIndexProofs

-----------------------------------------------------------------------------
(* The nodes of a B+ tree                                                    *)

\* A pointer between leaves; a node of the tree with every field.
Pointer == Nat \union {NoNode}
AnyNode == [isLeaf : BOOLEAN, items : Seq(AnyItem), keys : Seq(AnyItem), children : Seq(Nat),
            count : Nat, next : Pointer, prev : Pointer]

\* N maps finitely many names to nodes.
Typed(N) == DOMAIN N \in SUBSET Nat /\ IsFiniteSet(DOMAIN N) /\ N \in [DOMAIN N -> AnyNode]

\* Node n is the i-th child of p.
Child(N, p, i, n) == p \in DOMAIN N /\ i \in 1 .. Len(N[p].children) /\ N[p].children[i] = n

\* Every node has a height, a leaf none.
Ranked(N, h) ==
    /\ \A n \in DOMAIN N : h[n] \in Nat /\ (N[n].isLeaf <=> h[n] = 0)
    /\ \A p, i, n : Child(N, p, i, n) => n \in DOMAIN N /\ h[p] = h[n] + 1

\* No node is a child twice.
OneParent(N) == \A p, q, i, j, n : Child(N, p, i, n) /\ Child(N, q, j, n) => p = q /\ i = j

\* All nodes but the orphans hang from the root.
Rooted(N, root, h, orphans) ==
    /\ root \in DOMAIN N
    /\ \A n \in DOMAIN N : /\ h[n] <= h[root]
                           /\ n # root /\ n \notin orphans => \E p, i : Child(N, p, i, n)

\* The scope W[n] of a node: items that a search for them leads to n, the items and
\* keys under n among them.
Routed(N, W) ==
    /\ \A n \in DOMAIN N : /\ W[n] \in SUBSET AnyItem
                           /\ Nodes(N[n].items) \subseteq W[n] /\ Nodes(N[n].keys) \subseteq W[n]
    /\ \A p, i, n : Child(N, p, i, n) => \A x \in W[n] : x \in W[p] /\ Leads(N[p].keys, x, i)

\* What a leaf and an inner node keep in their fields.
Shaped(N) ==
    \A n \in DOMAIN N :
        /\ Sorted(N[n].items) /\ Sorted(N[n].keys)
        /\ IF N[n].isLeaf THEN N[n].keys = <<>> /\ N[n].children = <<>> ELSE N[n].items = <<>>
        /\ N[n].children # <<>> => Len(N[n].children) = Len(N[n].keys) + 1

\* Nodes that hang from the root by their children, each lower and narrower than its
\* parent; but for the orphans, a new sibling that hangs from nothing yet.
Nest(N, root, h, W, orphans) ==
    /\ Typed(N) /\ Ranked(N, h) /\ OneParent(N) /\ Rooted(N, root, h, orphans)
    /\ Routed(N, W) /\ Shaped(N)

\* What the fields of a node are.
LEMMA NodeParts ==
    ASSUME NEW N, Typed(N), NEW n \in DOMAIN N
    PROVE  /\ n \in Nat /\ N[n] \in AnyNode /\ N[n].isLeaf \in BOOLEAN /\ N[n].items \in Seq(AnyItem)
           /\ N[n].keys \in Seq(AnyItem) /\ N[n].children \in Seq(Nat) /\ N[n].count \in Nat
           /\ N[n].next \in Pointer /\ N[n].prev \in Pointer
           /\ Len(N[n].items) \in Nat /\ Len(N[n].keys) \in Nat /\ Len(N[n].children) \in Nat
<1>1. n \in Nat /\ N[n] \in AnyNode
  BY DEF Typed
<1>2. /\ N[n].isLeaf \in BOOLEAN /\ N[n].items \in Seq(AnyItem)
      /\ N[n].keys \in Seq(AnyItem) /\ N[n].children \in Seq(Nat) /\ N[n].count \in Nat
      /\ N[n].next \in Pointer /\ N[n].prev \in Pointer
  BY <1>1 DEF AnyNode
<1> QED  BY <1>1, <1>2

\* Nodes that differ in neither keys nor children nest alike.
LEMMA SameNest ==
    ASSUME NEW N, NEW root, NEW h, NEW W, NEW orphans, Nest(N, root, h, W, orphans),
           NEW M, Typed(M), DOMAIN M = DOMAIN N,
           \A n \in DOMAIN N :
              /\ M[n].isLeaf = N[n].isLeaf /\ M[n].keys = N[n].keys /\ M[n].children = N[n].children
              /\ Sorted(M[n].items) /\ Nodes(M[n].items) \subseteq W[n]
              /\ ~ M[n].isLeaf => M[n].items = <<>>
    PROVE  Nest(M, root, h, W, orphans) /\ \A p, i, n : Child(M, p, i, n) <=> Child(N, p, i, n)
<1>1. \A p, i, n : Child(M, p, i, n) <=> Child(N, p, i, n)
  BY DEF Child
<1>2. Ranked(M, h)
  <2>1. \A n \in DOMAIN M : h[n] \in Nat /\ (M[n].isLeaf <=> h[n] = 0)
    BY DEF Ranked, Nest
  <2>2. ASSUME NEW p, NEW i, NEW n, Child(M, p, i, n) PROVE n \in DOMAIN M /\ h[p] = h[n] + 1
    <3>1. Child(N, p, i, n)
      BY <1>1, <2>2
    <3> QED  BY <3>1 DEF Nest, Ranked
  <2> QED  BY <2>1, <2>2, Zenon DEF Ranked
<1>3. OneParent(M)
  <2> SUFFICES ASSUME NEW p, NEW q, NEW i, NEW j, NEW n, Child(M, p, i, n), Child(M, q, j, n)
               PROVE  p = q /\ i = j
    BY Zenon DEF OneParent
  <2>1. Child(N, p, i, n) /\ Child(N, q, j, n)
    BY <1>1
  <2> QED  BY <2>1 DEF OneParent, Nest
<1>4. Rooted(M, root, h, orphans)
  <2>1. Rooted(N, root, h, orphans)
    BY DEF Nest
  <2> QED  BY <1>1, <2>1, Zenon DEF Rooted
<1>5. Routed(M, W)
  <2>1. \A n \in DOMAIN M : W[n] \in SUBSET AnyItem
    BY DEF Nest, Routed
  <2>2. \A n \in DOMAIN M : Nodes(M[n].items) \subseteq W[n] /\ Nodes(M[n].keys) \subseteq W[n]
    BY DEF Nest, Routed
  <2>3. ASSUME NEW p, NEW i, NEW n, Child(M, p, i, n), NEW x \in W[n]
        PROVE  x \in W[p] /\ Leads(M[p].keys, x, i)
    <3>1. p \in DOMAIN N /\ Child(N, p, i, n)
      BY <1>1, <2>3 DEF Child
    <3>2. x \in W[p] /\ Leads(N[p].keys, x, i)
      BY <2>3, <3>1 DEF Nest, Routed
    <3> QED  BY <3>1, <3>2
  <2> QED  BY <2>1, <2>2, <2>3, Zenon DEF Routed
<1>6. Shaped(M)
  <2> SUFFICES ASSUME NEW n \in DOMAIN M
               PROVE  /\ Sorted(M[n].items) /\ Sorted(M[n].keys)
                      /\ IF M[n].isLeaf THEN M[n].keys = <<>> /\ M[n].children = <<>>
                         ELSE M[n].items = <<>>
                      /\ M[n].children # <<>> => Len(M[n].children) = Len(M[n].keys) + 1
    BY DEF Shaped
  <2>1. /\ Sorted(N[n].keys) /\ (N[n].isLeaf => N[n].keys = <<>> /\ N[n].children = <<>>)
        /\ N[n].children # <<>> => Len(N[n].children) = Len(N[n].keys) + 1
    BY DEF Nest, Shaped
  <2> QED  BY <2>1
<1> QED  BY <1>1, <1>2, <1>3, <1>4, <1>5, <1>6 DEF Nest

-----------------------------------------------------------------------------
(* The chain of leaves                                                       *)

\* The leaves among the nodes.
Leafs(N) == {n \in DOMAIN N : N[n].isLeaf}

\* L is the sequence of leaves that the pointers go through.
Chained(N, head, L) ==
    /\ L \in Seq(Leafs(N)) /\ Nodes(L) = Leafs(N)
    /\ \A i, j \in 1 .. Len(L) : L[i] = L[j] => i = j
    /\ head = IF Len(L) = 0 THEN NoNode ELSE L[1]
    /\ \A i \in 1 .. Len(L) : /\ N[L[i]].next = IF i = Len(L) THEN NoNode ELSE L[i + 1]
                              /\ N[L[i]].prev = IF i = 1 THEN NoNode ELSE L[i - 1]

\* Every item of S comes before every item of T.
Below(S, T) == \A x \in S, y \in T : less(x, y)

\* The leaves of L have scopes one after the other.
InOrder(W, L) == \A i, j \in 1 .. Len(L) : i < j => Below(W[L[i]], W[L[j]])

\* The chain of leaves names leaves, each once.
LEMMA ChainParts ==
    ASSUME NEW N, NEW head, NEW L, Chained(N, head, L)
    PROVE  /\ Len(L) \in Nat /\ DOMAIN L = 1 .. Len(L)
           /\ \A i \in 1 .. Len(L) : L[i] \in Leafs(N) /\ L[i] \in DOMAIN N /\ N[L[i]].isLeaf
           /\ \A n \in Leafs(N) : \E i \in 1 .. Len(L) : L[i] = n
<1>1. L \in Seq(Leafs(N))
  BY DEF Chained
<1>2. Len(L) \in Nat /\ DOMAIN L = 1 .. Len(L) /\ \A i \in 1 .. Len(L) : L[i] \in Leafs(N)
  BY <1>1
<1>3. \A n \in Leafs(N) : \E i \in 1 .. Len(L) : L[i] = n
  BY DEF Chained, Nodes
<1> QED  BY <1>2, <1>3 DEF Leafs

\* Nodes with the same leaves and pointers have the same chain.
LEMMA SameChain ==
    ASSUME NEW N, NEW head, NEW L, Chained(N, head, L), NEW M, Leafs(M) = Leafs(N),
           \A n \in Leafs(N) : M[n].next = N[n].next /\ M[n].prev = N[n].prev
    PROVE  Chained(M, head, L)
<1>1. \A i \in 1 .. Len(L) : L[i] \in Leafs(N)
  BY ChainParts
<1>2. \A i \in 1 .. Len(L) : M[L[i]].next = N[L[i]].next /\ M[L[i]].prev = N[L[i]].prev
  BY <1>1
<1> QED  BY <1>2 DEF Chained

-----------------------------------------------------------------------------
(* What a search for an item relies on                                       *)

LEMMA RootHasNoParent ==
    ASSUME NEW N, NEW root, NEW h, NEW orphans, Ranked(N, h), Rooted(N, root, h, orphans),
           NEW p, NEW i, Child(N, p, i, root)
    PROVE  FALSE
<1>1. p \in DOMAIN N /\ root \in DOMAIN N
  BY DEF Child, Rooted
<1>2. h[p] = h[root] + 1 /\ h[p] <= h[root]
  BY <1>1 DEF Ranked, Rooted
<1>3. h[p] \in Nat /\ h[root] \in Nat
  BY <1>1 DEF Ranked
<1> QED  BY <1>2, <1>3, SMT

\* Items that keys lead to two places are in the order of the places.
LEMMA KeyBetween ==
    ASSUME NEW keys \in Seq(AnyItem), NEW x \in AnyItem, NEW y \in AnyItem, NEW i, NEW j,
           Leads(keys, x, i), Leads(keys, y, j), i < j
    PROVE  less(x, y)
<1>1. /\ i \in 1 .. Len(keys) + 1 /\ j \in 1 .. Len(keys) + 1
      /\ \A k \in 1 .. j - 1 : ~ less(y, keys[k])
      /\ i <= Len(keys) => less(x, keys[i])
  BY DEF Leads
<1>2. i \in 1 .. j - 1 /\ i <= Len(keys) /\ i \in 1 .. Len(keys)
  BY <1>1, SMT
<1>3. less(x, keys[i]) /\ ~ less(y, keys[i]) /\ keys[i] \in AnyItem
  BY <1>1, <1>2
<1> QED  BY <1>3, LessOrder

\* The scopes of two nodes of one height are apart.
LEMMA Separated ==
    ASSUME NEW N, NEW root, NEW h, NEW W, Nest(N, root, h, W, {}),
           NEW a \in DOMAIN N, NEW b \in DOMAIN N, a # b, h[a] = h[b]
    PROVE  Below(W[a], W[b]) \/ Below(W[b], W[a])
<1> DEFINE D == DOMAIN N
           Apart(u, v) == Below(W[u], W[v]) \/ Below(W[v], W[u])
           S == {k \in Nat : \A u, v \in D : u # v /\ h[u] = k /\ h[v] = k => Apart(u, v)}
<1>1. PICK H \in Nat : H = h[root]
  BY DEF Nest, Ranked, Rooted
<1>2. \A n \in D : h[n] \in Nat /\ h[n] <= H /\ W[n] \subseteq AnyItem /\ N[n].keys \in Seq(AnyItem)
  BY <1>1, NodeParts DEF Nest, Ranked, Rooted, Routed
<1>3. \A n \in D : n # root => \E p, i : Child(N, p, i, n)
  BY DEF Nest, Rooted
<1>4. \A p, i, n : Child(N, p, i, n) => p \in D /\ h[p] = h[n] + 1
  BY DEF Nest, Ranked, Child
<1>5. H \in S
  <2> SUFFICES ASSUME NEW n \in D, h[n] = H, n # root PROVE FALSE
    BY <1>1 DEF Nest, Rooted
  <2>1. PICK p, i : Child(N, p, i, n)
    BY <1>3
  <2>2. p \in D /\ h[p] = H + 1 /\ h[p] <= H
    BY <1>2, <1>4, <2>1
  <2> QED  BY <1>1, <2>2, SMT
<1>6. ASSUME NEW k \in 0 .. H, k > 0, k \in S PROVE k - 1 \in S
  <2> SUFFICES ASSUME NEW u \in D, NEW v \in D, u # v, h[u] = k - 1, h[v] = k - 1
               PROVE  Apart(u, v)
    <3>1. k - 1 \in Nat
      BY <1>6, SMT
    <3> QED  BY <3>1
  <2>1. u # root /\ v # root
    <3>1. k - 1 # H
      BY <1>1, <1>6, SMT
    <3> QED  BY <1>1, <3>1
  <2>2. PICK p, i : Child(N, p, i, u)
    BY <1>3, <2>1
  <2>3. PICK q, j : Child(N, q, j, v)
    BY <1>3, <2>1
  <2>4. p \in D /\ q \in D /\ h[p] = k /\ h[q] = k
    <3>1. k - 1 + 1 = k
      BY SMT
    <3> QED  BY <1>4, <2>2, <2>3, <3>1
  <2>5. \A x \in W[u] : x \in W[p] /\ Leads(N[p].keys, x, i) /\ x \in AnyItem
    BY <1>2, <2>2 DEF Nest, Routed
  <2>6. \A x \in W[v] : x \in W[q] /\ Leads(N[q].keys, x, j) /\ x \in AnyItem
    BY <1>2, <2>3 DEF Nest, Routed
  <2>7. CASE p # q
    <3>1. Below(W[p], W[q]) \/ Below(W[q], W[p])
      BY <1>6, <2>4, <2>7
    <3> QED  BY <2>5, <2>6, <3>1 DEF Below
  <2>8. CASE p = q
    <3>1. i # j
      BY <2>2, <2>3, <2>8 DEF Child
    <3>2. i \in Int /\ j \in Int
      <4>1. \A c \in D : \A m \in 1 .. Len(N[c].children) : m \in Int
        BY SMT
      <4> QED  BY <2>2, <2>3, <2>4, <4>1 DEF Child
    <3>3. i < j \/ j < i
      BY <3>1, <3>2, SMT
    <3>4. N[p].keys \in Seq(AnyItem)
      BY <1>2, <2>4
    <3>5. i < j => Below(W[u], W[v])
      BY <2>5, <2>6, <2>8, <3>4, KeyBetween DEF Below
    <3>6. j < i => Below(W[v], W[u])
      BY <2>5, <2>6, <2>8, <3>4, KeyBetween DEF Below
    <3> QED  BY <3>3, <3>5, <3>6
  <2> QED  BY <2>7, <2>8
<1> HIDE DEF S
<1>7. \A k \in 0 .. H : k \in S
  BY <1>1, <1>5, <1>6, CountDown
<1>8. h[a] \in 0 .. H
  BY <1>1, <1>2, SMT
<1> QED  BY <1>7, <1>8 DEF S

\* The node a search for x goes on to.
Toward(N, x, n) == N[n].children[Branch(N[n].keys, x)]

\* Every inner node has a child.
InnersFull(N) == \A n \in DOMAIN N : ~ N[n].isLeaf => N[n].children # <<>>

\* A search goes on to a child, one lower, whose place its keys allow.
LEMMA TowardChild ==
    ASSUME NEW N, NEW root, NEW h, NEW W, NEW orphans, Nest(N, root, h, W, orphans),
           NEW x \in AnyItem, NEW n \in DOMAIN N, N[n].children # <<>>
    PROVE  /\ Child(N, n, Branch(N[n].keys, x), Toward(N, x, n))
           /\ Leads(N[n].keys, x, Branch(N[n].keys, x))
           /\ Toward(N, x, n) \in DOMAIN N /\ h[n] = h[Toward(N, x, n)] + 1
<1>1. N[n].keys \in Seq(AnyItem) /\ Len(N[n].children) = Len(N[n].keys) + 1
  BY NodeParts DEF Nest, Shaped
<1>2. Leads(N[n].keys, x, Branch(N[n].keys, x))
  BY <1>1, BranchIs
<1>3. Child(N, n, Branch(N[n].keys, x), Toward(N, x, n))
  BY <1>1, <1>2 DEF Child, Leads, Toward
<1> QED  BY <1>2, <1>3 DEF Nest, Ranked

\* A set of nodes with the root that a search for x does not leave.
Path(N, root, x, P) ==
    P \in SUBSET DOMAIN N /\ root \in P /\ \A n \in P : ~ N[n].isLeaf => Toward(N, x, n) \in P

\* Scopes can be chosen so that x is in that of every node a search for it comes to.
LEMMA Admit ==
    ASSUME NEW N, NEW root, NEW h, NEW W, Nest(N, root, h, W, {}), InnersFull(N), NEW x \in AnyItem
    PROVE  \E V, P : /\ Nest(N, root, h, V, {}) /\ Path(N, root, x, P) /\ \A n \in P : x \in V[n]
                     /\ \A n \in DOMAIN N : W[n] \subseteq V[n]
<1> DEFINE D == DOMAIN N
           P == {n \in D : \A Q : Path(N, root, x, Q) => n \in Q}
           V == [n \in D |-> IF n \in P THEN W[n] \union {x} ELSE W[n]]
<1>1. \A n \in D : ~ N[n].isLeaf =>
         /\ Child(N, n, Branch(N[n].keys, x), Toward(N, x, n)) /\ Toward(N, x, n) \in D
         /\ Leads(N[n].keys, x, Branch(N[n].keys, x))
  BY TowardChild DEF InnersFull
<1>2. root \in P
  BY DEF Nest, Rooted, Path
<1>3. \A n \in P : ~ N[n].isLeaf => Toward(N, x, n) \in P
  BY <1>1 DEF Path
<1>p. P \in SUBSET D /\ \A Q, n : n \in P /\ Path(N, root, x, Q) => n \in Q
  OBVIOUS
<1>q. Path(N, root, x, P)
  BY <1>2, <1>3, <1>p DEF Path
<1> HIDE DEF P
<1>4. ASSUME NEW p, NEW i, NEW n \in P, Child(N, p, i, n)
      PROVE  p \in P /\ Leads(N[p].keys, x, i)
  <2>1. p \in D /\ n \in D /\ n # root
    BY <1>p, <1>4, RootHasNoParent DEF Child, Nest
  <2>2. ~ N[p].isLeaf
    <3>1. h[p] = h[n] + 1 /\ h[n] \in Nat /\ (N[p].isLeaf => h[p] = 0)
      BY <1>4, <2>1 DEF Nest, Ranked
    <3>2. h[p] # 0
      BY <3>1, SMT
    <3> QED  BY <3>1, <3>2
  <2>3. ASSUME ~ (p \in P /\ i = Branch(N[p].keys, x)) PROVE FALSE
    <3>1. Path(N, root, x, P \ {n})
      <4>1. P \ {n} \in SUBSET D /\ root \in P \ {n}
        BY <1>2, <1>p, <2>1
      <4>2. ASSUME NEW q \in P \ {n}, ~ N[q].isLeaf PROVE Toward(N, x, q) \in P \ {n}
        <5>1. Toward(N, x, q) \in P
          BY <1>3, <4>2
        <5>2. ASSUME Toward(N, x, q) = n PROVE FALSE
          <6>1. Child(N, q, Branch(N[q].keys, x), n)
            BY <1>1, <1>p, <4>2, <5>2
          <6>2. q = p /\ i = Branch(N[q].keys, x)
            <7>1. OneParent(N)
              BY DEF Nest
            <7> QED  BY <1>4, <6>1, <7>1 DEF OneParent
          <6> QED  BY <2>3, <4>2, <6>2
        <5> QED  BY <5>1, <5>2
      <4> QED  BY <4>1, <4>2 DEF Path
    <3> QED  BY <1>p, <3>1
  <2>4. p \in P /\ i = Branch(N[p].keys, x)
    BY <2>3
  <2> QED  BY <1>1, <2>1, <2>2, <2>4
<1>5. Routed(N, V)
  <2>1. Routed(N, W) /\ \A n \in D : V[n] \in SUBSET AnyItem /\ W[n] \subseteq V[n]
    BY DEF Nest, Routed
  <2>3. \A n \in D : Nodes(N[n].items) \subseteq V[n] /\ Nodes(N[n].keys) \subseteq V[n]
    BY <2>1, Zenon DEF Routed
  <2>4. ASSUME NEW p, NEW i, NEW n, Child(N, p, i, n), NEW y \in V[n]
        PROVE  y \in V[p] /\ Leads(N[p].keys, y, i)
    <3>1. p \in D /\ n \in D
      BY <2>4 DEF Nest, Ranked, Child
    <3>2. CASE y \in W[n]
      <4>1. y \in W[p] /\ Leads(N[p].keys, y, i)
        BY <2>1, <2>4, <3>2 DEF Routed
      <4> QED  BY <2>1, <3>1, <4>1
    <3>3. CASE n \in P /\ y = x
      <4>1. p \in P /\ Leads(N[p].keys, y, i)
        BY <1>4, <2>4, <3>3
      <4> QED  BY <3>1, <3>3, <4>1
    <3> QED  BY <2>4, <3>1, <3>2, <3>3
  <2>5. \A n \in D : V[n] \in SUBSET AnyItem
    BY <2>1
  <2> HIDE DEF V
  <2> QED  BY <2>3, <2>4, <2>5, Zenon DEF Routed
<1>6. Nest(N, root, h, V, {})
  BY <1>5 DEF Nest
<1>7. (\A n \in P : x \in V[n]) /\ \A n \in D : W[n] \subseteq V[n]
  BY <1>p
<1> HIDE DEF V
<1> QED  BY <1>q, <1>6, <1>7, Zenon

\* The leaves stay in order when their scopes grow, if none but an only one is empty.
LEMMA StillInOrder ==
    ASSUME NEW N, NEW root, NEW h, NEW V, NEW W, NEW head, NEW L,
           Nest(N, root, h, V, {}), Routed(N, W), Chained(N, head, L), InOrder(W, L),
           \A n \in DOMAIN N : W[n] \subseteq V[n],
           Len(L) > 1 => \A n \in Leafs(N) : N[n].items # <<>>
    PROVE  InOrder(V, L)
<1> SUFFICES ASSUME NEW i \in 1 .. Len(L), NEW j \in 1 .. Len(L), i < j
             PROVE  Below(V[L[i]], V[L[j]])
  BY DEF InOrder
<1>1. PICK a, b : a = L[i] /\ b = L[j]
  OBVIOUS
<1>2. a \in Leafs(N) /\ b \in Leafs(N) /\ a \in DOMAIN N /\ b \in DOMAIN N
  BY <1>1, ChainParts
<1>3. a # b
  <2>1. i # j
    BY SMT
  <2> QED  BY <1>1, <2>1 DEF Chained
<1>4. h[a] = h[b]
  BY <1>2 DEF Nest, Ranked, Leafs
<1>5. Below(V[a], V[b]) \/ Below(V[b], V[a])
  BY <1>2, <1>3, <1>4, Separated
<1>6. Len(L) > 1
  <2>1. Len(L) \in Nat
    BY ChainParts
  <2> QED  BY <2>1, SMT
<1>7. \A n \in Leafs(N) : \E x \in W[n] : x \in AnyItem
  <2> TAKE n \in Leafs(N)
  <2>1. n \in DOMAIN N /\ N[n].items # <<>>
    BY <1>6 DEF Leafs
  <2>2. N[n].items \in Seq(AnyItem)
    BY <2>1, NodeParts DEF Nest
  <2>3. 1 \in 1 .. Len(N[n].items) /\ N[n].items[1] \in AnyItem
    BY <2>1, <2>2
  <2>4. N[n].items[1] \in Nodes(N[n].items)
    BY <2>3 DEF Nodes
  <2> QED  BY <2>1, <2>3, <2>4 DEF Routed
<1>8. PICK x \in W[a], y \in W[b] : x \in AnyItem /\ y \in AnyItem
  BY <1>2, <1>7
<1>9. less(x, y) /\ ~ less(y, x)
  BY <1>1, <1>8, LessOrder DEF InOrder, Below
<1>10. x \in V[a] /\ y \in V[b]
  BY <1>2, <1>8
<1> QED  BY <1>1, <1>5, <1>9, <1>10 DEF Below

-----------------------------------------------------------------------------
(* Nodes put in the place of others                                          *)

\* The nodes N with node under the name n.
Put(N, n, node) == [x \in DOMAIN N \union {n} |-> IF x = n THEN node ELSE N[x]]

LEMMA TypedPut ==
    ASSUME NEW N, Typed(N), NEW n \in Nat, NEW node \in AnyNode
    PROVE  /\ Typed(Put(N, n, node)) /\ DOMAIN Put(N, n, node) = DOMAIN N \union {n}
           /\ Put(N, n, node)[n] = node
           /\ \A m \in DOMAIN N : m # n => Put(N, n, node)[m] = N[m]
<1>1. PICK M : M = Put(N, n, node)
  OBVIOUS
<1>2. /\ DOMAIN M = DOMAIN N \union {n} /\ M[n] = node /\ \A m \in DOMAIN N : m # n => M[m] = N[m]
      /\ M = [x \in DOMAIN M |-> M[x]]
  BY <1>1 DEF Put
<1>3. \A m \in DOMAIN M : M[m] \in AnyNode
  BY <1>2 DEF Typed
<1>4. M \in [DOMAIN M -> AnyNode]
  BY <1>2, <1>3
<1>5. IsFiniteSet(DOMAIN M)
  BY <1>2, FS_AddElement DEF Typed
<1>6. DOMAIN M \in SUBSET Nat
  BY <1>2 DEF Typed
<1> QED  BY <1>1, <1>2, <1>4, <1>5, <1>6 DEF Typed

\* A leaf may get any items of its scope.
LEMMA Refill ==
    ASSUME NEW N, NEW root, NEW h, NEW W, NEW orphans, Nest(N, root, h, W, orphans),
           NEW head, NEW L, Chained(N, head, L),
           NEW n \in DOMAIN N, N[n].isLeaf, NEW items, Sorted(items), Nodes(items) \subseteq W[n],
           NEW M, M = Put(N, n, [N[n] EXCEPT !.items = items])
    PROVE  Nest(M, root, h, W, orphans) /\ Chained(M, head, L)
<1>1. N[n] \in AnyNode /\ n \in Nat /\ items \in Seq(AnyItem)
  BY NodeParts DEF Nest, Sorted
<1>2. PICK node : node = [N[n] EXCEPT !.items = items]
  OBVIOUS
<1>3. /\ node \in AnyNode /\ node.items = items /\ node.isLeaf = N[n].isLeaf /\ node.keys = N[n].keys
      /\ node.children = N[n].children /\ node.next = N[n].next /\ node.prev = N[n].prev
  BY <1>1, <1>2 DEF AnyNode
<1>4. /\ Typed(M) /\ DOMAIN M = DOMAIN N /\ M[n] = node /\ \A m \in DOMAIN N : m # n => M[m] = N[m]
  <2>1. M = Put(N, n, node) /\ Typed(N)
    BY <1>2 DEF Nest
  <2>2. DOMAIN N \union {n} = DOMAIN N
    OBVIOUS
  <2>3. n \in Nat /\ node \in AnyNode /\ Typed(N)
    BY <1>1, <1>3, <2>1
  <2>4. /\ Typed(Put(N, n, node)) /\ DOMAIN Put(N, n, node) = DOMAIN N \union {n}
        /\ Put(N, n, node)[n] = node
        /\ \A m \in DOMAIN N : m # n => Put(N, n, node)[m] = N[m]
    BY <2>3, TypedPut
  <2> QED  BY <2>1, <2>2, <2>4
<1>5. \A m \in DOMAIN N :
         /\ M[m].isLeaf = N[m].isLeaf /\ M[m].keys = N[m].keys /\ M[m].children = N[m].children
         /\ Sorted(M[m].items) /\ Nodes(M[m].items) \subseteq W[m]
         /\ ~ M[m].isLeaf => M[m].items = <<>>
  <2> TAKE m \in DOMAIN N
  <2>1. CASE m = n
    BY <1>3, <1>4, <2>1
  <2>2. CASE m # n
    <3>1. M[m] = N[m]
      BY <1>4, <2>2
    <3> QED  BY <3>1 DEF Nest, Shaped, Routed
  <2> QED  BY <2>1, <2>2
<1>6. Nest(M, root, h, W, orphans)
  <2>1. Typed(M) /\ DOMAIN M = DOMAIN N
    BY <1>4
  <2>2. PICK K : K = M
    OBVIOUS
  <2>3. Typed(K) /\ DOMAIN K = DOMAIN N
        /\ \A m \in DOMAIN N :
              /\ K[m].isLeaf = N[m].isLeaf /\ K[m].keys = N[m].keys /\ K[m].children = N[m].children
              /\ Sorted(K[m].items) /\ Nodes(K[m].items) \subseteq W[m]
              /\ ~ K[m].isLeaf => K[m].items = <<>>
    BY <1>5, <2>1, <2>2
  <2>4. Nest(K, root, h, W, orphans) /\ \A p, i, m : Child(K, p, i, m) <=> Child(N, p, i, m)
    BY <2>3, SameNest
  <2> QED  BY <2>2, <2>4
<1>7. Leafs(M) = Leafs(N) /\ \A m \in Leafs(N) : M[m].next = N[m].next /\ M[m].prev = N[m].prev
  <2>1. \A m \in DOMAIN N :
           M[m].isLeaf = N[m].isLeaf /\ M[m].next = N[m].next /\ M[m].prev = N[m].prev
    BY <1>3, <1>4, Zenon
  <2>2. Leafs(M) = Leafs(N)
    BY <1>4, <2>1, Zenon DEF Leafs
  <2> QED  BY <2>1, <2>2, Zenon DEF Leafs
<1>8. Chained(M, head, L)
  BY <1>7, SameChain, Zenon
<1> QED  BY <1>6, <1>8

-----------------------------------------------------------------------------
(* The steps of an insertion: what they make of the nodes                    *)

\* A record with the fields of a tree, and the tree t with other nodes.
IsTree(t) ==
    t = [nodes |-> t.nodes, root |-> t.root, leafHead |-> t.leafHead, members |-> t.members,
         length |-> t.length]
With(t, M) == [t EXCEPT !.nodes = M]

LEMMA WithIs ==
    ASSUME NEW t, IsTree(t), NEW M
    PROVE  /\ IsTree(With(t, M)) /\ With(t, M).nodes = M /\ With(t, M).root = t.root
           /\ With(t, M).leafHead = t.leafHead /\ With(t, M).members = t.members
           /\ With(t, M).length = t.length
  BY DEF IsTree, With

LEMMA WithTwice ==
    ASSUME NEW t, IsTree(t), NEW M, NEW K
    PROVE  With(With(t, M), K) = With(t, K)
  BY DEF IsTree, With

LEMMA WithSame ==
    ASSUME NEW t, IsTree(t)
    PROVE  With(t, t.nodes) = t
  BY DEF IsTree, With

LEMMA HalfIs ==
    ASSUME NEW k \in Nat, NEW half, half = k \div 2
    PROVE  half \in Nat /\ 2 * half <= k /\ k <= 2 * half + 1 /\ half <= k
<1>1. half \in Nat
  BY SMT
<1>2. 2 * half <= k
  BY SMT
<1>3. k <= 2 * half + 1
  BY SMT
<1>4. half <= k
  BY SMT
<1> QED  BY <1>1, <1>2, <1>3, <1>4

LEMMA EditNode ==
    ASSUME NEW N, NEW n \in DOMAIN N, NEW node, N = [x \in DOMAIN N |-> N[x]]
    PROVE  [N EXCEPT ![n] = node] = Put(N, n, node)
<1>1. DOMAIN N \union {n} = DOMAIN N
  OBVIOUS
<1> QED  BY <1>1 DEF Put

LEMMA AllocateIs ==
    ASSUME NEW t, IsTree(t), NEW c, NEW node
    PROVE  Allocate(t, c, node) = With(t, Put(t.nodes, c, node))
  BY DEF Allocate, Put, With

LEMMA PointBackIs ==
    ASSUME NEW t, IsTree(t), Typed(t.nodes), NEW n \in DOMAIN t.nodes \union {NoNode}, NEW to \in Pointer
    PROVE  \E M : /\ PointBack(t, n, to) = With(t, M) /\ Typed(M) /\ DOMAIN M = DOMAIN t.nodes
                  /\ M = IF n = NoNode THEN t.nodes ELSE Put(t.nodes, n, [t.nodes[n] EXCEPT !.prev = to])
<1>1. PICK N : N = t.nodes
  OBVIOUS
<1>2. NoNode \notin DOMAIN N
  BY <1>1, BPlusTreeAssumption DEF Typed
<1>3. CASE n = NoNode
  <2>1. PointBack(t, n, to) = t
    BY <1>3 DEF PointBack
  <2>2. With(t, N) = t
    BY <1>1, WithSame
  <2> QED  BY <1>1, <1>3, <2>1, <2>2
<1>4. CASE n # NoNode
  <2>1. n \in DOMAIN N /\ n \in Nat /\ N[n] \in AnyNode /\ N = [x \in DOMAIN N |-> N[x]] /\ Typed(N)
    BY <1>1, <1>4 DEF Typed
  <2>2. PICK node : node = [N[n] EXCEPT !.prev = to]
    OBVIOUS
  <2>3. node \in AnyNode
    BY <2>1, <2>2 DEF AnyNode
  <2>4. PointBack(t, n, to) = With(t, [N EXCEPT ![n] = node])
    BY <1>1, <1>4, <2>2 DEF PointBack, With
  <2>5. [N EXCEPT ![n] = node] = Put(N, n, node)
    BY <2>1, EditNode
  <2>6. Typed(Put(N, n, node)) /\ DOMAIN Put(N, n, node) = DOMAIN N \union {n}
    BY <2>1, <2>3, TypedPut
  <2>7. DOMAIN N \union {n} = DOMAIN N
    BY <2>1
  <2> QED  BY <1>1, <1>4, <2>2, <2>4, <2>5, <2>6, <2>7
<1> QED  BY <1>3, <1>4

\* Leaf n keeps the first half of its items, a new leaf c after it gets the others.
LeafSplit(N, M, n, c, key) ==
    LET items == N[n].items
        half == Len(items) \div 2
    IN /\ Typed(M) /\ c \in Nat /\ c \notin DOMAIN N /\ DOMAIN M = DOMAIN N \union {c}
       /\ key = items[half + 1]
       /\ M[c].isLeaf /\ M[c].keys = <<>> /\ M[c].children = <<>>
       /\ M[c].items = SubSeq(items, half + 1, Len(items)) /\ M[c].next = N[n].next /\ M[c].prev = n
       /\ M[n].items = SubSeq(items, 1, half) /\ M[n].next = c
       /\ \A m \in DOMAIN N :
             /\ M[m].isLeaf = N[m].isLeaf /\ M[m].keys = N[m].keys /\ M[m].children = N[m].children
             /\ m # n => M[m].items = N[m].items /\ M[m].next = N[m].next
             /\ M[m].prev = IF m = N[n].next THEN c ELSE N[m].prev
             /\ m # n /\ m # N[n].next => M[m] = N[m]

LEMMA SplitLeafIs ==
    ASSUME NEW t, IsTree(t), Typed(t.nodes), NEW n \in DOMAIN t.nodes, t.nodes[n].isLeaf,
           t.nodes[n].next \in DOMAIN t.nodes \union {NoNode}, t.nodes[n].next # n
    PROVE  \E M, c, key : /\ SplitLeaf(t, n) = Split(With(t, M), key, c)
                          /\ LeafSplit(t.nodes, M, n, c, key)
<1>0. PICK N : N = t.nodes
  OBVIOUS
<1>1. /\ n \in Nat /\ N[n] \in AnyNode /\ N[n].items \in Seq(AnyItem) /\ N[n].next \in Pointer
      /\ N = [x \in DOMAIN N |-> N[x]] /\ Typed(N) /\ n \in DOMAIN N /\ N[n].isLeaf
      /\ N[n].next \in DOMAIN N \union {NoNode} /\ N[n].next # n
  BY <1>0, NodeParts DEF Typed
<1>2. t.nodes = N
  BY <1>0
<1>3. PICK c : c = Fresh(t)
  OBVIOUS
<1>4. c \in Nat /\ c \notin DOMAIN N /\ c # n
  <2>1. IsFiniteSet(DOMAIN t.nodes) /\ DOMAIN t.nodes \in SUBSET Nat
    BY DEF Typed
  <2> QED  BY <1>1, <1>2, <1>3, <2>1, FreshIs
<1>5. PICK items, half : items = N[n].items /\ half = Len(items) \div 2
  OBVIOUS
<1>6. PICK new : new = Leaf(SubSeq(items, half + 1, Len(items)), N[n].next, n)
  OBVIOUS
<1>7. PICK old : old = [N[n] EXCEPT !.items = SubSeq(items, 1, half), !.next = c]
  OBVIOUS
<1>8. items \in Seq(AnyItem) /\ Len(items) \in Nat /\ half \in Nat /\ half <= Len(items)
  <2>1. items \in Seq(AnyItem) /\ Len(items) \in Nat
    BY <1>1, <1>5
  <2> QED  BY <1>5, <2>1, HalfIs
<1>9. /\ new \in AnyNode /\ new.isLeaf /\ new.items = SubSeq(items, half + 1, Len(items))
      /\ new.keys = <<>> /\ new.children = <<>> /\ new.next = N[n].next /\ new.prev = n
  <2>1. /\ SubSeq(items, half + 1, Len(items)) \in Seq(AnyItem)
        /\ Len(SubSeq(items, half + 1, Len(items))) \in Nat
    BY <1>8, SMTT(30)
  <2>2. n \in Pointer /\ <<>> \in Seq(AnyItem) /\ <<>> \in Seq(Nat)
    BY <1>1 DEF Pointer
  <2> QED  BY <1>1, <1>6, <2>1, <2>2 DEF Leaf, AnyNode
<1>10. /\ old \in AnyNode /\ old.isLeaf = N[n].isLeaf /\ old.items = SubSeq(items, 1, half)
       /\ old.keys = N[n].keys /\ old.children = N[n].children /\ old.next = c
       /\ old.prev = N[n].prev
  <2>1. SubSeq(items, 1, half) \in Seq(AnyItem)
    <3>1. 1 <= half + 1 /\ 1 \in Nat \ {0}
      BY <1>8, SMT
    <3> QED  BY <1>8, <3>1, SubSeqIs
  <2>2. c \in Pointer
    BY <1>4 DEF Pointer
  <2> QED  BY <1>1, <1>7, <2>1, <2>2 DEF AnyNode
<1>11. PICK A : A = Put(N, c, new)
  OBVIOUS
<1>12. /\ Typed(A) /\ DOMAIN A = DOMAIN N \union {c} /\ A[c] = new
       /\ \A m \in DOMAIN N : m # c => A[m] = N[m]
  <2>1. c \in Nat /\ new \in AnyNode /\ Typed(N)
    BY <1>1, <1>4, <1>9
  <2>2. /\ Typed(Put(N, c, new)) /\ DOMAIN Put(N, c, new) = DOMAIN N \union {c}
        /\ Put(N, c, new)[c] = new
        /\ \A m \in DOMAIN N : m # c => Put(N, c, new)[m] = N[m]
    BY <2>1, TypedPut
  <2> QED  BY <1>11, <2>2
<1>13. PICK B : B = Put(A, n, old)
  OBVIOUS
<1>14. /\ Typed(B) /\ DOMAIN B = DOMAIN N \union {c} /\ B[c] = new /\ B[n] = old
       /\ \A m \in DOMAIN N : m # n => B[m] = N[m]
  <2>1. /\ Typed(B) /\ DOMAIN B = DOMAIN A \union {n} /\ B[n] = old
        /\ \A m \in DOMAIN A : m # n => B[m] = A[m]
    <3>1. Typed(A) /\ n \in Nat /\ old \in AnyNode
      BY <1>1, <1>10, <1>12
    <3>2. /\ Typed(Put(A, n, old)) /\ DOMAIN Put(A, n, old) = DOMAIN A \union {n}
          /\ Put(A, n, old)[n] = old
          /\ \A m \in DOMAIN A : m # n => Put(A, n, old)[m] = A[m]
      BY <3>1, TypedPut
    <3> QED  BY <1>13, <3>2
  <2> QED  BY <1>1, <1>4, <1>12, <2>1
<1>15. Halves(t, n, half + 1) = With(t, B)
  <2>1. PICK a : a = Allocate(t, c, new)
    OBVIOUS
  <2>2. a = With(t, A)
    BY <1>2, <1>11, <2>1, AllocateIs
  <2>3. IsTree(a) /\ a.nodes = A /\ A[n] = N[n] /\ A = [x \in DOMAIN A |-> A[x]] /\ n \in DOMAIN A
    <3>1. IsTree(a) /\ a.nodes = A
      BY <2>2, WithIs
    <3> QED  BY <1>1, <1>4, <1>12, <3>1 DEF Typed
  <2>4. Halves(t, n, half + 1)
        = [a EXCEPT !.nodes[n].items = SubSeq(@, 1, Len(@) \div 2), !.nodes[n].next = c]
    BY <1>2, <1>3, <1>5, <1>6, <2>1 DEF Halves
  <2>5. PICK left : left = SubSeq(items, 1, half)
    OBVIOUS
  <2>6. SubSeq(a.nodes[n].items, 1, Len(a.nodes[n].items) \div 2) = left
    BY <1>5, <2>3, <2>5
  <2>7. Halves(t, n, half + 1) = [a EXCEPT !.nodes[n].items = left, !.nodes[n].next = c]
    BY <2>4, <2>6
  <2>8. PICK mid, C : mid = [A[n] EXCEPT !.items = left] /\ C = [A EXCEPT ![n] = mid]
    OBVIOUS
  <2>9. PICK b : b = With(a, C)
    OBVIOUS
  <2>10. IsTree(b) /\ b.nodes = C
    BY <2>3, <2>9, WithIs
  <2>11. [a EXCEPT !.nodes[n].items = left] = b
    BY <2>3, <2>8, <2>9 DEF With
  <2>12. Halves(t, n, half + 1) = [b EXCEPT !.nodes[n].next = c]
    BY <2>7, <2>11
  <2>13. C[n] = mid /\ old = [mid EXCEPT !.next = c] /\ [C EXCEPT ![n] = old] = [A EXCEPT ![n] = old]
    BY <1>7, <2>3, <2>5, <2>8
  <2>14. [A EXCEPT ![n] = old] = B
    BY <1>13, <2>3, EditNode
  <2>15. Halves(t, n, half + 1) = With(b, B)
    BY <2>10, <2>12, <2>13, <2>14 DEF With
  <2>16. With(b, B) = With(a, B) /\ With(a, B) = With(t, B)
    BY <2>2, <2>3, <2>9, WithTwice
  <2> QED  BY <2>15, <2>16
<1>16. N[n].next \in DOMAIN B \union {NoNode} /\ c \in Pointer
  BY <1>1, <1>4, <1>14 DEF Pointer
<1>17. PICK M : /\ PointBack(Halves(t, n, half + 1), N[n].next, c) = With(t, M)
                /\ Typed(M) /\ DOMAIN M = DOMAIN B
                /\ M = IF N[n].next = NoNode THEN B
                       ELSE Put(B, N[n].next, [B[N[n].next] EXCEPT !.prev = c])
  <2>1. PICK b, next : b = Halves(t, n, half + 1) /\ next = N[n].next
    OBVIOUS
  <2>2. IsTree(b) /\ b.nodes = B
    BY <1>15, <2>1, WithIs
  <2>3. IsTree(b) /\ Typed(b.nodes) /\ next \in DOMAIN b.nodes \union {NoNode} /\ c \in Pointer
    BY <1>14, <1>16, <2>1, <2>2
  <2>4. PICK M : /\ PointBack(b, next, c) = With(b, M) /\ Typed(M) /\ DOMAIN M = DOMAIN b.nodes
                 /\ M = IF next = NoNode THEN b.nodes
                        ELSE Put(b.nodes, next, [b.nodes[next] EXCEPT !.prev = c])
    BY <2>3, PointBackIs
  <2>5. With(b, M) = With(t, M)
    BY <1>15, <2>1, WithTwice
  <2> QED  BY <2>1, <2>2, <2>4, <2>5
<1>18. SplitLeaf(t, n) = Split(With(t, M), items[half + 1], c)
  BY <1>2, <1>3, <1>5, <1>17 DEF SplitLeaf
<1>19. \A m \in DOMAIN N \union {c} :
          IF m = N[n].next THEN M[m] = [N[m] EXCEPT !.prev = c] /\ m # n /\ m # c ELSE M[m] = B[m]
  <2> TAKE m \in DOMAIN N \union {c}
  <2>1. CASE m = N[n].next
    <3>1. m # n /\ m \in DOMAIN N /\ m # c
      <4>1. c # NoNode
        BY <1>4, BPlusTreeAssumption
      <4> QED  BY <1>1, <1>4, <2>1, <4>1
    <3>2. M = Put(B, m, [B[m] EXCEPT !.prev = c]) /\ B[m] = N[m]
      <4>1. m # NoNode
        BY <1>1, <3>1, BPlusTreeAssumption DEF Typed
      <4> QED  BY <1>14, <1>17, <2>1, <3>1, <4>1
    <3> QED  BY <2>1, <3>1, <3>2 DEF Put
  <2>2. CASE m # N[n].next
    <3>1. N[n].next # NoNode => M[m] = B[m]
      BY <1>14, <1>17, <2>2 DEF Put
    <3> QED  BY <1>17, <2>2, <3>1
  <2> QED  BY <2>1, <2>2
<1>20. LeafSplit(N, M, n, c, items[half + 1])
  <2>1. M[c] = new
    BY <1>4, <1>14, <1>19
  <2>2. IF n = N[n].next THEN FALSE ELSE M[n] = old
    BY <1>1, <1>14, <1>19
  <2>3. ASSUME NEW m \in DOMAIN N
        PROVE  /\ M[m].isLeaf = N[m].isLeaf /\ M[m].keys = N[m].keys /\ M[m].children = N[m].children
               /\ m # n => M[m].items = N[m].items /\ M[m].next = N[m].next
               /\ M[m].prev = IF m = N[n].next THEN c ELSE N[m].prev
               /\ m # n /\ m # N[n].next => M[m] = N[m]
    <3>1. N[m] \in AnyNode
      BY <1>1 DEF Typed
    <3>2. CASE m = N[n].next
      <4>1. M[m] = [N[m] EXCEPT !.prev = c] /\ m # n
        BY <1>19, <3>2
      <4> QED  BY <3>1, <3>2, <4>1 DEF AnyNode
    <3>3. CASE m # N[n].next
      BY <1>10, <1>14, <1>19, <2>2, <3>3
    <3> QED  BY <3>2, <3>3
  <2>4. /\ Typed(M) /\ c \in Nat /\ c \notin DOMAIN N /\ DOMAIN M = DOMAIN N \union {c}
        /\ M[c].isLeaf /\ M[c].keys = <<>> /\ M[c].children = <<>>
        /\ M[c].items = SubSeq(items, half + 1, Len(items)) /\ M[c].next = N[n].next /\ M[c].prev = n
    BY <1>4, <1>9, <1>14, <1>17, <2>1
  <2>5. M[n].items = SubSeq(items, 1, half) /\ M[n].next = c
    BY <1>10, <2>2
  <2> QED  BY <1>5, <2>3, <2>4, <2>5 DEF LeafSplit
<1> QED  BY <1>2, <1>18, <1>20

-----------------------------------------------------------------------------
(* A node cut in two                                                         *)

\* Node c, beside n and of its height, hangs from nothing yet; key parts what a
\* search may look for under n from what it may look for under c.
Beside(M, h, W, n, key, c) ==
    /\ n \in DOMAIN M /\ c \in DOMAIN M /\ n # c /\ h[c] = h[n]
    /\ \A p, i : ~ Child(M, p, i, c)
    /\ W[n] # {} /\ \A x \in W[n] : less(x, key)
    /\ key \in W[c] /\ \A x \in W[c] : ~ less(x, key)
    /\ \A p, i : Child(M, p, i, n) => \A x \in W[c] : x \in W[p] /\ Leads(M[p].keys, x, i)

\* The heights and the scopes once c takes the items of n from key on.
Higher(N, h, n, c) == [m \in DOMAIN N \union {c} |-> IF m = c THEN h[n] ELSE h[m]]
Parted(N, W, n, c, key) ==
    [m \in DOMAIN N \union {c} |-> IF m = c THEN {x \in W[n] : ~ less(x, key)}
                                   ELSE IF m = n THEN {x \in W[n] : less(x, key)} ELSE W[m]]

\* The entries of list from a to b, as an operator the provers need not expand.
Part(list, a, b) == SubSeq(list, a, b)
\* part is the entries of a sorted list from a to b.
Taken(list, a, b, part) ==
    /\ Sorted(list) /\ a \in Nat \ {0} /\ b \in Nat /\ b <= Len(list) /\ a <= b + 1
    /\ part = Part(list, a, b)

LEMMA PartOf ==
    ASSUME NEW list, NEW a, NEW b, NEW part, Taken(list, a, b, part)
    PROVE  /\ Sorted(part) /\ Len(part) = b - a + 1 /\ Nodes(part) = {list[i] : i \in a .. b}
           /\ \A i \in 1 .. b - a + 1 : part[i] = list[a + i - 1]
<1>0. /\ Sorted(list) /\ a \in Nat \ {0} /\ b \in Nat /\ b <= Len(list) /\ a <= b + 1
      /\ part = Part(list, a, b)
  BY DEF Taken
<1>1. /\ part \in Seq(AnyItem) /\ Len(part) = b - a + 1
      /\ \A i \in 1 .. b - a + 1 : part[i] = list[a + i - 1]
  <2>1. list \in Seq(AnyItem)
    BY <1>0 DEF Sorted
  <2>2. part \in Seq(AnyItem)
    BY <1>0, <2>1, SMTT(30) DEF Part
  <2>3. Len(part) = b - a + 1
    BY <1>0, <2>1, SMTT(30) DEF Part
  <2>4. \A i \in 1 .. b - a + 1 : part[i] = list[a + i - 1]
    BY <1>0, <2>1, SMTT(30) DEF Part
  <2> QED  BY <2>2, <2>3, <2>4
<1>2. PICK n \in Nat : n = Len(list)
  BY <1>0, ListParts
<1>3. ASSUME NEW i \in 1 .. b - a + 1, NEW j \in 1 .. b - a + 1, i < j
      PROVE  less(part[i], part[j])
  <2>1. PICK k, l : k = a + i - 1 /\ l = a + j - 1
    OBVIOUS
  <2>2. k \in 1 .. n /\ l \in 1 .. n /\ k < l
    BY <1>0, <1>2, <1>3, <2>1, SMT
  <2> QED  BY <1>0, <1>1, <1>2, <2>1, <2>2 DEF Sorted
<1>4. {part[i] : i \in 1 .. b - a + 1} = {list[i] : i \in a .. b}
  <2>1. \A i \in 1 .. b - a + 1 : a + i - 1 \in a .. b
    BY <1>0, SMT
  <2>2. ASSUME NEW k \in a .. b PROVE \E i \in 1 .. b - a + 1 : part[i] = list[k]
    <3>1. k - a + 1 \in 1 .. b - a + 1 /\ a + (k - a + 1) - 1 = k
      BY <1>0, SMT
    <3> QED  BY <1>1, <3>1
  <2>3. ASSUME NEW i \in 1 .. b - a + 1 PROVE part[i] \in {list[k] : k \in a .. b}
    <3>1. a + i - 1 \in a .. b /\ part[i] = list[a + i - 1]
      BY <1>1, <2>1
    <3> QED  BY <3>1
  <2> QED  BY <2>2, <2>3, Zenon
<1>5. Sorted(part)
  BY <1>1, <1>3 DEF Sorted
<1>6. Nodes(part) = {list[i] : i \in a .. b}
  BY <1>1, <1>4 DEF Nodes
<1> QED  BY <1>1, <1>5, <1>6

\* A split leaf and its new sibling leave the rest as it was.
LEMMA LeafSplitNest ==
    ASSUME NEW N, NEW root, NEW h, NEW W, Nest(N, root, h, W, {}),
           NEW n \in DOMAIN N, N[n].isLeaf, Len(N[n].items) >= 2,
           NEW M, NEW c, NEW key, LeafSplit(N, M, n, c, key),
           NEW H, H = Higher(N, h, n, c), NEW V, V = Parted(N, W, n, c, key)
    PROVE  Nest(M, root, H, V, {c}) /\ Beside(M, H, V, n, key, c)
<1>1. /\ c \in Nat /\ c \notin DOMAIN N /\ DOMAIN M = DOMAIN N \union {c} /\ Typed(M) /\ n # c
      /\ M[c].isLeaf /\ M[c].keys = <<>> /\ M[c].children = <<>>
      /\ \A m \in DOMAIN N :
            /\ M[m].isLeaf = N[m].isLeaf /\ M[m].keys = N[m].keys /\ M[m].children = N[m].children
            /\ m # n => M[m].items = N[m].items
  BY DEF LeafSplit
<1>2. PICK items, half : items = N[n].items /\ half = Len(items) \div 2
  OBVIOUS
<1>3. /\ key = items[half + 1] /\ M[n].items = SubSeq(items, 1, half)
      /\ M[c].items = SubSeq(items, half + 1, Len(items))
  BY <1>2 DEF LeafSplit
<1>4. Sorted(items) /\ Nodes(items) \subseteq W[n]
  BY <1>2 DEF Nest, Shaped, Routed
<1>5. PICK k \in Nat : k = Len(items) /\ k >= 2
  BY <1>2, <1>4, ListParts
<1>6. half \in Nat /\ half >= 1 /\ half + 1 <= k
  <2>1. half \in Nat /\ 2 * half <= k /\ k <= 2 * half + 1
    BY <1>2, <1>5, HalfIs
  <2> QED  BY <1>5, <2>1, SMT
<1>7. /\ Sorted(M[n].items) /\ Nodes(M[n].items) = {items[i] : i \in 1 .. half}
      /\ Sorted(M[c].items) /\ Nodes(M[c].items) = {items[i] : i \in half + 1 .. k}
  <2>1. PICK one, next : one = 1 /\ next = half + 1
    OBVIOUS
  <2>2. PICK a, b : a = M[n].items /\ b = M[c].items
    OBVIOUS
  <2>3. /\ Sorted(items) /\ one \in Nat \ {0} /\ half \in Nat /\ half <= Len(items) /\ one <= half + 1
        /\ a = Part(items, one, half)
    BY <1>3, <1>4, <1>5, <1>6, <2>1, <2>2, SMT DEF Part
  <2>t. Taken(items, one, half, a)
    BY <2>3 DEF Taken
  <2>4. Sorted(a) /\ Nodes(a) = {items[i] : i \in one .. half}
    BY <2>t, PartOf
  <2>5. /\ Sorted(items) /\ next \in Nat \ {0} /\ k \in Nat /\ k <= Len(items) /\ next <= k + 1
        /\ b = Part(items, next, k)
    BY <1>3, <1>4, <1>5, <1>6, <2>1, <2>2, SMT DEF Part
  <2>u. Taken(items, next, k, b)
    BY <2>5 DEF Taken
  <2>6. Sorted(b) /\ Nodes(b) = {items[i] : i \in next .. k}
    BY <2>u, PartOf
  <2> QED  BY <2>1, <2>2, <2>4, <2>6
<1>8. /\ \A i \in 1 .. half : less(items[i], key) /\ items[i] \in W[n]
      /\ \A i \in half + 1 .. k : ~ less(items[i], key) /\ items[i] \in W[n]
  <2>1. /\ half + 1 \in 1 .. k /\ \A i \in 1 .. half : i \in 1 .. k /\ i < half + 1
        /\ \A i \in half + 1 .. k : i \in 1 .. k /\ (i = half + 1 \/ half + 1 < i)
    BY <1>5, <1>6, SMT
  <2>2. \A i \in 1 .. k : items[i] \in AnyItem /\ items[i] \in W[n]
    BY <1>4, <1>5, ListParts DEF Nodes
  <2>3. \A i, j \in 1 .. k : i < j => less(items[i], items[j])
    BY <1>4, <1>5 DEF Sorted
  <2>4. ASSUME NEW i \in half + 1 .. k PROVE ~ less(items[i], key)
    <3>1. i \in 1 .. k /\ half + 1 \in 1 .. k /\ (i = half + 1 \/ less(items[half + 1], items[i]))
      BY <2>1, <2>3
    <3> QED  BY <1>3, <2>2, <3>1, LessOrder
  <2> QED  BY <1>3, <2>1, <2>2, <2>3, <2>4
<1>9. /\ \A m \in DOMAIN N : W[m] \in SUBSET AnyItem
      /\ c \notin DOMAIN N
  BY <1>1 DEF Nest, Routed
<1>10. /\ H[c] = h[n] /\ \A m \in DOMAIN N : H[m] = h[m]
       /\ \A x : x \in V[c] <=> x \in W[n] /\ ~ less(x, key)
       /\ \A x : x \in V[n] <=> x \in W[n] /\ less(x, key)
       /\ \A m \in DOMAIN N : m # n => V[m] = W[m]
       /\ \A m \in DOMAIN N : V[m] \subseteq W[m]
       /\ \A m \in DOMAIN N \union {c} : V[m] \in SUBSET AnyItem
  <2>1. H[c] = h[n] /\ \A m \in DOMAIN N : H[m] = h[m]
    BY <1>9 DEF Higher
  <2>2. /\ \A x : x \in V[c] <=> x \in W[n] /\ ~ less(x, key)
        /\ \A x : x \in V[n] <=> x \in W[n] /\ less(x, key)
        /\ \A m \in DOMAIN N : m # n => V[m] = W[m]
    BY <1>9 DEF Parted
  <2>3. \A m \in DOMAIN N : V[m] \subseteq W[m]
    BY <2>2
  <2>4. V[c] \subseteq W[n]
    BY <2>2
  <2> QED  BY <1>9, <2>1, <2>2, <2>3, <2>4
<1>11. \A p, i, m : Child(M, p, i, m) <=> Child(N, p, i, m)
  <2>1. \A i : i \notin 1 .. Len(<<>>)
    OBVIOUS
  <2> QED  BY <1>1, <2>1 DEF Child
<1>12. \A p, i, m : Child(N, p, i, m) => /\ p \in DOMAIN N /\ m \in DOMAIN N /\ p # n /\ m # c /\ p # c
  <2>1. N[n].children = <<>>
    BY DEF Nest, Shaped
  <2>2. \A i : i \notin 1 .. Len(<<>>)
    OBVIOUS
  <2> QED  BY <1>1, <2>1, <2>2 DEF Child, Nest, Ranked
<1>13. Ranked(M, H)
  <2>1. ASSUME NEW m \in DOMAIN M PROVE H[m] \in Nat /\ (M[m].isLeaf <=> H[m] = 0)
    <3>1. h[n] \in Nat /\ h[n] = 0
      BY DEF Nest, Ranked
    <3>2. CASE m = c
      BY <1>1, <1>10, <3>1, <3>2
    <3>3. CASE m \in DOMAIN N
      BY <1>1, <1>10, <3>3 DEF Nest, Ranked
    <3> QED  BY <1>1, <3>2, <3>3
  <2>2. ASSUME NEW p, NEW i, NEW m, Child(M, p, i, m) PROVE m \in DOMAIN M /\ H[p] = H[m] + 1
    <3>1. Child(N, p, i, m) /\ p \in DOMAIN N /\ m \in DOMAIN N
      BY <1>11, <1>12, <2>2
    <3> QED  BY <1>1, <1>10, <3>1 DEF Nest, Ranked
  <2> QED  BY <2>1, <2>2, Zenon DEF Ranked
<1>14. OneParent(M)
  <2> SUFFICES ASSUME NEW p, NEW q, NEW i, NEW j, NEW m, Child(M, p, i, m), Child(M, q, j, m)
               PROVE  p = q /\ i = j
    BY Zenon DEF OneParent
  <2>1. Child(N, p, i, m) /\ Child(N, q, j, m)
    BY <1>11
  <2> QED  BY <2>1 DEF OneParent, Nest
<1>15. Rooted(M, root, H, {c})
  <2>1. root \in DOMAIN N /\ root \in DOMAIN M
    BY <1>1 DEF Nest, Rooted
  <2>2. ASSUME NEW m \in DOMAIN M PROVE H[m] <= H[root]
    BY <1>1, <1>10, <2>1 DEF Nest, Rooted
  <2>3. ASSUME NEW m \in DOMAIN M, m # root, m \notin {c} PROVE \E p, i : Child(M, p, i, m)
    <3>1. \E p, i : Child(N, p, i, m)
      BY <1>1, <2>3 DEF Nest, Rooted
    <3> QED  BY <1>11, <3>1
  <2> QED  BY <2>1, <2>2, <2>3 DEF Rooted
<1>16. Routed(M, V)
  <2>1. ASSUME NEW m \in DOMAIN M
        PROVE  V[m] \in SUBSET AnyItem /\ Nodes(M[m].items) \subseteq V[m] /\ Nodes(M[m].keys) \subseteq V[m]
    <3>1. Nodes(<<>>) = {}
      BY DEF Nodes
    <3>2. CASE m = c
      BY <1>1, <1>7, <1>8, <1>10, <3>1, <3>2
    <3>3. CASE m = n
      <4>1. M[m].keys = <<>>
        BY <1>1, <3>3 DEF Nest, Shaped
      <4> QED  BY <1>1, <1>7, <1>8, <1>10, <3>1, <3>3, <4>1
    <3>4. CASE m # c /\ m # n
      <4>1. m \in DOMAIN N /\ V[m] = W[m] /\ M[m].items = N[m].items /\ M[m].keys = N[m].keys
        BY <1>1, <1>10, <3>4
      <4> QED  BY <4>1 DEF Nest, Routed
    <3> QED  BY <3>2, <3>3, <3>4
  <2>2. ASSUME NEW p, NEW i, NEW m, Child(M, p, i, m), NEW x \in V[m]
        PROVE  x \in V[p] /\ Leads(M[p].keys, x, i)
    <3>1. Child(N, p, i, m) /\ p \in DOMAIN N /\ m \in DOMAIN N /\ p # n
      BY <1>11, <1>12, <2>2
    <3>2. x \in W[m] /\ V[p] = W[p] /\ M[p].keys = N[p].keys
      BY <1>1, <1>10, <2>2, <3>1
    <3> QED  BY <3>1, <3>2 DEF Nest, Routed
  <2> QED  BY <2>1, <2>2, Zenon DEF Routed
<1>17. Shaped(M)
  <2> SUFFICES ASSUME NEW m \in DOMAIN M
               PROVE  /\ Sorted(M[m].items) /\ Sorted(M[m].keys)
                      /\ IF M[m].isLeaf THEN M[m].keys = <<>> /\ M[m].children = <<>>
                         ELSE M[m].items = <<>>
                      /\ M[m].children # <<>> => Len(M[m].children) = Len(M[m].keys) + 1
    BY DEF Shaped
  <2>1. CASE m = c
    <3>1. Sorted(<<>>)
      BY DEF Sorted
    <3> QED  BY <1>1, <1>7, <2>1, <3>1
  <2>2. CASE m # c
    <3>1. /\ m \in DOMAIN N /\ Sorted(N[m].keys)
          /\ IF N[m].isLeaf THEN N[m].keys = <<>> /\ N[m].children = <<>> ELSE N[m].items = <<>>
          /\ N[m].children # <<>> => Len(N[m].children) = Len(N[m].keys) + 1
          /\ Sorted(N[m].items)
      BY <1>1, <2>2 DEF Nest, Shaped
    <3> QED  BY <1>1, <1>7, <3>1
  <2> QED  BY <2>1, <2>2
<1>18. Nest(M, root, H, V, {c})
  BY <1>1, <1>13, <1>14, <1>15, <1>16, <1>17 DEF Nest
<1>19. Beside(M, H, V, n, key, c)
  <2>1. \A p, i : ~ Child(M, p, i, c)
    BY <1>11, <1>12
  <2>2. V[n] # {} /\ \A x \in V[n] : less(x, key)
    <3>1. 1 \in 1 .. half
      BY <1>6, SMT
    <3> QED  BY <1>8, <1>10, <3>1
  <2>3. key \in V[c] /\ \A x \in V[c] : ~ less(x, key)
    <3>1. half + 1 \in half + 1 .. k
      BY <1>5, <1>6, SMT
    <3> QED  BY <1>3, <1>8, <1>10, <3>1
  <2>4. ASSUME NEW p, NEW i, Child(M, p, i, n), NEW x \in V[c] PROVE x \in V[p] /\ Leads(M[p].keys, x, i)
    <3>1. Child(N, p, i, n) /\ p \in DOMAIN N /\ p # n
      BY <1>11, <1>12, <2>4
    <3>2. x \in W[n] /\ V[p] = W[p] /\ M[p].keys = N[p].keys
      BY <1>1, <1>10, <2>4, <3>1
    <3> QED  BY <3>1, <3>2 DEF Nest, Routed
  <2> QED  BY <1>1, <1>10, <2>1, <2>2, <2>3, <2>4, Zenon DEF Beside
<1> QED  BY <1>18, <1>19

\* The new leaf comes right after the split one in the chain.
LEMMA LeafSplitChain ==
    ASSUME NEW N, Typed(N), NEW head, NEW L, Chained(N, head, L),
           NEW W, InOrder(W, L), \A m \in DOMAIN N : W[m] \in SUBSET AnyItem,
           NEW n \in Leafs(N), NEW M, NEW c, NEW key \in AnyItem, LeafSplit(N, M, n, c, key),
           NEW V, V = Parted(N, W, n, c, key)
    PROVE  \E K : Chained(M, head, K) /\ InOrder(V, K)
<1>1. PICK p \in 1 .. Len(L) : L[p] = n
  BY ChainParts
<1>2. PICK l \in Nat : l = Len(L) /\ p \in 1 .. l
  BY <1>1, ChainParts
<1>e. \A m \in Leafs(N) : \E i \in 1 .. l : L[i] = m
  BY <1>2, ChainParts
<1>s. L \in Seq(Leafs(N)) /\ head = L[1] /\ l # 0
  <2>1. l # 0
    BY <1>2, SMT
  <2> QED  BY <1>2, <2>1 DEF Chained
<1>3. /\ \A i \in 1 .. l : L[i] \in Leafs(N) /\ L[i] \in DOMAIN N
      /\ \A i, j \in 1 .. l : L[i] = L[j] => i = j
      /\ \A i \in 1 .. l : N[L[i]].next = IF i = l THEN NoNode ELSE L[i + 1]
      /\ \A i \in 1 .. l : N[L[i]].prev = IF i = 1 THEN NoNode ELSE L[i - 1]
  <2>1. \A i \in 1 .. l : L[i] \in Leafs(N) /\ L[i] \in DOMAIN N
    BY <1>2, ChainParts
  <2>2. /\ \A i, j \in 1 .. l : L[i] = L[j] => i = j
        /\ \A i \in 1 .. l : N[L[i]].next = IF i = l THEN NoNode ELSE L[i + 1]
        /\ \A i \in 1 .. l : N[L[i]].prev = IF i = 1 THEN NoNode ELSE L[i - 1]
    BY <1>2, Zenon DEF Chained
  <2> QED  BY <2>1, <2>2
<1>4. /\ c \in Nat /\ c \notin DOMAIN N /\ DOMAIN M = DOMAIN N \union {c} /\ M[c].isLeaf
      /\ M[c].next = N[n].next /\ M[c].prev = n /\ M[n].next = c
      /\ \A m \in DOMAIN N : /\ M[m].isLeaf = N[m].isLeaf /\ (m # n => M[m].next = N[m].next)
                             /\ M[m].prev = IF m = N[n].next THEN c ELSE N[m].prev
  BY DEF LeafSplit
<1>5. Leafs(M) = Leafs(N) \union {c}
  BY <1>4 DEF Leafs
<1>6. PICK K : K = [i \in 1 .. l + 1 |-> IF i <= p THEN L[i] ELSE IF i = p + 1 THEN c ELSE L[i - 1]]
  OBVIOUS
<1>7. \A i \in 1 .. l + 1 : \/ i <= p /\ i \in 1 .. l /\ K[i] = L[i]
                            \/ i = p + 1 /\ ~ (i <= p) /\ K[i] = c
                            \/ ~ (i <= p) /\ i # p + 1 /\ i - 1 \in 1 .. l /\ i - 1 > p /\ K[i] = L[i - 1]
  <2> TAKE i \in 1 .. l + 1
  <2>1. K[i] = IF i <= p THEN L[i] ELSE IF i = p + 1 THEN c ELSE L[i - 1]
    BY <1>6
  <2>2. \/ i <= p /\ i \in 1 .. l
        \/ i = p + 1 /\ ~ (i <= p)
        \/ ~ (i <= p) /\ i # p + 1 /\ i - 1 \in 1 .. l /\ i - 1 > p
    BY <1>2, SMT
  <2> QED  BY <2>1, <2>2
<1>8. K \in Seq(Leafs(M)) /\ Len(K) = l + 1
  <2>1. \A i \in 1 .. l + 1 : K[i] \in Leafs(M)
    BY <1>3, <1>5, <1>7
  <2>2. K \in [1 .. l + 1 -> Leafs(M)]
    BY <1>6, <2>1
  <2>3. l + 1 \in Nat
    BY SMT
  <2> QED  BY <2>2, <2>3, SeqOf
<1>9. Nodes(K) = Leafs(M)
  <2>1. \A i \in 1 .. l + 1 : K[i] \in Leafs(M)
    BY <1>3, <1>5, <1>7
  <2>2. ASSUME NEW i \in 1 .. l PROVE \E j \in 1 .. l + 1 : K[j] = L[i]
    <3>1. CASE i <= p
      <4>1. i \in 1 .. l + 1
        BY SMT
      <4> QED  BY <1>6, <3>1, <4>1
    <3>2. CASE ~ (i <= p)
      <4>1. i + 1 \in 1 .. l + 1 /\ ~ (i + 1 <= p) /\ i + 1 # p + 1 /\ (i + 1) - 1 = i
        BY <1>2, <3>2, SMT
      <4> QED  BY <1>6, <4>1
    <3> QED  BY <3>1, <3>2
  <2>3. \E j \in 1 .. l + 1 : K[j] = c
    <3>1. p + 1 \in 1 .. l + 1 /\ ~ (p + 1 <= p)
      BY <1>2, SMT
    <3> QED  BY <1>6, <3>1
  <2>4. \A m \in Leafs(M) : \E j \in 1 .. l + 1 : K[j] = m
    <3> TAKE m \in Leafs(M)
    <3>1. CASE m = c
      BY <2>3, <3>1
    <3>2. CASE m \in Leafs(N)
      <4>1. PICK i \in 1 .. l : L[i] = m
        BY <1>e, <3>2
      <4> QED  BY <2>2, <4>1
    <3> QED  BY <1>5, <3>1, <3>2
  <2> QED  BY <1>8, <2>1, <2>4 DEF Nodes
<1>10. ASSUME NEW i \in 1 .. l + 1, NEW j \in 1 .. l + 1, K[i] = K[j] PROVE i = j
  <2>1. \A k \in 1 .. l : L[k] # c
    BY <1>3, <1>4
  <2>2. /\ i \in 1 .. l /\ j - 1 \in 1 .. l /\ i <= p /\ j - 1 > p => i # j - 1
        /\ j \in 1 .. l /\ i - 1 \in 1 .. l /\ j <= p /\ i - 1 > p => j # i - 1
        /\ i - 1 = j - 1 => i = j
    BY <1>2, SMT
  <2>3. \A a, b \in 1 .. l : L[a] = L[b] => a = b
    BY <1>3
  <2>4. CASE i <= p /\ i \in 1 .. l /\ K[i] = L[i]
    BY <1>7, <1>10, <2>1, <2>2, <2>3, <2>4
  <2>5. CASE i = p + 1 /\ K[i] = c
    BY <1>7, <1>10, <2>1, <2>5
  <2>6. CASE ~ (i <= p) /\ i # p + 1 /\ i - 1 \in 1 .. l /\ i - 1 > p /\ K[i] = L[i - 1]
    BY <1>7, <1>10, <2>1, <2>2, <2>3, <2>6
  <2> QED  BY <1>7, <2>4, <2>5, <2>6
<1>11. K[1] = L[1] /\ 1 <= p /\ p + 1 \in 1 .. l + 1 /\ K[p + 1] = c /\ K[p] = n
  <2>1. 1 <= p /\ 1 \in 1 .. l + 1 /\ p \in 1 .. l + 1 /\ p <= p /\ p + 1 \in 1 .. l + 1 /\ ~ (p + 1 <= p)
    BY <1>2, SMT
  <2> QED  BY <1>1, <1>6, <2>1
<1>12. ASSUME NEW i \in 1 .. l + 1
       PROVE  M[K[i]].next = IF i = l + 1 THEN NoNode ELSE K[i + 1]
  <2>1. CASE i <= p /\ i \in 1 .. l /\ K[i] = L[i]
    <3>1. CASE i = p
      <4>1. i # l + 1
        BY <1>2, <3>1, SMT
      <4> QED  BY <1>1, <1>4, <1>11, <2>1, <3>1, <4>1
    <3>2. CASE i # p
      <4>1. i # l /\ i # l + 1 /\ i + 1 <= p /\ i + 1 \in 1 .. l + 1
        BY <1>2, <2>1, <3>2, SMT
      <4>2. K[i + 1] = L[i + 1]
        BY <1>6, <4>1
      <4>3. L[i] # n
        BY <1>1, <1>2, <1>3, <2>1, <3>2
      <4>4. N[L[i]].next = L[i + 1] /\ L[i] \in DOMAIN N
        BY <1>3, <2>1, <4>1
      <4>5. M[L[i]].next = N[L[i]].next
        BY <1>4, <4>3, <4>4
      <4> QED  BY <2>1, <4>1, <4>2, <4>4, <4>5
    <3> QED  BY <3>1, <3>2
  <2>2. CASE i = p + 1 /\ K[i] = c
    <3>1. M[c].next = IF p = l THEN NoNode ELSE L[p + 1]
      BY <1>1, <1>2, <1>3, <1>4
    <3>2. (p = l <=> i = l + 1) /\ (p # l => p + 2 \in 1 .. l + 1) /\ ~ (p + 2 <= p) /\ p + 2 # p + 1
          /\ i + 1 = p + 2 /\ (p + 2) - 1 = p + 1
      BY <1>2, <2>2, SMT
    <3>3. p # l => K[p + 2] = L[p + 1]
      BY <1>6, <3>2
    <3> QED  BY <2>2, <3>1, <3>2, <3>3
  <2>3. CASE ~ (i <= p) /\ i # p + 1 /\ i - 1 \in 1 .. l /\ i - 1 > p /\ K[i] = L[i - 1]
    <3>1. /\ (i - 1 = l <=> i = l + 1) /\ (i - 1) + 1 = i /\ i - 1 # p
          /\ (i # l + 1 => i + 1 \in 1 .. l + 1) /\ ~ (i + 1 <= p) /\ i + 1 # p + 1 /\ (i + 1) - 1 = i
      BY <1>2, <2>3, SMT
    <3>2. i # l + 1 => K[i + 1] = L[i]
      BY <1>6, <3>1
    <3>3. L[i - 1] # n
      BY <1>1, <1>2, <1>3, <2>3, <3>1
    <3>4. N[L[i - 1]].next = IF i - 1 = l THEN NoNode ELSE L[(i - 1) + 1]
      BY <1>3, <2>3
    <3>5. M[L[i - 1]].next = N[L[i - 1]].next
      BY <1>3, <1>4, <2>3, <3>3
    <3> QED  BY <2>3, <3>1, <3>2, <3>4, <3>5
  <2> QED  BY <1>7, <2>1, <2>2, <2>3
<1>13. ASSUME NEW i \in 1 .. l + 1
       PROVE  M[K[i]].prev = IF i = 1 THEN NoNode ELSE K[i - 1]
  <2>0. /\ N[n].next = IF p = l THEN NoNode ELSE L[p + 1]
        /\ p # l => p + 1 \in 1 .. l
    <3>1. p # l => p + 1 \in 1 .. l
      BY <1>2, SMT
    <3> QED  BY <1>1, <1>2, <1>3, <3>1
  <2>n. \A k \in 1 .. l : k # p + 1 => L[k] # N[n].next
    <3>1. \A k \in 1 .. l : L[k] # NoNode
      BY <1>3, BPlusTreeAssumption DEF Typed
    <3> QED  BY <1>3, <2>0, <3>1
  <2>1. CASE i <= p /\ i \in 1 .. l /\ K[i] = L[i]
    <3>1. i # p + 1 /\ (i # 1 => i - 1 \in 1 .. l + 1 /\ i - 1 <= p)
      BY <1>2, <2>1, SMT
    <3>2. i # 1 => K[i - 1] = L[i - 1]
      BY <1>6, <3>1
    <3>3. M[L[i]].prev = N[L[i]].prev
      BY <1>3, <1>4, <2>1, <2>n, <3>1
    <3> QED  BY <1>3, <2>1, <3>2, <3>3
  <2>2. CASE i = p + 1 /\ K[i] = c
    <3>1. i # 1 /\ i - 1 = p
      BY <1>2, <2>2, SMT
    <3> QED  BY <1>4, <1>11, <2>2, <3>1
  <2>3. CASE ~ (i <= p) /\ i # p + 1 /\ i - 1 \in 1 .. l /\ i - 1 > p /\ K[i] = L[i - 1]
    <3>1. CASE i - 1 = p + 1
      <4>1. i # 1 /\ p # l
        BY <1>2, <2>3, <3>1, SMT
      <4>2. L[i - 1] = N[n].next
        BY <2>0, <3>1, <4>1
      <4> QED  BY <1>3, <1>4, <1>11, <2>3, <3>1, <4>1, <4>2
    <3>2. CASE i - 1 # p + 1
      <4>1. /\ i # 1 /\ i - 1 # 1 /\ i - 1 \in 1 .. l + 1 /\ ~ (i - 1 <= p)
            /\ (i - 1) - 1 = i - 2
        BY <1>2, <2>3, <3>2, SMT
      <4>2. K[i - 1] = L[i - 2]
        BY <1>6, <3>2, <4>1
      <4>3. N[L[i - 1]].prev = L[i - 2]
        BY <1>3, <2>3, <4>1
      <4>4. M[L[i - 1]].prev = N[L[i - 1]].prev
        BY <1>3, <1>4, <2>3, <2>n, <3>2
      <4> QED  BY <2>3, <4>1, <4>2, <4>3, <4>4
    <3> QED  BY <3>1, <3>2
  <2> QED  BY <1>7, <2>1, <2>2, <2>3
<1>14. Chained(M, head, K)
  <2>1. Len(K) # 0
    BY <1>2, <1>8, SMT
  <2>2. head = IF Len(K) = 0 THEN NoNode ELSE K[1]
    BY <1>s, <1>11, <2>1
  <2> QED  BY <1>8, <1>9, <1>10, <1>12, <1>13, <2>2, Zenon DEF Chained
<1>15. InOrder(V, K)
  <2> SUFFICES ASSUME NEW i \in 1 .. l + 1, NEW j \in 1 .. l + 1, i < j,
                      NEW x \in V[K[i]], NEW y \in V[K[j]]
               PROVE  less(x, y)
    BY <1>8 DEF InOrder, Below
  <2>1. /\ \A z \in V[c] : z \in W[n] /\ ~ less(z, key)
        /\ \A z \in V[n] : z \in W[n] /\ less(z, key)
        /\ \A m \in DOMAIN N : m # n => V[m] = W[m]
    <3>1. n \in DOMAIN N
      BY DEF Leafs
    <3> QED  BY <1>4, <3>1 DEF Parted
  <2>2. \A m \in DOMAIN N : V[m] \subseteq W[m]
    BY <2>1
  <2>3. \A k \in 1 .. l : V[L[k]] \subseteq W[L[k]]
    BY <1>3, <2>2
  <2>4. \A k, q \in 1 .. l : k < q => Below(W[L[k]], W[L[q]])
    BY <1>2 DEF InOrder
  <2>5. V[c] \subseteq W[L[p]]
    BY <1>1, <2>1
  <2>6. CASE i <= p /\ i \in 1 .. l /\ K[i] = L[i]
    <3>1. CASE j <= p /\ j \in 1 .. l /\ K[j] = L[j]
      BY <2>3, <2>4, <2>6, <3>1 DEF Below
    <3>2. CASE j = p + 1 /\ K[j] = c
      <4>1. CASE i = p
        <5>1. less(x, key) /\ ~ less(y, key) /\ x \in AnyItem /\ y \in AnyItem
          BY <1>1, <1>3, <2>1, <2>6, <3>2, <4>1
        <5> QED  BY <5>1, LessOrder
      <4>2. CASE i # p
        <5>1. i < p
          BY <1>2, <2>6, <4>2, SMT
        <5> QED  BY <1>2, <2>3, <2>4, <2>5, <2>6, <3>2, <5>1 DEF Below
      <4> QED  BY <4>1, <4>2
    <3>3. CASE ~ (j <= p) /\ j # p + 1 /\ j - 1 \in 1 .. l /\ j - 1 > p /\ K[j] = L[j - 1]
      <4>1. i < j - 1
        BY <1>2, <2>6, <3>3, SMT
      <4> QED  BY <2>3, <2>4, <2>6, <3>3, <4>1 DEF Below
    <3> QED  BY <1>7, <3>1, <3>2, <3>3
  <2>7. CASE i = p + 1 /\ K[i] = c
    <3>1. j - 1 \in 1 .. l /\ p < j - 1 /\ K[j] = L[j - 1]
      <4>1. ~ (j <= p) /\ j # p + 1
        BY <1>2, <2>7, SMT
      <4>2. j - 1 \in 1 .. l /\ j - 1 > p /\ K[j] = L[j - 1]
        BY <1>7, <4>1
      <4> QED  BY <1>2, <4>2, SMT
    <3> QED  BY <1>2, <2>3, <2>4, <2>5, <2>7, <3>1 DEF Below
  <2>8. CASE ~ (i <= p) /\ i # p + 1 /\ i - 1 \in 1 .. l /\ i - 1 > p /\ K[i] = L[i - 1]
    <3>1. j - 1 \in 1 .. l /\ i - 1 < j - 1 /\ K[j] = L[j - 1]
      <4>1. ~ (j <= p) /\ j # p + 1
        BY <1>2, <2>8, SMT
      <4>2. j - 1 \in 1 .. l /\ K[j] = L[j - 1]
        BY <1>7, <4>1
      <4> QED  BY <4>2, SMT
    <3> QED  BY <2>3, <2>4, <2>8, <3>1 DEF Below
  <2> QED  BY <1>7, <2>6, <2>7, <2>8
<1> QED  BY <1>14, <1>15

-----------------------------------------------------------------------------
(* The new node hung beside the old one                                      *)

\* Where a search goes among the keys once one more is there.
LEMMA LeadsInserted ==
    ASSUME NEW keys \in Seq(AnyItem), NEW key \in AnyItem, NEW i, Leads(keys, key, i),
           NEW new, new = Inserted(keys, key, i - 1), Len(new) = Len(keys) + 1,
           NEW x \in AnyItem, NEW j, Leads(keys, x, j)
    PROVE  /\ j < i \/ (j = i /\ less(x, key)) => Leads(new, x, j)
           /\ j > i \/ (j = i /\ ~ less(x, key)) => Leads(new, x, j + 1)
<1>1. PICK l \in Nat : l = Len(keys)
  OBVIOUS
<1>2. /\ i \in 1 .. l + 1 /\ i \in Int /\ j \in 1 .. l + 1 /\ j \in Int
      /\ \A t \in 1 .. i - 1 : ~ less(key, keys[t])
      /\ i <= l => less(key, keys[i])
      /\ \A t \in 1 .. j - 1 : ~ less(x, keys[t])
      /\ j <= l => less(x, keys[j])
  <2>1. i \in 1 .. l + 1 /\ j \in 1 .. l + 1
    BY <1>1 DEF Leads
  <2>2. i \in Int /\ j \in Int
    BY <1>1, <2>1, SMT
  <2> QED  BY <1>1, <2>1, <2>2 DEF Leads
<1>3. /\ \A t \in 1 .. l + 1 : t < i => new[t] = keys[t]
      /\ \A t \in 1 .. l + 1 : t > i => new[t] = keys[t - 1]
      /\ new[i] = key
  <2>1. /\ \A t \in 1 .. l + 1 : t < i => t <= i - 1
        /\ \A t \in 1 .. l + 1 : t > i => ~ (t <= i - 1) /\ t # (i - 1) + 1
        /\ ~ (i <= i - 1) /\ i = (i - 1) + 1
    BY <1>1, <1>2, SMT
  <2> QED  BY <1>1, <1>2, <2>1 DEF Inserted
<1>4. Len(new) = l + 1
  BY <1>1
<1>5. \A t \in 1 .. l : keys[t] \in AnyItem
  BY <1>1
<1>6. ASSUME j < i \/ (j = i /\ less(x, key)) PROVE Leads(new, x, j)
  <2>1. j \in 1 .. (l + 1) + 1
    BY <1>1, <1>2, SMT
  <2>2. ASSUME NEW t \in 1 .. j - 1 PROVE ~ less(x, new[t])
    <3>1. t \in 1 .. l + 1 /\ t < i
      BY <1>1, <1>2, <1>6, SMT
    <3> QED  BY <1>2, <1>3, <3>1
  <2>3. less(x, new[j])
    <3>1. CASE j < i
      <4>1. j <= l
        BY <1>1, <1>2, <3>1, SMT
      <4> QED  BY <1>2, <1>3, <3>1, <4>1
    <3>2. CASE ~ (j < i)
      BY <1>3, <1>6, <3>2
    <3> QED  BY <3>1, <3>2
  <2> QED  BY <1>4, <2>1, <2>2, <2>3 DEF Leads
<1>7. ASSUME j > i \/ (j = i /\ ~ less(x, key)) PROVE Leads(new, x, j + 1)
  <2>1. j + 1 \in 1 .. (l + 1) + 1 /\ (j + 1) - 1 = j /\ (j + 1 <= l + 1 => j <= l)
    BY <1>1, <1>2, SMT
  <2>2. ~ less(x, key)
    <3>1. CASE j > i
      <4>1. i \in 1 .. j - 1 /\ i <= l /\ i \in 1 .. l
        BY <1>1, <1>2, <3>1, SMT
      <4>2. ~ less(x, keys[i]) /\ less(key, keys[i]) /\ keys[i] \in AnyItem
        BY <1>2, <1>5, <4>1
      <4> QED  BY <4>2, LessOrder
    <3>2. CASE ~ (j > i)
      BY <1>7, <3>2
    <3> QED  BY <3>1, <3>2
  <2>3. ASSUME NEW t \in 1 .. j PROVE ~ less(x, new[t])
    <3>1. t \in 1 .. l + 1 /\ (t < i => t \in 1 .. j - 1) /\ (t > i => t - 1 \in 1 .. j - 1)
          /\ (t < i \/ t = i \/ t > i)
      BY <1>1, <1>2, <1>7, SMT
    <3> QED  BY <1>2, <1>3, <2>2, <3>1
  <2>4. j + 1 <= l + 1 => less(x, new[j + 1])
    <3>1. j + 1 <= l + 1 => j + 1 \in 1 .. l + 1 /\ j + 1 > i
      BY <1>1, <1>2, <1>7, SMT
    <3> QED  BY <1>2, <1>3, <2>1, <3>1
  <2> QED  BY <1>4, <2>1, <2>3, <2>4 DEF Leads
<1> QED  BY <1>6, <1>7

\* Node c and its key go into p, beside child i.
Attached(N, M, p, i, key, c) ==
    /\ Typed(M) /\ DOMAIN M = DOMAIN N /\ \A m \in DOMAIN N : m # p => M[m] = N[m]
    /\ M[p].isLeaf = N[p].isLeaf /\ M[p].items = N[p].items
    /\ M[p].keys = Inserted(N[p].keys, key, i - 1) /\ M[p].children = Inserted(N[p].children, c, i)

\* A sibling hung beside its node gives the nodes back their nest.
LEMMA AttachNest ==
    ASSUME NEW N, NEW root, NEW h, NEW W, NEW c, Nest(N, root, h, W, {c}),
           NEW n, NEW key, Beside(N, h, W, n, key, c), NEW p, NEW i, Child(N, p, i, n),
           NEW M, Attached(N, M, p, i, key, c)
    PROVE  /\ Nest(M, root, h, W, {}) /\ Len(M[p].keys) = Len(N[p].keys) + 1
           /\ Len(M[p].children) = Len(N[p].children) + 1
<1>1. /\ DOMAIN M = DOMAIN N /\ Typed(M) /\ p \in DOMAIN N /\ n \in DOMAIN N /\ c \in DOMAIN N
      /\ \A m \in DOMAIN N : m # p => M[m] = N[m]
      /\ M[p].isLeaf = N[p].isLeaf /\ M[p].items = N[p].items /\ c \in Nat
  BY DEF Attached, Beside, Child, Nest, Typed
<1>2. PICK keys, children : keys = N[p].keys /\ children = N[p].children
  OBVIOUS
<1>3. keys \in Seq(AnyItem) /\ children \in Seq(Nat) /\ Sorted(keys) /\ Nodes(keys) \subseteq W[p]
  BY <1>1, <1>2, NodeParts DEF Nest, Shaped, Routed
<1>4. PICK l \in Nat : l = Len(keys)
  BY <1>3
<1>5. i \in 1 .. Len(children) /\ children[i] = n /\ Len(children) = l + 1
  <2>1. i \in 1 .. Len(children) /\ children[i] = n
    BY <1>2 DEF Child
  <2>2. children # <<>>
    BY <2>1
  <2>3. Len(N[p].children) = Len(N[p].keys) + 1
    BY <1>1, <1>2, <2>2 DEF Nest, Shaped
  <2> QED  BY <1>2, <1>4, <2>1, <2>3
<1>6. /\ i \in 1 .. l + 1 /\ i \in Int /\ i - 1 \in 0 .. l /\ i \in 0 .. l + 1
  BY <1>5, SMT
<1>7. /\ key \in AnyItem /\ key \in W[p] /\ Leads(keys, key, i)
      /\ \A x \in W[c] : x \in AnyItem /\ x \in W[p] /\ Leads(keys, x, i) /\ ~ less(x, key)
      /\ \A x \in W[n] : x \in AnyItem /\ Leads(keys, x, i) /\ less(x, key)
  <2>1. W[c] \subseteq AnyItem /\ W[n] \subseteq AnyItem /\ key \in W[c]
    BY <1>1 DEF Nest, Routed, Beside
  <2>2. \A x \in W[c] : x \in W[p] /\ Leads(N[p].keys, x, i) /\ ~ less(x, key)
    BY DEF Beside
  <2>3. \A x \in W[n] : Leads(N[p].keys, x, i) /\ less(x, key)
    BY DEF Beside, Nest, Routed
  <2> QED  BY <1>2, <2>1, <2>2, <2>3
<1>8. Before(keys, key, i - 1)
  <2>1. PICK y \in W[n] : y \in AnyItem /\ less(y, key) /\ Leads(keys, y, i)
    BY <1>7 DEF Beside
  <2>2. ASSUME NEW t \in 1 .. l PROVE less(keys[t], key) <=> t <= i - 1
    <3>1. keys[t] \in AnyItem
      BY <1>3, <1>4
    <3>2. CASE t <= i - 1
      <4>1. t \in 1 .. i - 1
        BY <1>6, <3>2, SMT
      <4>2. ~ less(y, keys[t])
        BY <2>1, <4>1 DEF Leads
      <4>3. less(keys[t], key)
        BY <1>7, <2>1, <3>1, <4>2, LessOrder
      <4> QED  BY <3>2, <4>3
    <3>3. CASE ~ (t <= i - 1)
      <4>1. i <= l /\ i \in 1 .. l /\ (t = i \/ i < t)
        BY <1>6, <3>3, SMT
      <4>2. less(key, keys[i]) /\ keys[i] \in AnyItem
        BY <1>3, <1>4, <1>7, <4>1 DEF Leads
      <4>3. t = i \/ less(keys[i], keys[t])
        BY <1>3, <1>4, <4>1 DEF Sorted
      <4>4. ~ less(keys[t], key)
        BY <1>7, <3>1, <4>2, <4>3, LessOrder
      <4> QED  BY <3>3, <4>4
    <3> QED  BY <3>2, <3>3
  <2> QED  BY <1>4, <1>6, <2>2 DEF Before
<1>9. PICK new, nodes : new = M[p].keys /\ nodes = M[p].children
  OBVIOUS
<1>10. new = Inserted(keys, key, i - 1) /\ nodes = Inserted(children, c, i)
  BY <1>2, <1>9 DEF Attached
<1>11. Sorted(new) /\ Len(new) = l + 1 /\ Nodes(new) = Nodes(keys) \union {key}
  <2>1. \A t \in 1 .. Len(keys) : keys[t] # key
    <3> TAKE t \in 1 .. Len(keys)
    <3>1. t <= i - 1 \/ ~ (t <= i - 1)
      OBVIOUS
    <3>2. less(keys[t], key) <=> t <= i - 1
      BY <1>8 DEF Before
    <3>3. ~ (t <= i - 1) => i \in 1 .. l /\ i <= l /\ (t = i \/ i < t)
      BY <1>4, <1>6, SMT
    <3>4. ~ (t <= i - 1) => less(key, keys[t])
      <4>1. i <= l => less(key, keys[i])
        BY <1>4, <1>7 DEF Leads
      <4>2. i \in 1 .. l /\ i < t => less(keys[i], keys[t])
        BY <1>3, <1>4 DEF Sorted
      <4>3. \A u \in 1 .. l : keys[u] \in AnyItem
        BY <1>3, <1>4
      <4> QED  BY <1>4, <1>7, <3>3, <4>1, <4>2, <4>3, LessOrder
    <3> QED  BY <1>7, <3>2, <3>4, LessOrder
  <2>2. PICK q : q = i - 1
    OBVIOUS
  <2>3. Sorted(keys) /\ key \in AnyItem /\ (\A t \in 1 .. Len(keys) : keys[t] # key) /\ Before(keys, key, q)
    BY <1>3, <1>7, <1>8, <2>1, <2>2
  <2>4. /\ Sorted(Inserted(keys, key, q)) /\ Len(Inserted(keys, key, q)) = Len(keys) + 1
        /\ Nodes(Inserted(keys, key, q)) = Nodes(keys) \union {key}
    BY <2>3, InsertedSorted
  <2> QED  BY <1>4, <1>10, <2>2, <2>4
<1>12. nodes \in Seq(Nat) /\ Len(nodes) = l + 2
  <2>1. children \in Seq(Nat) /\ c \in Nat /\ i \in 0 .. Len(children)
    BY <1>1, <1>3, <1>5, <1>6
  <2>2. Inserted(children, c, i) \in Seq(Nat) /\ Len(Inserted(children, c, i)) = Len(children) + 1
    BY <2>1, InsertAtIs
  <2>3. (l + 1) + 1 = l + 2
    BY SMT
  <2> QED  BY <1>5, <1>10, <2>2, <2>3
<1>13. \A j \in 1 .. l + 2 : nodes[j] = IF j <= i THEN children[j] ELSE IF j = i + 1 THEN c ELSE children[j - 1]
  <2>1. (l + 1) + 1 = l + 2
    BY SMT
  <2> QED  BY <1>5, <1>10, <2>1 DEF Inserted
<1>14. ASSUME NEW q, NEW j, NEW m, Child(M, q, j, m)
       PROVE  \/ q # p /\ Child(N, q, j, m)
              \/ q = p /\ j \in Int /\ j <= i /\ Child(N, p, j, m)
              \/ q = p /\ j \in Int /\ j = i + 1 /\ m = c
              \/ q = p /\ j \in Int /\ j > i + 1 /\ Child(N, p, j - 1, m)
  <2>1. CASE q # p
    BY <1>1, <1>14, <2>1 DEF Child
  <2>2. CASE q = p
    <3>1. j \in 1 .. l + 2 /\ nodes[j] = m
      BY <1>9, <1>12, <1>14, <2>2 DEF Child
    <3>2. /\ j \in Int /\ (j <= i => j \in 1 .. l + 1) /\ (j <= i \/ j = i + 1 \/ j > i + 1)
          /\ (j > i + 1 => j - 1 \in 1 .. l + 1 /\ ~ (j <= i) /\ j # i + 1) /\ ~ (i + 1 <= i)
      BY <1>6, <3>1, SMT
    <3> QED  BY <1>1, <1>2, <1>5, <1>13, <2>2, <3>1, <3>2 DEF Child
  <2> QED  BY <2>1, <2>2
<1>15. \A j, m : Child(N, p, j, m) => j \in Int /\ j \in 1 .. l + 1
  <2> SUFFICES ASSUME NEW j, NEW m, Child(N, p, j, m) PROVE j \in Int /\ j \in 1 .. l + 1
    OBVIOUS
  <2>1. j \in 1 .. l + 1
    BY <1>2, <1>5 DEF Child
  <2> QED  BY <2>1, SMT
<1>16. \A q, j : ~ Child(N, q, j, c)
  BY DEF Beside
<1>17. Ranked(M, h)
  <2>1. \A m \in DOMAIN M : h[m] \in Nat /\ (M[m].isLeaf <=> h[m] = 0)
    BY <1>1 DEF Nest, Ranked
  <2>2. ASSUME NEW q, NEW j, NEW m, Child(M, q, j, m) PROVE m \in DOMAIN M /\ h[q] = h[m] + 1
    <3>1. CASE \E t : Child(N, q, t, m)
      BY <1>1, <3>1 DEF Nest, Ranked
    <3>2. CASE q = p /\ m = c
      BY <1>1, <3>2 DEF Nest, Ranked, Beside
    <3> QED  BY <1>14, <2>2, <3>1, <3>2
  <2> QED  BY <2>1, <2>2, Zenon DEF Ranked
<1>18. OneParent(M)
  <2> SUFFICES ASSUME NEW q, NEW r, NEW j, NEW k, NEW m, Child(M, q, j, m), Child(M, r, k, m)
               PROVE  q = r /\ j = k
    BY Zenon DEF OneParent
  <2>1. \A a, b, d, e, v : Child(N, a, d, v) /\ Child(N, b, e, v) => a = b /\ d = e
    BY DEF Nest, OneParent
  <2>2. CASE m = c
    BY <1>14, <1>16, <2>2
  <2>3. CASE m # c
    <3>1. \/ q # p /\ Child(N, q, j, m)
          \/ q = p /\ j \in Int /\ j <= i /\ Child(N, p, j, m)
          \/ q = p /\ j \in Int /\ j > i + 1 /\ Child(N, p, j - 1, m)
      BY <1>14, <2>3
    <3>2. \/ r # p /\ Child(N, r, k, m)
          \/ r = p /\ k \in Int /\ k <= i /\ Child(N, p, k, m)
          \/ r = p /\ k \in Int /\ k > i + 1 /\ Child(N, p, k - 1, m)
      BY <1>14, <2>3
    <3>3. CASE q # p
      BY <2>1, <3>1, <3>2, <3>3
    <3>4. CASE q = p
      <4>1. r = p
        BY <2>1, <3>1, <3>2, <3>4
      <4>2. PICK a, b : /\ a = b /\ j \in Int /\ k \in Int
                        /\ (j <= i /\ a = j) \/ (j > i + 1 /\ a = j - 1)
                        /\ (k <= i /\ b = k) \/ (k > i + 1 /\ b = k - 1)
        BY <2>1, <3>1, <3>2, <3>4, <4>1
      <4>3. j = k
        BY <1>6, <4>2, SMT
      <4> QED  BY <3>4, <4>1, <4>3
    <3> QED  BY <3>3, <3>4
  <2> QED  BY <2>2, <2>3
<1>19. Rooted(M, root, h, {})
  <2>1. root \in DOMAIN M /\ \A m \in DOMAIN M : h[m] <= h[root]
    BY <1>1 DEF Nest, Rooted
  <2>2. ASSUME NEW q, NEW j, NEW m, Child(N, q, j, m) PROVE \E r, k : Child(M, r, k, m)
    <3>1. CASE q # p
      <4>1. q \in DOMAIN N
        BY <2>2 DEF Child
      <4> QED  BY <1>1, <2>2, <3>1, <4>1 DEF Child
    <3>2. CASE q = p
      <4>1. j \in Int /\ j \in 1 .. l + 1 /\ children[j] = m
        BY <1>2, <1>15, <2>2, <3>2 DEF Child
      <4>2. CASE j <= i
        <5>1. j \in 1 .. l + 2
          BY <4>1, SMT
        <5>2. nodes[j] = m
          BY <1>13, <4>1, <4>2, <5>1
        <5> QED  BY <1>1, <1>9, <1>12, <5>1, <5>2 DEF Child
      <4>3. CASE ~ (j <= i)
        <5>1. j + 1 \in 1 .. l + 2 /\ ~ (j + 1 <= i) /\ j + 1 # i + 1 /\ (j + 1) - 1 = j
          BY <1>6, <4>1, <4>3, SMT
        <5>2. nodes[j + 1] = m
          BY <1>13, <4>1, <5>1
        <5> QED  BY <1>1, <1>9, <1>12, <5>1, <5>2 DEF Child
      <4> QED  BY <4>2, <4>3
    <3> QED  BY <3>1, <3>2
  <2>3. Child(M, p, i + 1, c)
    <3>1. i + 1 \in 1 .. l + 2 /\ ~ (i + 1 <= i)
      BY <1>6, SMT
    <3>2. nodes[i + 1] = c
      BY <1>13, <3>1
    <3> QED  BY <1>1, <1>9, <1>12, <3>1, <3>2 DEF Child
  <2>4. \A m \in DOMAIN M : m # root => \E r, k : Child(M, r, k, m)
    <3> TAKE m \in DOMAIN M
    <3>1. m # root /\ m # c => \E q, j : Child(N, q, j, m)
      BY <1>1 DEF Nest, Rooted
    <3> QED  BY <2>2, <2>3, <3>1
  <2> QED  BY <2>1, <2>4 DEF Rooted
<1>20. Routed(M, W)
  <2>1. ASSUME NEW m \in DOMAIN M
        PROVE  W[m] \in SUBSET AnyItem /\ Nodes(M[m].items) \subseteq W[m] /\ Nodes(M[m].keys) \subseteq W[m]
    <3>1. W[m] \in SUBSET AnyItem /\ Nodes(N[m].items) \subseteq W[m] /\ Nodes(N[m].keys) \subseteq W[m]
      BY <1>1 DEF Nest, Routed
    <3>2. CASE m = p
      BY <1>1, <1>3, <1>7, <1>9, <1>11, <3>1, <3>2
    <3>3. CASE m # p
      BY <1>1, <3>1, <3>3
    <3> QED  BY <3>2, <3>3
  <2>2. ASSUME NEW q, NEW j, NEW m, Child(M, q, j, m), NEW x \in W[m]
        PROVE  x \in W[q] /\ Leads(M[q].keys, x, j)
    <3>1. CASE q # p
      <4>1. Child(N, q, j, m) /\ q \in DOMAIN N
        BY <1>14, <2>2, <3>1 DEF Child
      <4> QED  BY <1>1, <2>2, <3>1, <4>1 DEF Nest, Routed
    <3>2. CASE q = p
      <4>1. PICK k : k \in Int /\ j \in Int /\ x \in AnyItem /\ x \in W[p] /\ Leads(keys, x, k)
                     /\ \/ j = k /\ k < i
                        \/ j = k /\ k = i /\ less(x, key)
                        \/ j = k + 1 /\ k = i /\ ~ less(x, key)
                        \/ j = k + 1 /\ k > i
        <5>1. CASE j \in Int /\ j <= i /\ Child(N, p, j, m)
          <6>1. x \in W[p] /\ Leads(keys, x, j) /\ x \in AnyItem
            BY <1>1, <1>2, <2>2, <5>1 DEF Nest, Routed
          <6>2. j = i => m = n
            BY <5>1 DEF Child
          <6>3. j = i => less(x, key)
            BY <1>7, <2>2, <6>2
          <6>4. j < i \/ j = i
            BY <1>6, <5>1, SMT
          <6> QED  BY <5>1, <6>1, <6>3, <6>4
        <5>2. CASE j \in Int /\ j = i + 1 /\ m = c
          BY <1>6, <1>7, <2>2, <5>2
        <5>3. CASE j \in Int /\ j > i + 1 /\ Child(N, p, j - 1, m)
          <6>1. x \in W[p] /\ Leads(keys, x, j - 1) /\ x \in AnyItem
            BY <1>1, <1>2, <2>2, <5>3 DEF Nest, Routed
          <6>2. j - 1 \in Int /\ j = (j - 1) + 1 /\ j - 1 > i
            BY <1>6, <5>3, SMT
          <6> QED  BY <5>3, <6>1, <6>2
        <5> QED  BY <1>14, <2>2, <3>2, <5>1, <5>2, <5>3
      <4>2. /\ keys \in Seq(AnyItem) /\ key \in AnyItem /\ Leads(keys, key, i)
            /\ new = Inserted(keys, key, i - 1) /\ Len(new) = Len(keys) + 1
            /\ x \in AnyItem /\ Leads(keys, x, k)
        BY <1>3, <1>4, <1>7, <1>10, <1>11, <4>1
      <4>3. /\ k < i \/ (k = i /\ less(x, key)) => Leads(new, x, k)
            /\ k > i \/ (k = i /\ ~ less(x, key)) => Leads(new, x, k + 1)
        BY <4>2, LeadsInserted
      <4> QED  BY <1>9, <3>2, <4>1, <4>3
    <3> QED  BY <3>1, <3>2
  <2> QED  BY <2>1, <2>2, Zenon DEF Routed
<1>21. Shaped(M)
  <2> SUFFICES ASSUME NEW m \in DOMAIN M
               PROVE  /\ Sorted(M[m].items) /\ Sorted(M[m].keys)
                      /\ IF M[m].isLeaf THEN M[m].keys = <<>> /\ M[m].children = <<>>
                         ELSE M[m].items = <<>>
                      /\ M[m].children # <<>> => Len(M[m].children) = Len(M[m].keys) + 1
    BY DEF Shaped
  <2>1. CASE m # p
    BY <1>1, <2>1 DEF Nest, Shaped
  <2>2. CASE m = p
    <3>1. ~ N[p].isLeaf
      <4>1. children # <<>>
        BY <1>5
      <4> QED  BY <1>1, <1>2, <4>1 DEF Nest, Shaped
    <3>2. Sorted(N[p].items) /\ N[p].items = <<>>
      BY <1>1, <3>1 DEF Nest, Shaped
    <3>3. (l + 1) + 1 = l + 2
      BY SMT
    <3> QED  BY <1>1, <1>9, <1>11, <1>12, <2>2, <3>1, <3>2, <3>3
  <2> QED  BY <2>1, <2>2
<1>22. Nest(M, root, h, W, {})
  BY <1>1, <1>17, <1>18, <1>19, <1>20, <1>21 DEF Nest
<1>23. l + 2 = (l + 1) + 1
  BY SMT
<1> QED  BY <1>2, <1>4, <1>5, <1>9, <1>11, <1>12, <1>22, <1>23

\* Node n of a tree given other keys and children.
Rekeyed(t, n, keys, children) ==
    [t EXCEPT !.nodes[n].keys = keys, !.nodes[n].children = children]

LEMMA RekeyedIs ==
    ASSUME NEW t, IsTree(t), Typed(t.nodes), NEW n \in DOMAIN t.nodes,
           NEW keys \in Seq(AnyItem), NEW children \in Seq(Nat)
    PROVE  \E M : /\ Rekeyed(t, n, keys, children) = With(t, M) /\ Typed(M)
                  /\ DOMAIN M = DOMAIN t.nodes /\ \A m \in DOMAIN M : m # n => M[m] = t.nodes[m]
                  /\ M[n].keys = keys /\ M[n].children = children
                  /\ M[n].isLeaf = t.nodes[n].isLeaf /\ M[n].items = t.nodes[n].items
                  /\ M[n].next = t.nodes[n].next /\ M[n].prev = t.nodes[n].prev
<1>1. PICK N : N = t.nodes
  OBVIOUS
<1>2. Typed(N) /\ n \in DOMAIN N /\ n \in Nat /\ N[n] \in AnyNode /\ N = [x \in DOMAIN N |-> N[x]]
  BY <1>1 DEF Typed
<1>3. PICK mid, node : mid = [N[n] EXCEPT !.keys = keys] /\ node = [mid EXCEPT !.children = children]
  OBVIOUS
<1>4. /\ node \in AnyNode /\ node.keys = keys /\ node.children = children /\ node.isLeaf = N[n].isLeaf
      /\ node.items = N[n].items /\ node.next = N[n].next /\ node.prev = N[n].prev
  <2>1. mid \in AnyNode /\ mid.keys = keys /\ mid.isLeaf = N[n].isLeaf
        /\ mid.items = N[n].items /\ mid.next = N[n].next /\ mid.prev = N[n].prev
    BY <1>2, <1>3 DEF AnyNode
  <2> QED  BY <1>3, <2>1 DEF AnyNode
<1>5. PICK C, b : C = [N EXCEPT ![n] = mid] /\ b = With(t, C)
  OBVIOUS
<1>6. IsTree(b) /\ b.nodes = C
  BY <1>5, WithIs
<1>7. [t EXCEPT !.nodes[n].keys = keys] = b
  BY <1>1, <1>3, <1>5 DEF With
<1>8. Rekeyed(t, n, keys, children) = [b EXCEPT !.nodes[n].children = children]
  BY <1>7 DEF Rekeyed
<1>9. C[n] = mid /\ [C EXCEPT ![n] = node] = [N EXCEPT ![n] = node]
  BY <1>2, <1>5
<1>10. PICK M : M = Put(N, n, node)
  OBVIOUS
<1>11. [N EXCEPT ![n] = node] = M
  BY <1>2, <1>10, EditNode
<1>12. Rekeyed(t, n, keys, children) = With(b, M)
  BY <1>3, <1>6, <1>8, <1>9, <1>11 DEF With
<1>13. With(b, M) = With(t, M)
  BY <1>5, WithTwice
<1>14. /\ Typed(M) /\ DOMAIN M = DOMAIN N \union {n} /\ M[n] = node
       /\ \A m \in DOMAIN N : m # n => M[m] = N[m]
  <2>1. Typed(N) /\ n \in Nat /\ node \in AnyNode
    BY <1>2, <1>4
  <2>2. /\ Typed(Put(N, n, node)) /\ DOMAIN Put(N, n, node) = DOMAIN N \union {n}
        /\ Put(N, n, node)[n] = node
        /\ \A m \in DOMAIN N : m # n => Put(N, n, node)[m] = N[m]
    BY <2>1, TypedPut
  <2> QED  BY <1>10, <2>2
<1>15. DOMAIN M = DOMAIN t.nodes
  BY <1>1, <1>14
<1> QED  BY <1>1, <1>4, <1>12, <1>13, <1>14, <1>15

\* The tree once n has the key and the child c after its i-th child.
Attach(t, n, i, key, c) ==
    [t EXCEPT !.nodes[n].keys = Seqs!InsertAt(@, i, key),
              !.nodes[n].children = Seqs!InsertAt(@, i + 1, c)]

LEMMA AttachIs ==
    ASSUME NEW t, IsTree(t), Typed(t.nodes), NEW n \in DOMAIN t.nodes,
           NEW i \in 1 .. Len(t.nodes[n].children),
           Len(t.nodes[n].children) = Len(t.nodes[n].keys) + 1,
           NEW key \in AnyItem, NEW c \in Nat, NEW s, s = Attach(t, n, i, key, c)
    PROVE  \E M : /\ s = With(t, M) /\ Attached(t.nodes, M, n, i, key, c)
                  /\ M[n].next = t.nodes[n].next /\ M[n].prev = t.nodes[n].prev
<1>1. PICK N : N = t.nodes
  OBVIOUS
<1>2. PICK keys, children : keys = N[n].keys /\ children = N[n].children
  OBVIOUS
<1>3. keys \in Seq(AnyItem) /\ children \in Seq(Nat) /\ Len(keys) \in Nat
  BY <1>1, <1>2, NodeParts
<1>4. i \in 0 .. Len(children) /\ i - 1 \in 0 .. Len(keys) /\ (i - 1) + 1 = i
  <2>1. Len(children) = Len(keys) + 1 /\ i \in 1 .. Len(children)
    BY <1>1, <1>2
  <2> QED  BY <1>3, <2>1, SMT
<1>5. PICK a, b : a = Inserted(keys, key, i - 1) /\ b = Inserted(children, c, i)
  OBVIOUS
<1>6. a \in Seq(AnyItem) /\ Seqs!InsertAt(keys, i, key) = a
  <2>1. PICK q : q = i - 1
    OBVIOUS
  <2>2. q \in 0 .. Len(keys) /\ keys \in Seq(AnyItem) /\ q + 1 = i
    BY <1>3, <1>4, <2>1
  <2>3. Seqs!InsertAt(keys, q + 1, key) = Inserted(keys, key, q) /\ Inserted(keys, key, q) \in Seq(AnyItem)
    BY <2>2, InsertAtIs
  <2> QED  BY <1>5, <2>1, <2>2, <2>3
<1>7. b \in Seq(Nat) /\ Seqs!InsertAt(children, i + 1, c) = b
  BY <1>3, <1>4, <1>5, InsertAtIs
<1>8. s = Rekeyed(t, n, a, b)
  BY <1>1, <1>2, <1>6, <1>7 DEF Rekeyed, Attach
<1>9. PICK M : /\ Rekeyed(t, n, a, b) = With(t, M) /\ Typed(M)
               /\ DOMAIN M = DOMAIN t.nodes /\ \A m \in DOMAIN M : m # n => M[m] = t.nodes[m]
               /\ M[n].keys = a /\ M[n].children = b
               /\ M[n].isLeaf = t.nodes[n].isLeaf /\ M[n].items = t.nodes[n].items
               /\ M[n].next = t.nodes[n].next /\ M[n].prev = t.nodes[n].prev
  BY <1>6, <1>7, RekeyedIs
<1>10. Attached(t.nodes, M, n, i, key, c)
  BY <1>1, <1>2, <1>5, <1>9 DEF Attached
<1> QED  BY <1>8, <1>9, <1>10

-----------------------------------------------------------------------------
(* An inner node cut in two                                                  *)

LEMMA PartIs ==
    ASSUME NEW S, NEW list \in Seq(S), NEW a \in Nat \ {0}, NEW b \in Nat, b <= Len(list), a <= b + 1,
           NEW part, part = Part(list, a, b)
    PROVE  /\ part \in Seq(S) /\ Len(part) = b - a + 1
           /\ \A i \in 1 .. b - a + 1 : part[i] = list[a + i - 1]
<1>1. part \in Seq(S)
  BY SMTT(30) DEF Part
<1>2. Len(part) = b - a + 1
  BY SMTT(30) DEF Part
<1>3. \A i \in 1 .. b - a + 1 : part[i] = list[a + i - 1]
  BY SMTT(30) DEF Part
<1> QED  BY <1>1, <1>2, <1>3

\* part is the children of list from a to b.
ChildrenOf(list, a, b, part) ==
    /\ list \in Seq(Nat) /\ a \in Nat \ {0} /\ b \in Nat /\ b <= Len(list) /\ a <= b + 1
    /\ part = Part(list, a, b)

LEMMA ChildrenLen ==
    ASSUME NEW list, NEW a, NEW b, NEW part, ChildrenOf(list, a, b, part)
    PROVE  Len(part) = b - a + 1
  BY SMTT(30) DEF ChildrenOf, Part

\* Node n keeps its first i children, a new node c gets the others; the key between
\* them stays in neither.
InnerSplit(N, M, n, c, i) ==
    /\ Typed(M) /\ c \in Nat /\ c \notin DOMAIN N /\ DOMAIN M = DOMAIN N \union {c}
    /\ ~ M[c].isLeaf /\ M[c].items = <<>> /\ M[c].next = NoNode
    /\ M[c].keys = Part(N[n].keys, i + 1, Len(N[n].keys))
    /\ M[c].children = Part(N[n].children, i + 1, Len(N[n].children))
    /\ M[n].keys = Part(N[n].keys, 1, i - 1) /\ M[n].children = Part(N[n].children, 1, i)
    /\ M[n].isLeaf = N[n].isLeaf /\ M[n].items = N[n].items
    /\ M[n].next = N[n].next /\ M[n].prev = N[n].prev
    /\ \A m \in DOMAIN N : m # n => M[m] = N[m]

\* i is the key that SplitInner promotes.
Middle(keys, i) == i = (Len(keys) \div 2) + 1

LEMMA SplitInnerIs ==
    ASSUME NEW t, IsTree(t), Typed(t.nodes), NEW n \in DOMAIN t.nodes,
           NEW i, Middle(t.nodes[n].keys, i), i \in 1 .. Len(t.nodes[n].keys),
           Len(t.nodes[n].children) = Len(t.nodes[n].keys) + 1
    PROVE  \E M, c : /\ SplitInner(t, n) = Split(With(t, M), t.nodes[n].keys[i], c)
                     /\ InnerSplit(t.nodes, M, n, c, i)
<1>1. PICK N : N = t.nodes
  OBVIOUS
<1>2. PICK keys, children : keys = N[n].keys /\ children = N[n].children
  OBVIOUS
<1>3. keys \in Seq(AnyItem) /\ children \in Seq(Nat) /\ Len(keys) \in Nat /\ Len(children) \in Nat
  BY <1>1, <1>2, NodeParts
<1>4. /\ i \in Nat \ {0} /\ i <= Len(children) /\ i - 1 \in Nat /\ i - 1 <= Len(keys) /\ 1 <= (i - 1) + 1
      /\ 1 <= i + 1 /\ i + 1 \in Nat \ {0} /\ i + 1 <= Len(keys) + 1 /\ i + 1 <= Len(children) + 1
  <2>1. i \in 1 .. Len(keys) /\ Len(children) = Len(keys) + 1
    BY <1>1, <1>2
  <2>2. PICK k, l \in Nat : l = Len(keys) /\ k = Len(children) /\ k = l + 1 /\ i \in 1 .. l
    BY <1>3, <2>1
  <2>3. /\ i \in Nat \ {0} /\ i <= k /\ i - 1 \in Nat /\ i - 1 <= l /\ 1 <= (i - 1) + 1
        /\ 1 <= i + 1 /\ i + 1 \in Nat \ {0} /\ i + 1 <= l + 1 /\ i + 1 <= k + 1
    BY <2>2, SMT
  <2> QED  BY <2>2, <2>3
<1>5. PICK c : c = Fresh(t)
  OBVIOUS
<1>6. c \in Nat /\ c \notin DOMAIN N /\ c # n
  <2>1. IsFiniteSet(DOMAIN t.nodes) /\ DOMAIN t.nodes \in SUBSET Nat
    BY DEF Typed
  <2>2. c \in Nat /\ c \notin DOMAIN t.nodes
    BY <1>5, <2>1, FreshIs
  <2> QED  BY <1>1, <2>2
<1>7. PICK ka, kb, ca, cb : /\ ka = Part(keys, 1, i - 1) /\ kb = Part(keys, i + 1, Len(keys))
                            /\ ca = Part(children, 1, i) /\ cb = Part(children, i + 1, Len(children))
  OBVIOUS
<1>8. ka \in Seq(AnyItem) /\ kb \in Seq(AnyItem) /\ ca \in Seq(Nat) /\ cb \in Seq(Nat)
  <2>1. PICK one, q, next : one = 1 /\ q = i - 1 /\ next = i + 1
    OBVIOUS
  <2>2. /\ one \in Nat \ {0} /\ q \in Nat /\ q <= Len(keys) /\ one <= q + 1 /\ ka = Part(keys, one, q)
        /\ next \in Nat \ {0} /\ next <= Len(keys) + 1 /\ kb = Part(keys, next, Len(keys))
        /\ one <= i + 1 /\ ca = Part(children, one, i) /\ i \in Nat /\ i <= Len(children)
        /\ next <= Len(children) + 1 /\ cb = Part(children, next, Len(children))
    <3>1. 1 \in Nat \ {0} /\ i \in Nat
      BY <1>4
    <3> QED  BY <1>4, <1>7, <2>1, <3>1
  <2>3. Len(keys) <= Len(keys) /\ Len(children) <= Len(children)
    BY <1>3, SMT
  <2>4. ka \in Seq(AnyItem)
    BY <1>3, <2>2, PartIs
  <2>5. kb \in Seq(AnyItem)
    BY <1>3, <2>2, <2>3, PartIs
  <2>6. ca \in Seq(Nat)
    BY <1>3, <2>2, PartIs
  <2>7. cb \in Seq(Nat)
    BY <1>3, <2>2, <2>3, PartIs
  <2> QED  BY <2>4, <2>5, <2>6, <2>7
<1>9. PICK new : new = Inner(kb, cb)
  OBVIOUS
<1>10. /\ new \in AnyNode /\ ~ new.isLeaf /\ new.items = <<>> /\ new.keys = kb /\ new.children = cb
       /\ new.next = NoNode
  <2>1. <<>> \in Seq(AnyItem) /\ NoNode \in Pointer /\ 0 \in Nat
    BY DEF Pointer
  <2> QED  BY <1>8, <1>9, <2>1 DEF Inner, AnyNode
<1>11. PICK A : A = Put(N, c, new)
  OBVIOUS
<1>12. /\ Typed(A) /\ DOMAIN A = DOMAIN N \union {c} /\ A[c] = new
       /\ \A m \in DOMAIN N : m # c => A[m] = N[m]
  <2>1. c \in Nat /\ new \in AnyNode /\ Typed(N)
    BY <1>1, <1>6, <1>10
  <2>2. /\ Typed(Put(N, c, new)) /\ DOMAIN Put(N, c, new) = DOMAIN N \union {c}
        /\ Put(N, c, new)[c] = new
        /\ \A m \in DOMAIN N : m # c => Put(N, c, new)[m] = N[m]
    BY <2>1, TypedPut
  <2> QED  BY <1>11, <2>2
<1>13. PICK a : a = Allocate(t, c, new)
  OBVIOUS
<1>14. a = With(t, A)
  BY <1>1, <1>11, <1>13, AllocateIs
<1>15. IsTree(a) /\ a.nodes = A /\ A[n] = N[n] /\ n \in DOMAIN A
  <2>1. IsTree(a) /\ a.nodes = A
    BY <1>14, WithIs
  <2> QED  BY <1>1, <1>6, <1>12, <2>1
<1>16. CutInner(t, n, i, i + 1) = Rekeyed(a, n, ka, ca)
  <2>1. CutInner(t, n, i, i + 1) = [a EXCEPT !.nodes[n].keys = SubSeq(@, 1, i - 1),
                                             !.nodes[n].children = SubSeq(@, 1, i)]
    BY <1>1, <1>2, <1>5, <1>7, <1>9, <1>13 DEF CutInner, Part
  <2>2. SubSeq(a.nodes[n].keys, 1, i - 1) = ka /\ SubSeq(a.nodes[n].children, 1, i) = ca
    BY <1>2, <1>7, <1>15 DEF Part
  <2> QED  BY <2>1, <2>2 DEF Rekeyed
<1>17. PICK M : /\ Rekeyed(a, n, ka, ca) = With(a, M) /\ Typed(M)
                /\ DOMAIN M = DOMAIN a.nodes /\ \A m \in DOMAIN M : m # n => M[m] = a.nodes[m]
                /\ M[n].keys = ka /\ M[n].children = ca
                /\ M[n].isLeaf = a.nodes[n].isLeaf /\ M[n].items = a.nodes[n].items
                /\ M[n].next = a.nodes[n].next /\ M[n].prev = a.nodes[n].prev
  <2>1. IsTree(a) /\ Typed(a.nodes) /\ n \in DOMAIN a.nodes /\ ka \in Seq(AnyItem) /\ ca \in Seq(Nat)
    BY <1>8, <1>12, <1>15
  <2> QED  BY <2>1, RekeyedIs
<1>18. With(a, M) = With(t, M)
  BY <1>14, WithTwice
<1>19. SplitInner(t, n) = Split(With(t, M), keys[i], c)
  <2>1. i = (Len(keys) \div 2) + 1
    BY <1>1, <1>2 DEF Middle
  <2> QED  BY <1>1, <1>2, <1>5, <1>16, <1>17, <1>18, <2>1 DEF SplitInner
<1>20. M[c] = new /\ \A m \in DOMAIN N : m # n => M[m] = N[m]
  BY <1>6, <1>12, <1>15, <1>17
<1>21. InnerSplit(N, M, n, c, i)
  BY <1>2, <1>6, <1>7, <1>10, <1>12, <1>15, <1>17, <1>20 DEF InnerSplit
<1> QED  BY <1>1, <1>2, <1>19, <1>21

\* A split inner node and its new sibling leave the rest as it was.
LEMMA InnerSplitNest ==
    ASSUME NEW N, NEW root, NEW h, NEW W, Nest(N, root, h, W, {}),
           NEW n \in DOMAIN N, ~ N[n].isLeaf, N[n].children # <<>>,
           NEW i \in 2 .. Len(N[n].keys), NEW M, NEW c, InnerSplit(N, M, n, c, i),
           NEW key, key = N[n].keys[i],
           NEW H, H = Higher(N, h, n, c), NEW V, V = Parted(N, W, n, c, key)
    PROVE  Nest(M, root, H, V, {c}) /\ Beside(M, H, V, n, key, c)
<1>1. /\ c \in Nat /\ c \notin DOMAIN N /\ DOMAIN M = DOMAIN N \union {c} /\ Typed(M) /\ n # c
      /\ ~ M[c].isLeaf /\ M[c].items = <<>> /\ M[n].isLeaf = N[n].isLeaf /\ M[n].items = N[n].items
      /\ \A m \in DOMAIN N : m # n => M[m] = N[m]
  BY DEF InnerSplit
<1>2. PICK keys, children : keys = N[n].keys /\ children = N[n].children
  OBVIOUS
<1>3. keys \in Seq(AnyItem) /\ children \in Seq(Nat) /\ Sorted(keys) /\ Nodes(keys) \subseteq W[n]
  BY <1>2, NodeParts DEF Nest, Shaped, Routed
<1>4. PICK l \in Nat : l = Len(keys)
  BY <1>3
<1>5. Len(children) = l + 1 /\ i \in 2 .. l /\ key = keys[i]
  <2>1. Len(N[n].children) = Len(N[n].keys) + 1
    BY DEF Nest, Shaped
  <2> QED  BY <1>2, <1>4, <2>1
<1>6. /\ i \in Nat /\ i \in 1 .. l /\ 1 \in 1 .. i - 1 /\ 1 <= l /\ 1 \in 1 .. l
      /\ i - 1 \in Nat /\ i - 1 <= l /\ 1 <= (i - 1) + 1 /\ 1 <= i + 1 /\ i <= l + 1
      /\ i + 1 \in Nat \ {0} /\ i + 1 <= l + 1 /\ i + 1 <= (l + 1) + 1 /\ 1 \in Nat \ {0}
      /\ l <= l /\ l + 1 <= l + 1 /\ l + 1 \in Nat
      /\ (i - 1) - 1 + 1 = i - 1 /\ l - (i + 1) + 1 = l - i
      /\ i - 1 + 1 = i /\ (l + 1) - (i + 1) + 1 = (l - i) + 1
  BY <1>4, <1>5, SMT
<1>7. PICK ka, kb, ca, cb : /\ ka = M[n].keys /\ kb = M[c].keys
                            /\ ca = M[n].children /\ cb = M[c].children
  OBVIOUS
<1>8. /\ ka = Part(keys, 1, i - 1) /\ kb = Part(keys, i + 1, l)
      /\ ca = Part(children, 1, i) /\ cb = Part(children, i + 1, l + 1)
  BY <1>2, <1>4, <1>5, <1>7 DEF InnerSplit
<1>9. /\ Sorted(ka) /\ Len(ka) = i - 1 /\ Nodes(ka) = {keys[t] : t \in 1 .. i - 1}
      /\ \A t \in 1 .. i - 1 : ka[t] = keys[t]
  <2>1. PICK one, q : one = 1 /\ q = i - 1
    OBVIOUS
  <2>2. /\ one \in Nat \ {0} /\ q \in Nat /\ q <= Len(keys) /\ one <= q + 1 /\ ka = Part(keys, one, q) /\ Sorted(keys)
    BY <1>3, <1>4, <1>6, <1>8, <2>1
  <2>3. /\ Sorted(ka) /\ Len(ka) = q - one + 1 /\ Nodes(ka) = {keys[t] : t \in one .. q}
        /\ \A t \in 1 .. q - one + 1 : ka[t] = keys[one + t - 1]
    <3>1. Taken(keys, one, q, ka)
      BY <2>2 DEF Taken
    <3> QED  BY <3>1, PartOf
  <2>4. q - one + 1 = i - 1 /\ \A t \in 1 .. i - 1 : one + t - 1 = t
    BY <1>6, <2>1, SMT
  <2> QED  BY <2>1, <2>3, <2>4
<1>10. /\ Sorted(kb) /\ Len(kb) = l - i /\ Nodes(kb) = {keys[t] : t \in i + 1 .. l}
       /\ \A t \in 1 .. l - i : kb[t] = keys[i + t]
  <2>1. PICK q : q = i + 1
    OBVIOUS
  <2>2. /\ q \in Nat \ {0} /\ l \in Nat /\ l <= Len(keys) /\ q <= l + 1 /\ kb = Part(keys, q, l) /\ Sorted(keys)
    BY <1>3, <1>4, <1>6, <1>8, <2>1
  <2>3. /\ Sorted(kb) /\ Len(kb) = l - q + 1 /\ Nodes(kb) = {keys[t] : t \in q .. l}
        /\ \A t \in 1 .. l - q + 1 : kb[t] = keys[q + t - 1]
    <3>1. Taken(keys, q, l, kb)
      BY <2>2 DEF Taken
    <3> QED  BY <3>1, PartOf
  <2>4. l - q + 1 = l - i /\ \A t \in 1 .. l - i : q + t - 1 = i + t
    BY <1>6, <2>1, SMT
  <2> QED  BY <2>1, <2>3, <2>4
<1>11. ca \in Seq(Nat) /\ Len(ca) = i /\ \A t \in 1 .. i : ca[t] = children[t]
  <2>1. PICK one : one = 1
    OBVIOUS
  <2>2. /\ one \in Nat \ {0} /\ i \in Nat /\ i <= Len(children) /\ one <= i + 1 /\ ca = Part(children, one, i)
          /\ children \in Seq(Nat)
    BY <1>3, <1>5, <1>6, <1>8, <2>1
  <2>3. /\ ca \in Seq(Nat) /\ Len(ca) = i - one + 1
        /\ \A t \in 1 .. i - one + 1 : ca[t] = children[one + t - 1]
    <3>1. ca \in Seq(Nat)
      BY <2>2, PartIs
    <3>2. Len(ca) = i - one + 1
      BY <2>2, PartIs
    <3>3. \A t \in 1 .. i - one + 1 : ca[t] = children[one + t - 1]
      BY <2>2, SMTT(30) DEF Part
    <3> QED  BY <3>1, <3>2, <3>3
  <2>4. i - one + 1 = i /\ \A t \in 1 .. i : one + t - 1 = t
    BY <1>6, <2>1, SMT
  <2> QED  BY <2>3, <2>4
<1>12. cb \in Seq(Nat) /\ Len(cb) = (l - i) + 1 /\ \A t \in 1 .. (l - i) + 1 : cb[t] = children[i + t]
  <2>1. PICK q, k : q = i + 1 /\ k = l + 1
    OBVIOUS
  <2>2. /\ q \in Nat \ {0} /\ k \in Nat /\ k <= Len(children) /\ q <= k + 1 /\ cb = Part(children, q, k)
          /\ children \in Seq(Nat)
    BY <1>3, <1>5, <1>6, <1>8, <2>1
  <2>3. /\ cb \in Seq(Nat) /\ Len(cb) = k - q + 1
        /\ \A t \in 1 .. k - q + 1 : cb[t] = children[q + t - 1]
    <3>1. cb \in Seq(Nat)
      BY <2>2, PartIs
    <3>2. Len(cb) = k - q + 1
      BY <2>2, PartIs
    <3>3. \A t \in 1 .. k - q + 1 : cb[t] = children[q + t - 1]
      BY <2>2, SMTT(30) DEF Part
    <3> QED  BY <3>1, <3>2, <3>3
  <2>4. k - q + 1 = (l - i) + 1 /\ \A t \in 1 .. (l - i) + 1 : q + t - 1 = i + t
    BY <1>4, <1>6, <2>1, SMT
  <2> QED  BY <2>3, <2>4
<1>13. /\ \A t \in 1 .. l : keys[t] \in AnyItem /\ keys[t] \in W[n]
       /\ \A t \in 1 .. i - 1 : less(keys[t], key)
       /\ \A t \in i + 1 .. l : less(key, keys[t]) /\ ~ less(keys[t], key)
       /\ key \in AnyItem /\ key \in W[n] /\ ~ less(key, key)
  <2>1. \A t \in 1 .. l : keys[t] \in AnyItem /\ keys[t] \in W[n]
    BY <1>3, <1>4, ListParts DEF Nodes
  <2>2. /\ \A t \in 1 .. i - 1 : t \in 1 .. l /\ t < i
        /\ \A t \in i + 1 .. l : t \in 1 .. l /\ i < t
    <3>1. i \in Nat /\ i \in 1 .. l
      BY <1>6
    <3> QED  BY <1>4, <3>1, SMT
  <2>3. \A t, u \in 1 .. l : t < u => less(keys[t], keys[u])
    BY <1>3, <1>4 DEF Sorted
  <2>4. /\ \A t \in 1 .. i - 1 : less(keys[t], key)
        /\ \A t \in i + 1 .. l : less(key, keys[t])
    BY <1>5, <1>6, <2>2, <2>3
  <2>5. key \in AnyItem /\ key \in W[n]
    BY <1>5, <1>6, <2>1
  <2> QED  BY <2>1, <2>2, <2>4, <2>5, LessOrder
<1>14. \A m \in DOMAIN N : W[m] \in SUBSET AnyItem
  BY DEF Nest, Routed
<1>15. /\ H[c] = h[n] /\ \A m \in DOMAIN N : H[m] = h[m]
       /\ \A x : x \in V[c] <=> x \in W[n] /\ ~ less(x, key)
       /\ \A x : x \in V[n] <=> x \in W[n] /\ less(x, key)
       /\ \A m \in DOMAIN N : m # n => V[m] = W[m]
       /\ \A m \in DOMAIN N : V[m] \subseteq W[m]
       /\ \A m \in DOMAIN N \union {c} : V[m] \in SUBSET AnyItem
  <2>1. H[c] = h[n] /\ \A m \in DOMAIN N : H[m] = h[m]
    BY <1>1 DEF Higher
  <2>2. /\ \A x : x \in V[c] <=> x \in W[n] /\ ~ less(x, key)
        /\ \A x : x \in V[n] <=> x \in W[n] /\ less(x, key)
        /\ \A m \in DOMAIN N : m # n => V[m] = W[m]
    BY <1>1 DEF Parted
  <2>3. \A m \in DOMAIN N : V[m] \subseteq W[m]
    BY <2>2
  <2>4. V[c] \subseteq W[n]
    BY <2>2
  <2> QED  BY <1>14, <2>1, <2>2, <2>3, <2>4
<1>16. \A p, j, m : Child(N, p, j, m) => /\ p \in DOMAIN N /\ m \in DOMAIN N /\ m # c /\ p # c /\ m # p
  <2> SUFFICES ASSUME NEW p, NEW j, NEW m, Child(N, p, j, m)
               PROVE  p \in DOMAIN N /\ m \in DOMAIN N /\ m # c /\ p # c /\ m # p
    OBVIOUS
  <2>1. p \in DOMAIN N /\ m \in DOMAIN N /\ h[p] = h[m] + 1
    BY DEF Child, Nest, Ranked
  <2>2. h[p] \in Nat /\ h[m] \in Nat
    BY <2>1 DEF Nest, Ranked
  <2>3. h[p] # h[m]
    BY <2>1, <2>2, SMT
  <2> QED  BY <1>1, <2>1, <2>3
<1>17. ASSUME NEW q, NEW j, NEW m, Child(M, q, j, m)
       PROVE  \/ q # n /\ q # c /\ Child(N, q, j, m)
              \/ q = n /\ j \in 1 .. i /\ Child(N, n, j, m)
              \/ q = c /\ j \in 1 .. (l - i) + 1 /\ Child(N, n, i + j, m)
  <2>1. CASE q # n /\ q # c
    BY <1>1, <1>17, <2>1 DEF Child
  <2>2. CASE q = n
    <3>1. j \in 1 .. i /\ ca[j] = m
      BY <1>7, <1>11, <1>17, <2>2 DEF Child
    <3>2. j \in 1 .. l + 1
      BY <1>6, <3>1, SMT
    <3> QED  BY <1>2, <1>5, <1>11, <2>2, <3>1, <3>2 DEF Child
  <2>3. CASE q = c
    <3>1. j \in 1 .. (l - i) + 1 /\ cb[j] = m
      BY <1>7, <1>12, <1>17, <2>3 DEF Child
    <3>2. i + j \in 1 .. l + 1
      BY <1>6, <3>1, SMT
    <3> QED  BY <1>2, <1>5, <1>12, <2>3, <3>1, <3>2 DEF Child
  <2> QED  BY <2>1, <2>2, <2>3
<1>18. ASSUME NEW q, NEW j, NEW m, Child(N, q, j, m) PROVE \E r, k : Child(M, r, k, m)
  <2>1. CASE q # n
    <3>1. q \in DOMAIN N
      BY <1>18 DEF Child
    <3> QED  BY <1>1, <1>18, <2>1, <3>1 DEF Child
  <2>2. CASE q = n
    <3>1. j \in 1 .. l + 1 /\ children[j] = m
      BY <1>2, <1>5, <1>18, <2>2 DEF Child
    <3>2. CASE j <= i
      <4>1. j \in 1 .. i
        BY <1>6, <3>1, <3>2, SMT
      <4>2. Child(M, n, j, m)
        BY <1>1, <1>7, <1>11, <3>1, <4>1 DEF Child
      <4> QED  BY <4>2
    <3>3. CASE ~ (j <= i)
      <4>1. PICK k : k = j - i
        OBVIOUS
      <4>2. k \in 1 .. (l - i) + 1 /\ i + k = j
        BY <1>6, <3>1, <3>3, <4>1, SMT
      <4>3. Child(M, c, k, m)
        BY <1>1, <1>7, <1>12, <3>1, <4>2 DEF Child
      <4> QED  BY <4>3
    <3> QED  BY <3>2, <3>3
  <2> QED  BY <2>1, <2>2
<1>19. Ranked(M, H)
  <2>1. ASSUME NEW m \in DOMAIN M PROVE H[m] \in Nat /\ (M[m].isLeaf <=> H[m] = 0)
    <3>1. h[n] \in Nat /\ h[n] # 0
      BY DEF Nest, Ranked
    <3>2. CASE m = c
      BY <1>1, <1>15, <3>1, <3>2
    <3>3. CASE m \in DOMAIN N
      BY <1>1, <1>15, <3>3 DEF Nest, Ranked
    <3> QED  BY <1>1, <3>2, <3>3
  <2>2. ASSUME NEW p, NEW j, NEW m, Child(M, p, j, m) PROVE m \in DOMAIN M /\ H[p] = H[m] + 1
    <3>1. PICK q, k : Child(N, q, k, m) /\ H[p] = h[q]
      BY <1>15, <1>16, <1>17, <2>2
    <3>2. m \in DOMAIN N /\ h[q] = h[m] + 1
      BY <3>1 DEF Nest, Ranked
    <3> QED  BY <1>1, <1>15, <3>1, <3>2
  <2> QED  BY <2>1, <2>2, Zenon DEF Ranked
<1>20. OneParent(M)
  <2> SUFFICES ASSUME NEW p, NEW q, NEW j, NEW k, NEW m, Child(M, p, j, m), Child(M, q, k, m)
               PROVE  p = q /\ j = k
    BY Zenon DEF OneParent
  <2>1. \A a, b, d, e, v : Child(N, a, d, v) /\ Child(N, b, e, v) => a = b /\ d = e
    BY DEF Nest, OneParent
  <2>2. \A a \in 1 .. i, b \in 1 .. (l - i) + 1 : a # i + b
    BY <1>6, SMT
  <2>3. \A a, b \in 1 .. (l - i) + 1 : i + a = i + b => a = b
    BY <1>6, SMT
  <2>4. CASE p # n /\ p # c /\ Child(N, p, j, m)
    BY <1>17, <2>1, <2>4
  <2>5. CASE p = n /\ j \in 1 .. i /\ Child(N, n, j, m)
    BY <1>17, <2>1, <2>2, <2>5
  <2>6. CASE p = c /\ j \in 1 .. (l - i) + 1 /\ Child(N, n, i + j, m)
    BY <1>17, <2>1, <2>2, <2>3, <2>6
  <2> QED  BY <1>17, <2>4, <2>5, <2>6
<1>21. Rooted(M, root, H, {c})
  <2>1. root \in DOMAIN N /\ root \in DOMAIN M
    BY <1>1 DEF Nest, Rooted
  <2>2. ASSUME NEW m \in DOMAIN M PROVE H[m] <= H[root]
    BY <1>1, <1>15, <2>1 DEF Nest, Rooted
  <2>3. ASSUME NEW m \in DOMAIN M, m # root, m \notin {c} PROVE \E p, j : Child(M, p, j, m)
    <3>1. PICK p, j : Child(N, p, j, m)
      BY <1>1, <2>3 DEF Nest, Rooted
    <3> QED  BY <1>18, <3>1
  <2> QED  BY <2>1, <2>2, <2>3 DEF Rooted
<1>22. Routed(M, V)
  <2>1. ASSUME NEW m \in DOMAIN M
        PROVE  V[m] \in SUBSET AnyItem /\ Nodes(M[m].items) \subseteq V[m] /\ Nodes(M[m].keys) \subseteq V[m]
    <3>1. Nodes(<<>>) = {}
      BY DEF Nodes
    <3>2. CASE m = c
      <4>1. \A t \in i + 1 .. l : t \in 1 .. l
        BY <1>6, SMT
      <4>2. Nodes(kb) \subseteq V[m]
        BY <1>10, <1>13, <1>15, <3>2, <4>1
      <4> QED  BY <1>1, <1>7, <1>15, <3>1, <3>2, <4>2
    <3>3. CASE m = n
      <4>1. M[m].items = <<>>
        BY <1>1, <3>3 DEF Nest, Shaped
      <4>2. \A t \in 1 .. i - 1 : t \in 1 .. l
        BY <1>6, SMT
      <4>3. Nodes(ka) \subseteq V[m]
        BY <1>9, <1>13, <1>15, <3>3, <4>2
      <4> QED  BY <1>1, <1>7, <1>15, <3>1, <3>3, <4>1, <4>3
    <3>4. CASE m # c /\ m # n
      <4>1. m \in DOMAIN N /\ V[m] = W[m] /\ M[m] = N[m]
        BY <1>1, <1>15, <3>4
      <4> QED  BY <4>1 DEF Nest, Routed
    <3> QED  BY <3>2, <3>3, <3>4
  <2>2. ASSUME NEW p, NEW j, NEW m, Child(M, p, j, m), NEW x \in V[m]
        PROVE  x \in V[p] /\ Leads(M[p].keys, x, j)
    <3>0. \A q, k : Child(N, q, k, m) => x \in AnyItem /\ x \in W[q] /\ Leads(N[q].keys, x, k)
      <4> SUFFICES ASSUME NEW q, NEW k, Child(N, q, k, m)
                   PROVE  x \in AnyItem /\ x \in W[q] /\ Leads(N[q].keys, x, k)
        OBVIOUS
      <4>1. x \in W[m] /\ x \in AnyItem
        BY <1>15, <1>16, <2>2
      <4> QED  BY <4>1 DEF Nest, Routed
    <3>1. CASE p # n /\ p # c /\ Child(N, p, j, m)
      <4>1. p \in DOMAIN N
        BY <1>16, <3>1
      <4> QED  BY <1>1, <1>15, <3>0, <3>1, <4>1
    <3>2. CASE p = n /\ j \in 1 .. i /\ Child(N, n, j, m)
      <4>1. x \in AnyItem /\ x \in W[n] /\ Leads(keys, x, j)
        BY <1>2, <3>0, <3>2
      <4>2. /\ j <= l /\ j \in 1 .. l /\ (j = i \/ j \in 1 .. i - 1) /\ j \in 1 .. (i - 1) + 1
            /\ \A t \in 1 .. j - 1 : t \in 1 .. i - 1
            /\ (j <= i - 1 => j \in 1 .. i - 1)
        BY <1>6, <3>2, SMT
      <4>3. less(x, keys[j])
        BY <1>4, <4>1, <4>2 DEF Leads
      <4>4. less(x, key)
        BY <1>5, <1>13, <4>1, <4>2, <4>3, LessOrder
      <4>5. Leads(ka, x, j)
        BY <1>9, <4>1, <4>2, <4>3 DEF Leads
      <4> QED  BY <1>7, <1>15, <3>2, <4>1, <4>4, <4>5
    <3>3. CASE p = c /\ j \in 1 .. (l - i) + 1 /\ Child(N, n, i + j, m)
      <4>1. x \in AnyItem /\ x \in W[n] /\ Leads(keys, x, i + j)
        BY <1>2, <3>0, <3>3
      <4>2. /\ i \in 1 .. (i + j) - 1
            /\ \A t \in 1 .. j - 1 : t \in 1 .. l - i /\ i + t \in 1 .. (i + j) - 1
            /\ j <= l - i => j \in 1 .. l - i /\ i + j <= l
        BY <1>6, <3>3, SMT
      <4>3. ~ less(x, key)
        BY <1>5, <4>1, <4>2 DEF Leads
      <4>4. \A t \in 1 .. j - 1 : ~ less(x, kb[t])
        BY <1>10, <4>1, <4>2 DEF Leads
      <4>5. j <= l - i => less(x, kb[j])
        BY <1>4, <1>10, <4>1, <4>2 DEF Leads
      <4>6. Leads(kb, x, j)
        BY <1>10, <3>3, <4>4, <4>5 DEF Leads
      <4> QED  BY <1>7, <1>15, <3>3, <4>1, <4>3, <4>6
    <3> QED  BY <1>17, <2>2, <3>1, <3>2, <3>3
  <2> QED  BY <2>1, <2>2, Zenon DEF Routed
<1>23. Shaped(M)
  <2> SUFFICES ASSUME NEW m \in DOMAIN M
               PROVE  /\ Sorted(M[m].items) /\ Sorted(M[m].keys)
                      /\ IF M[m].isLeaf THEN M[m].keys = <<>> /\ M[m].children = <<>>
                         ELSE M[m].items = <<>>
                      /\ M[m].children # <<>> => Len(M[m].children) = Len(M[m].keys) + 1
    BY DEF Shaped
  <2>0. Sorted(<<>>)
    BY DEF Sorted
  <2>1. CASE m = c
    BY <1>1, <1>7, <1>10, <1>12, <2>0, <2>1
  <2>2. CASE m = n
    <3>1. M[m].items = <<>> /\ ~ M[m].isLeaf
      BY <1>1, <2>2 DEF Nest, Shaped
    <3> QED  BY <1>6, <1>7, <1>9, <1>11, <2>0, <2>2, <3>1
  <2>3. CASE m # c /\ m # n
    <3>1. m \in DOMAIN N /\ M[m] = N[m]
      BY <1>1, <2>3
    <3> QED  BY <3>1 DEF Nest, Shaped
  <2> QED  BY <2>1, <2>2, <2>3
<1>24. Nest(M, root, H, V, {c})
  BY <1>1, <1>19, <1>20, <1>21, <1>22, <1>23 DEF Nest
<1>25. Beside(M, H, V, n, key, c)
  <2>1. \A p, j : ~ Child(M, p, j, c)
    BY <1>16, <1>17
  <2>2. V[n] # {} /\ \A x \in V[n] : less(x, key)
    BY <1>6, <1>13, <1>15
  <2>3. key \in V[c] /\ \A x \in V[c] : ~ less(x, key)
    BY <1>13, <1>15
  <2>4. ASSUME NEW p, NEW j, Child(M, p, j, n), NEW x \in V[c] PROVE x \in V[p] /\ Leads(M[p].keys, x, j)
    <3>1. Child(N, p, j, n) /\ p \in DOMAIN N /\ p # n
      BY <1>16, <1>17, <2>4
    <3>2. x \in W[n] /\ V[p] = W[p] /\ M[p] = N[p]
      BY <1>1, <1>15, <2>4, <3>1
    <3> QED  BY <3>1, <3>2 DEF Nest, Routed
  <2> QED  BY <1>1, <1>15, <2>1, <2>2, <2>3, <2>4, Zenon DEF Beside
<1> QED  BY <1>24, <1>25

-----------------------------------------------------------------------------
(* A new root over the old one and its new sibling                           *)

\* The heights and the scopes with a new root over the old one and c.
Taller(N, h, root, new) == [m \in DOMAIN N \union {new} |-> IF m = new THEN h[root] + 1 ELSE h[m]]
Wider(N, W, root, c, new) ==
    [m \in DOMAIN N \union {new} |-> IF m = new THEN W[root] \union W[c] ELSE W[m]]

\* An inner node over two.
Fork(key, a, b) == Inner(<<key>>, <<a, b>>)

\* The tree with these nodes and this root.
From(t, M, root) == [With(t, M) EXCEPT !.root = root]

LEMMA FromIs ==
    ASSUME NEW t, IsTree(t), NEW M, NEW root
    PROVE  /\ IsTree(From(t, M, root)) /\ From(t, M, root).nodes = M /\ From(t, M, root).root = root
           /\ From(t, M, root).leafHead = t.leafHead /\ From(t, M, root).members = t.members
           /\ From(t, M, root).length = t.length
<1>1. PICK s : s = With(t, M)
  OBVIOUS
<1>2. /\ IsTree(s) /\ s.nodes = M /\ s.leafHead = t.leafHead /\ s.members = t.members
      /\ s.length = t.length
  BY <1>1, WithIs
<1>3. From(t, M, root) = [s EXCEPT !.root = root]
  BY <1>1 DEF With, From
<1> QED  BY <1>2, <1>3 DEF IsTree

LEMMA GrowRootIs ==
    ASSUME NEW t, IsTree(t), Typed(t.nodes), NEW key, NEW c
    PROVE  \E new : /\ new \in Nat /\ new \notin DOMAIN t.nodes
                    /\ GrowRoot(Split(t, key, c))
                       = From(t, Put(t.nodes, new, Fork(key, t.root, c)), new)
<1>1. PICK new : new = Fresh(t)
  OBVIOUS
<1>2. new \in Nat /\ new \notin DOMAIN t.nodes
  <2>1. IsFiniteSet(DOMAIN t.nodes) /\ DOMAIN t.nodes \in SUBSET Nat
    BY DEF Typed
  <2> QED  BY <1>1, <2>1, FreshIs
<1>3. PICK node, M : node = Fork(key, t.root, c) /\ M = Put(t.nodes, new, node)
  OBVIOUS
<1>4. Allocate(t, new, node) = With(t, M)
  BY <1>3, AllocateIs
<1>5. GrowRoot(Split(t, key, c)) = [Allocate(t, new, node) EXCEPT !.root = new]
  BY <1>1, <1>3 DEF GrowRoot, Split, Fork
<1>6. [With(t, M) EXCEPT !.root = new] = From(t, M, new)
  BY DEF With, From, IsTree
<1> QED  BY <1>2, <1>3, <1>4, <1>5, <1>6

\* What is given when the root gets a sibling c and the two a new root over them.
Rising(N, root, h, W, c, key, new, M, H, V) ==
    /\ Nest(N, root, h, W, {c}) /\ Beside(N, h, W, root, key, c) /\ new \in Nat /\ new \notin DOMAIN N
    /\ M = Put(N, new, Fork(key, root, c))
    /\ H = Taller(N, h, root, new) /\ V = Wider(N, W, root, c, new)

\* What GrowRoot makes of the nodes.
Risen(N, root, h, W, c, key, new, M, H, V) ==
    /\ Nest(M, new, H, V, {}) /\ DOMAIN M = DOMAIN N \union {new}
    /\ \A m \in DOMAIN N : M[m] = N[m] /\ V[m] = W[m] /\ H[m] = h[m]
    /\ M[new] = Fork(key, root, c)

\* A new root over the old one and its sibling has them in its nest.
LEMMA GrowNest ==
    ASSUME NEW N, NEW root, NEW h, NEW W, NEW c, NEW key, NEW new, NEW M, NEW H, NEW V,
           Rising(N, root, h, W, c, key, new, M, H, V)
    PROVE  Risen(N, root, h, W, c, key, new, M, H, V)
<1>0. /\ Nest(N, root, h, W, {c}) /\ Beside(N, h, W, root, key, c) /\ new \in Nat /\ new \notin DOMAIN N
      /\ M = Put(N, new, Fork(key, root, c))
      /\ H = Taller(N, h, root, new) /\ V = Wider(N, W, root, c, new)
  BY DEF Rising
<1> USE <1>0
<1>1. PICK node : node = Fork(key, root, c)
  OBVIOUS
<1>2. /\ root \in DOMAIN N /\ c \in DOMAIN N /\ root # c /\ root \in Nat /\ c \in Nat
      /\ h[c] = h[root] /\ h[root] \in Nat
  BY DEF Nest, Rooted, Ranked, Beside, Typed
<1>3. /\ W[c] \subseteq AnyItem /\ W[root] \subseteq AnyItem /\ key \in W[c] /\ key \in AnyItem
      /\ \A x \in W[root] : less(x, key)
      /\ \A x \in W[c] : ~ less(x, key)
      /\ \A p, i : ~ Child(N, p, i, c)
  BY <1>2 DEF Nest, Routed, Beside
<1>4. /\ node \in AnyNode /\ ~ node.isLeaf /\ node.items = <<>> /\ node.keys = <<key>>
      /\ node.children = <<root, c>>
  <2>1. <<>> \in Seq(AnyItem) /\ NoNode \in Pointer /\ 0 \in Nat
    BY DEF Pointer
  <2>2. <<key>> \in Seq(AnyItem) /\ <<root, c>> \in Seq(Nat)
    BY <1>2, <1>3
  <2> QED  BY <1>1, <2>1, <2>2 DEF Inner, Fork, AnyNode
<1>5. /\ Typed(M) /\ DOMAIN M = DOMAIN N \union {new} /\ M[new] = node
      /\ \A m \in DOMAIN N : M[m] = N[m]
  <2>1. new \in Nat /\ node \in AnyNode /\ Typed(N)
    BY <1>4 DEF Nest
  <2>2. /\ Typed(Put(N, new, node)) /\ DOMAIN Put(N, new, node) = DOMAIN N \union {new}
        /\ Put(N, new, node)[new] = node
        /\ \A m \in DOMAIN N : m # new => Put(N, new, node)[m] = N[m]
    BY <2>1, TypedPut
  <2> QED  BY <1>1, <2>2
<1>6. /\ H[new] = h[root] + 1 /\ V[new] = W[root] \union W[c]
      /\ \A m \in DOMAIN N : V[m] = W[m] /\ H[m] = h[m]
  BY DEF Taller, Wider
<1>7. ASSUME NEW q, NEW j, NEW m, Child(M, q, j, m)
      PROVE  \/ q # new /\ Child(N, q, j, m) /\ m # c
             \/ q = new /\ j = 1 /\ m = root
             \/ q = new /\ j = 2 /\ m = c
  <2>1. CASE q # new
    BY <1>3, <1>5, <1>7, <2>1 DEF Child
  <2>2. CASE q = new
    <3>1. j \in 1 .. Len(<<root, c>>) /\ <<root, c>>[j] = m
      BY <1>4, <1>5, <1>7, <2>2 DEF Child
    <3>2. Len(<<root, c>>) = 2 /\ <<root, c>>[1] = root /\ <<root, c>>[2] = c
      OBVIOUS
    <3>3. \A k \in 1 .. 2 : k = 1 \/ k = 2
      BY SMT
    <3> QED  BY <2>2, <3>1, <3>2, <3>3
  <2> QED  BY <2>1, <2>2
<1>8. Child(M, new, 1, root) /\ Child(M, new, 2, c) /\ \A q, j, m : Child(N, q, j, m) => Child(M, q, j, m)
  <2>1. Len(<<root, c>>) = 2 /\ <<root, c>>[1] = root /\ <<root, c>>[2] = c /\ 1 \in 1 .. 2 /\ 2 \in 1 .. 2
    OBVIOUS
  <2>2. Child(M, new, 1, root) /\ Child(M, new, 2, c)
    BY <1>4, <1>5, <2>1 DEF Child
  <2>3. \A q, j, m : Child(N, q, j, m) => Child(M, q, j, m)
    BY <1>5 DEF Child
  <2> QED  BY <2>2, <2>3
<1>9. \A q, j : ~ Child(N, q, j, root)
  BY RootHasNoParent DEF Nest
<1>10. \A q, j, m : Child(N, q, j, m) => q \in DOMAIN N /\ m \in DOMAIN N /\ h[q] = h[m] + 1
  BY DEF Nest, Ranked, Child
<1>11. Ranked(M, H)
  <2>1. ASSUME NEW m \in DOMAIN M PROVE H[m] \in Nat /\ (M[m].isLeaf <=> H[m] = 0)
    <3>1. h[root] + 1 \in Nat /\ h[root] + 1 # 0
      BY <1>2, SMT
    <3>2. CASE m = new
      BY <1>4, <1>5, <1>6, <3>1, <3>2
    <3>3. CASE m \in DOMAIN N
      BY <1>5, <1>6, <3>3 DEF Nest, Ranked
    <3> QED  BY <1>5, <3>2, <3>3
  <2>2. ASSUME NEW q, NEW j, NEW m, Child(M, q, j, m) PROVE m \in DOMAIN M /\ H[q] = H[m] + 1
    BY <1>2, <1>5, <1>6, <1>7, <1>10, <2>2
  <2> QED  BY <2>1, <2>2, Zenon DEF Ranked
<1>12. OneParent(M)
  <2> SUFFICES ASSUME NEW p, NEW q, NEW j, NEW k, NEW m, Child(M, p, j, m), Child(M, q, k, m)
               PROVE  p = q /\ j = k
    BY Zenon DEF OneParent
  <2>1. \A a, b, d, e, v : Child(N, a, d, v) /\ Child(N, b, e, v) => a = b /\ d = e
    BY DEF Nest, OneParent
  <2>2. CASE m = root
    BY <1>2, <1>7, <1>9, <2>2
  <2>3. CASE m = c
    BY <1>2, <1>7, <2>3
  <2>4. CASE m # root /\ m # c
    BY <1>7, <2>1, <2>4
  <2> QED  BY <2>2, <2>3, <2>4
<1>13. Rooted(M, new, H, {})
  <2>1. ASSUME NEW m \in DOMAIN M PROVE H[m] <= H[new]
    <3>1. CASE m = new
      <4>1. h[root] + 1 <= h[root] + 1
        BY <1>2, SMT
      <4> QED  BY <1>6, <3>1, <4>1
    <3>2. CASE m \in DOMAIN N
      <4>1. h[m] <= h[root] /\ h[m] \in Nat
        BY <3>2 DEF Nest, Rooted, Ranked
      <4>2. h[m] <= h[root] + 1
        BY <1>2, <4>1, SMT
      <4> QED  BY <1>6, <3>2, <4>2
    <3> QED  BY <1>5, <3>1, <3>2
  <2>2. ASSUME NEW m \in DOMAIN M, m # new PROVE \E p, j : Child(M, p, j, m)
    <3>1. CASE m = root \/ m = c
      BY <1>8, <3>1
    <3>2. CASE m # root /\ m # c
      <4>1. \E p, j : Child(N, p, j, m)
        BY <1>5, <2>2, <3>2 DEF Nest, Rooted
      <4> QED  BY <1>8, <4>1
    <3> QED  BY <3>1, <3>2
  <2> QED  BY <1>5, <2>1, <2>2 DEF Rooted
<1>14. Leads(<<key>>, key, 2) /\ (\A x \in W[root] : Leads(<<key>>, x, 1)) /\ \A x \in W[c] : Leads(<<key>>, x, 2)
  <2>1. Len(<<key>>) = 1 /\ <<key>>[1] = key
    OBVIOUS
  <2>2. 1 \in 1 .. 1 + 1 /\ 2 \in 1 .. 1 + 1 /\ (\A j \in 1 .. 1 - 1 : FALSE) /\ (\A j \in 1 .. 2 - 1 : j = 1) /\ ~ (2 <= 1)
    BY SMT
  <2> QED  BY <1>3, <2>1, <2>2 DEF Leads
<1>15. Routed(M, V)
  <2>1. ASSUME NEW m \in DOMAIN M
        PROVE  V[m] \in SUBSET AnyItem /\ Nodes(M[m].items) \subseteq V[m] /\ Nodes(M[m].keys) \subseteq V[m]
    <3>1. CASE m = new
      <4>1. Nodes(<<>>) = {} /\ Nodes(<<key>>) = {key}
        <5>1. Len(<<key>>) = 1 /\ <<key>>[1] = key /\ Len(<<>>) = 0
          OBVIOUS
        <5>2. (\A j \in 1 .. 1 : j = 1) /\ 1 \in 1 .. 1 /\ \A j \in 1 .. 0 : FALSE
          BY SMT
        <5> QED  BY <5>1, <5>2 DEF Nodes
      <4> QED  BY <1>3, <1>4, <1>5, <1>6, <3>1, <4>1
    <3>2. CASE m \in DOMAIN N
      BY <1>5, <1>6, <3>2 DEF Nest, Routed
    <3> QED  BY <1>5, <3>1, <3>2
  <2>2. ASSUME NEW p, NEW j, NEW m, Child(M, p, j, m), NEW x \in V[m]
        PROVE  x \in V[p] /\ Leads(M[p].keys, x, j)
    <3>1. CASE p # new /\ Child(N, p, j, m)
      <4>1. p \in DOMAIN N /\ m \in DOMAIN N
        BY <1>10, <3>1
      <4>2. x \in W[p] /\ Leads(N[p].keys, x, j)
        BY <1>6, <2>2, <3>1, <4>1 DEF Nest, Routed
      <4> QED  BY <1>5, <1>6, <4>1, <4>2
    <3>2. CASE p = new /\ j = 1 /\ m = root
      BY <1>2, <1>4, <1>5, <1>6, <1>14, <2>2, <3>2
    <3>3. CASE p = new /\ j = 2 /\ m = c
      BY <1>2, <1>4, <1>5, <1>6, <1>14, <2>2, <3>3
    <3> QED  BY <1>7, <2>2, <3>1, <3>2, <3>3
  <2> QED  BY <2>1, <2>2, Zenon DEF Routed
<1>16. Shaped(M)
  <2> SUFFICES ASSUME NEW m \in DOMAIN M
               PROVE  /\ Sorted(M[m].items) /\ Sorted(M[m].keys)
                      /\ IF M[m].isLeaf THEN M[m].keys = <<>> /\ M[m].children = <<>>
                         ELSE M[m].items = <<>>
                      /\ M[m].children # <<>> => Len(M[m].children) = Len(M[m].keys) + 1
    BY DEF Shaped
  <2>1. CASE m = new
    <3>1. Sorted(<<>>)
      BY DEF Sorted
    <3>2. Sorted(<<key>>)
      <4>1. Len(<<key>>) = 1 /\ <<key>> \in Seq(AnyItem)
        BY <1>3
      <4>2. \A i, j \in 1 .. 1 : ~ (i < j)
        BY SMT
      <4> QED  BY <4>1, <4>2 DEF Sorted
    <3>3. Len(<<root, c>>) = Len(<<key>>) + 1
      OBVIOUS
    <3> QED  BY <1>4, <1>5, <2>1, <3>1, <3>2, <3>3
  <2>2. CASE m \in DOMAIN N
    <3>1. M[m] = N[m]
      BY <1>5, <2>2
    <3> QED  BY <2>2, <3>1 DEF Nest, Shaped
  <2> QED  BY <1>5, <2>1, <2>2
<1>17. new \in DOMAIN M
  BY <1>5
<1>18. Nest(M, new, H, V, {})
  BY <1>5, <1>6, <1>11, <1>12, <1>13, <1>15, <1>16 DEF Nest
<1>19. /\ DOMAIN M = DOMAIN N \union {new}
       /\ \A m \in DOMAIN N : M[m] = N[m] /\ V[m] = W[m] /\ H[m] = h[m]
       /\ M[new] = Fork(key, root, c)
  BY <1>1, <1>5, <1>6
<1> QED  BY <1>18, <1>19, Zenon DEF Risen

-----------------------------------------------------------------------------
(* Insertion: from a node down, and back up                                  *)

LEMMA RefillIs ==
    ASSUME NEW t, IsTree(t), Typed(t.nodes), NEW n \in DOMAIN t.nodes, NEW items,
           NEW s, s = [t EXCEPT !.nodes[n].items = items]
    PROVE  s = With(t, Put(t.nodes, n, [t.nodes[n] EXCEPT !.items = items]))
<1>1. PICK N : N = t.nodes
  OBVIOUS
<1>2. n \in DOMAIN N /\ N = [x \in DOMAIN N |-> N[x]]
  BY <1>1 DEF Typed
<1>3. PICK node : node = [N[n] EXCEPT !.items = items]
  OBVIOUS
<1>4. s = With(t, [N EXCEPT ![n] = node])
  BY <1>1, <1>3 DEF With
<1>5. [N EXCEPT ![n] = node] = Put(N, n, node)
  BY <1>2, EditNode
<1> QED  BY <1>1, <1>3, <1>4, <1>5

LEMMA LeafSplitParts ==
    ASSUME NEW N, NEW n, Sorted(N[n].items), Len(N[n].items) >= 2,
           NEW M, NEW c, NEW key, LeafSplit(N, M, n, c, key)
    PROVE  /\ Len(M[n].items) \in Nat \ {0} /\ Len(M[c].items) \in Nat \ {0}
           /\ Len(M[n].items) + Len(M[c].items) = Len(N[n].items)
           /\ \A y : y \in Nodes(N[n].items) <=> y \in Nodes(M[n].items) \/ y \in Nodes(M[c].items)
<1>1. PICK items, half : items = N[n].items /\ half = Len(items) \div 2
  OBVIOUS
<1>2. PICK k \in Nat : k = Len(items) /\ k >= 2
  BY <1>1, ListParts
<1>3. half \in Nat /\ half >= 1 /\ half + 1 <= k
  <2>1. half \in Nat /\ 2 * half <= k /\ k <= 2 * half + 1
    BY <1>1, <1>2, HalfIs
  <2> QED  BY <1>2, <2>1, SMT
<1>4. PICK one, next, a, b : one = 1 /\ next = half + 1 /\ a = M[n].items /\ b = M[c].items
  OBVIOUS
<1>s. Sorted(items)
  BY <1>1
<1>5. a = Part(items, one, half) /\ b = Part(items, next, k)
  BY <1>1, <1>2, <1>4 DEF LeafSplit, Part
<1>6. /\ Sorted(items) /\ one \in Nat \ {0} /\ half \in Nat /\ half <= Len(items) /\ one <= half + 1
      /\ a = Part(items, one, half)
  <2>1. one \in Nat \ {0} /\ half <= k /\ one <= half + 1
    BY <1>3, <1>4, SMT
  <2> QED  BY <1>s, <1>2, <1>3, <1>5, <2>1
<1>7. Len(a) = half - one + 1 /\ Nodes(a) = {items[i] : i \in one .. half}
  <2>1. Taken(items, one, half, a)
    BY <1>6 DEF Taken
  <2> QED  BY <2>1, PartOf
<1>8. /\ Sorted(items) /\ next \in Nat \ {0} /\ k \in Nat /\ k <= Len(items) /\ next <= k + 1
      /\ b = Part(items, next, k)
  <2>1. next \in Nat \ {0} /\ k <= k /\ next <= k + 1
    BY <1>3, <1>4, SMT
  <2> QED  BY <1>s, <1>2, <1>5, <2>1
<1>9. Len(b) = k - next + 1 /\ Nodes(b) = {items[i] : i \in next .. k}
  <2>1. Taken(items, next, k, b)
    BY <1>8 DEF Taken
  <2> QED  BY <2>1, PartOf
<1>10. /\ half - one + 1 = half /\ k - next + 1 = k - half /\ half \in Nat \ {0} /\ k - half \in Nat \ {0}
       /\ half + (k - half) = k
  BY <1>2, <1>3, <1>4, SMT
<1>11. \A i : i \in 1 .. k <=> i \in one .. half \/ i \in next .. k
  BY <1>2, <1>3, <1>4, SMT
<1>12. ASSUME NEW y PROVE y \in Nodes(items) <=> y \in Nodes(a) \/ y \in Nodes(b)
  <2>1. y \in Nodes(items) <=> \E i \in 1 .. k : y = items[i]
    BY <1>2 DEF Nodes
  <2> QED  BY <1>7, <1>9, <1>11, <2>1
<1> QED  BY <1>1, <1>2, <1>4, <1>7, <1>9, <1>10, <1>12

\* Item y is in a leaf.
Holds(N, y) == \E m \in DOMAIN N : y \in Nodes(N[m].items)

\* No node is over its size, no inner node empty, and only leaves are chained.
Sized(N) ==
    \A m \in DOMAIN N :
        IF N[m].isLeaf THEN Len(N[m].items) < Order
        ELSE N[m].children # <<>> /\ Len(N[m].children) <= Order /\ N[m].next = NoNode

\* No leaf but one of these is empty.
Filled(N, empty) == \A m \in DOMAIN N : N[m].isLeaf /\ m \notin empty => N[m].items # <<>>

\* Nodes that make a tree, but for the orphans, with the leaves L.
Tree(N, root, head, h, W, L, orphans) ==
    Nest(N, root, h, W, orphans) /\ Chained(N, head, L) /\ InOrder(W, L) /\ Sized(N)

\* One step of the recursion of insertInternal: below is what it returned for the child.
InsertStep(t, item, n, below) ==
    LET node == t.nodes[n] IN
    IF node.isLeaf
    THEN LET s == [t EXCEPT !.nodes[n].items = Seqs!InsertAt(@, Place(@, item), item)]
         IN IF Len(s.nodes[n].items) >= Order THEN SplitLeaf(s, n) ELSE Unsplit(s)
    ELSE LET i == Branch(node.keys, item)
             s == Attach(below.tree, n, i, below.promoted, below.child)
         IN IF ~ below.split THEN below
            ELSE IF Len(s.nodes[n].children) > Order THEN SplitInner(s, n)
            ELSE Unsplit(s)

\* What the insertion of x at node n makes of a tree: the nodes above n are as they
\* were, x is in a leaf, and if n was split the new node hangs from nothing yet.
Larger(t, h, W, x, n, M, H, V) ==
    /\ \A m \in DOMAIN t.nodes :
          m \in DOMAIN M /\ H[m] = h[m] /\ (h[m] > h[n] => M[m] = t.nodes[m] /\ V[m] = W[m])
    /\ Filled(M, {}) /\ \A y : Holds(M, y) <=> Holds(t.nodes, y) \/ y = x

\* An insertion that splits no node; one that splits n, with c beside it; either.
StillOne(t, r, M, H, V, K) ==
    r = Unsplit(With(t, M)) /\ Tree(M, t.root, t.leafHead, H, V, K, {})

NowTwo(t, n, r, M, H, V, K, key, c) ==
    /\ r = Split(With(t, M), key, c) /\ Beside(M, H, V, n, key, c)
    /\ Tree(M, t.root, t.leafHead, H, V, K, {c})

Grown(t, h, W, x, n, r) ==
    \E M, H, V, K :
        /\ Larger(t, h, W, x, n, M, H, V)
        /\ StillOne(t, r, M, H, V, K) \/ \E key, c : NowTwo(t, n, r, M, H, V, K, key, c)

LEMMA LeafOnly ==
    ASSUME NEW N, Typed(N), NEW head, NEW L, Chained(N, head, L), NEW n \in Leafs(N)
    PROVE  N[n].next \in DOMAIN N \union {NoNode} /\ N[n].next # n
<1>1. PICK l \in Nat : l = Len(L)
  BY ChainParts
<1>2. PICK i \in 1 .. l : L[i] = n
  BY <1>1, ChainParts
<1>3. N[n].next = IF i = l THEN NoNode ELSE L[i + 1]
  BY <1>1, <1>2 DEF Chained
<1>4. i # l => i + 1 \in 1 .. l /\ i + 1 # i
  BY <1>1, SMT
<1>5. \A j \in 1 .. l : L[j] \in DOMAIN N
  BY <1>1, ChainParts
<1>6. \A j \in 1 .. l : j # i => L[j] # n
  BY <1>1, <1>2 DEF Chained
<1>7. CASE i = l
  <2>1. n \in DOMAIN N
    BY <1>2, <1>5
  <2>2. n # NoNode
    BY <2>1, BPlusTreeAssumption DEF Typed
  <2> QED  BY <1>3, <1>7, <2>2
<1> QED  BY <1>3, <1>4, <1>5, <1>6, <1>7

\* The insertion of an item that is in no leaf yet into the leaf a search for it ends at.
LEMMA InsertLeaf ==
    ASSUME NEW t, IsTree(t), NEW h, NEW W, NEW L, Tree(t.nodes, t.root, t.leafHead, h, W, L, {}),
           NEW n \in DOMAIN t.nodes, t.nodes[n].isLeaf, Filled(t.nodes, {n}),
           NEW x \in W[n], ~ Holds(t.nodes, x), NEW below
    PROVE  Grown(t, h, W, x, n, InsertStep(t, x, n, below))
<1>1. PICK N, root, head : N = t.nodes /\ root = t.root /\ head = t.leafHead
  OBVIOUS
<1>2. /\ Nest(N, root, h, W, {}) /\ Chained(N, head, L) /\ InOrder(W, L) /\ Sized(N) /\ Typed(N)
      /\ n \in DOMAIN N /\ N[n].isLeaf /\ Filled(N, {n}) /\ ~ Holds(N, x)
  BY <1>1 DEF Tree, Nest
<1>i. PICK items : items = N[n].items
  OBVIOUS
<1>3. PICK l \in Nat : items = N[n].items /\ l = Len(items)
  BY <1>2, <1>i, NodeParts
<1>4. /\ Sorted(items) /\ items \in Seq(AnyItem) /\ Nodes(items) \subseteq W[n] /\ x \in AnyItem
      /\ l < Order
  <2>1. W[n] \subseteq AnyItem
    BY <1>2 DEF Nest, Routed
  <2> QED  BY <1>2, <1>3, <2>1 DEF Nest, Shaped, Routed, Sorted, Sized
<1>5. PICK p : Before(items, x, p)
  BY <1>4, CutIs
<1>6. \A i \in 1 .. l : items[i] # x
  BY <1>2, <1>3 DEF Holds, Nodes
<1>7. PICK new : new = Inserted(items, x, p)
  OBVIOUS
<1>8. Sorted(new) /\ Len(new) = l + 1 /\ Nodes(new) = Nodes(items) \union {x}
  <2>1. Sorted(items) /\ x \in AnyItem /\ (\A i \in 1 .. Len(items) : items[i] # x) /\ Before(items, x, p)
    BY <1>3, <1>4, <1>5, <1>6
  <2>2. /\ Sorted(Inserted(items, x, p)) /\ Len(Inserted(items, x, p)) = Len(items) + 1
        /\ Nodes(Inserted(items, x, p)) = Nodes(items) \union {x}
    BY <2>1, InsertedSorted
  <2> QED  BY <1>3, <1>7, <2>2
<1>9. PICK s : s = [t EXCEPT !.nodes[n].items = Seqs!InsertAt(@, Place(@, x), x)]
  OBVIOUS
<1>10. PICK A : A = Put(N, n, [N[n] EXCEPT !.items = new])
  OBVIOUS
<1>11. s = With(t, A)
  <2>1. Place(items, x) = p + 1
    BY <1>4, <1>5, PlaceIs
  <2>2. Seqs!InsertAt(items, p + 1, x) = new
    <3>1. p \in 0 .. Len(items)
      BY <1>5 DEF Before
    <3> QED  BY <1>4, <1>7, <3>1, InsertAtIs
  <2>3. s = [t EXCEPT !.nodes[n].items = new]
    BY <1>1, <1>3, <1>9, <2>1, <2>2
  <2>4. s = With(t, Put(t.nodes, n, [t.nodes[n] EXCEPT !.items = new]))
    <3>1. Typed(t.nodes)
      BY <1>1, <1>2
    <3> QED  BY <2>3, <3>1, RefillIs
  <2> QED  BY <1>1, <1>10, <2>4
<1>12. IsTree(s) /\ s.nodes = A /\ s.root = root /\ s.leafHead = head
  BY <1>1, <1>11, WithIs
<1>13. Nest(A, root, h, W, {}) /\ Chained(A, head, L)
  <2>1. Nodes(new) \subseteq W[n]
    BY <1>4, <1>8
  <2> QED  BY <1>2, <1>8, <1>10, <2>1, Refill
<1>14. /\ DOMAIN A = DOMAIN N /\ A[n].items = new /\ A[n].isLeaf /\ n \in DOMAIN A
       /\ \A m \in DOMAIN N : m # n => A[m] = N[m]
  <2>1. N[n] \in AnyNode
    BY <1>2 DEF Typed
  <2>2. [N[n] EXCEPT !.items = new].items = new /\ [N[n] EXCEPT !.items = new].isLeaf = N[n].isLeaf
    BY <2>1 DEF AnyNode
  <2> QED  BY <1>2, <1>10, <2>2 DEF Put
<1>15. \A y : Holds(A, y) <=> Holds(N, y) \/ y = x
  <2> SUFFICES ASSUME NEW y PROVE Holds(A, y) <=> Holds(N, y) \/ y = x
    OBVIOUS
  <2>1. y \in Nodes(new) <=> y \in Nodes(items) \/ y = x
    BY <1>8
  <2>2. ASSUME Holds(A, y) PROVE Holds(N, y) \/ y = x
    <3>1. PICK m \in DOMAIN N : y \in Nodes(A[m].items)
      BY <1>14, <2>2 DEF Holds
    <3> QED  BY <1>2, <1>3, <1>14, <2>1, <3>1 DEF Holds
  <2>3. ASSUME Holds(N, y) PROVE Holds(A, y)
    <3>1. PICK m \in DOMAIN N : y \in Nodes(N[m].items)
      BY <2>3 DEF Holds
    <3> QED  BY <1>3, <1>14, <2>1, <3>1 DEF Holds
  <2>4. ASSUME y = x PROVE Holds(A, y)
    BY <1>14, <2>1, <2>4 DEF Holds
  <2> QED  BY <2>2, <2>3, <2>4
<1>16. InsertStep(t, x, n, below) = IF l + 1 >= Order THEN SplitLeaf(s, n) ELSE Unsplit(s)
  BY <1>1, <1>2, <1>8, <1>9, <1>12, <1>14 DEF InsertStep
<1>17. CASE ~ (l + 1 >= Order)
  <2>1. InsertStep(t, x, n, below) = Unsplit(With(t, A))
    BY <1>11, <1>16, <1>17
  <2>2. l + 1 < Order /\ new # <<>>
    <3>1. l + 1 # 0
      BY SMT
    <3>2. l + 1 < Order
      BY <1>17, BPlusTreeAssumption, SMT
    <3> QED  BY <1>8, <3>1, <3>2
  <2>3. Sized(A)
    <3> SUFFICES ASSUME NEW m \in DOMAIN A
                 PROVE  IF A[m].isLeaf THEN Len(A[m].items) < Order
                        ELSE A[m].children # <<>> /\ Len(A[m].children) <= Order /\ A[m].next = NoNode
      BY DEF Sized
    <3>1. CASE m = n
      BY <1>8, <1>14, <2>2, <3>1
    <3>2. CASE m # n
      <4>1. A[m] = N[m] /\ m \in DOMAIN N
        BY <1>14, <3>2
      <4> QED  BY <1>2, <4>1 DEF Sized
    <3> QED  BY <3>1, <3>2
  <2>4. Filled(A, {})
    BY <1>2, <1>14, <2>2 DEF Filled
  <2>5. \A m \in DOMAIN t.nodes :
           m \in DOMAIN A /\ h[m] = h[m] /\ (h[m] > h[n] => A[m] = t.nodes[m] /\ W[m] = W[m])
    <3> SUFFICES ASSUME NEW m \in DOMAIN N, h[m] > h[n] PROVE A[m] = N[m]
      BY <1>1, <1>14
    <3>1. m # n
      <4>1. h[n] \in Nat
        BY <1>2 DEF Nest, Ranked
      <4>2. ~ (h[n] > h[n])
        BY <4>1, SMT
      <4> QED  BY <4>2
    <3> QED  BY <1>14, <3>1
  <2>6. Tree(A, t.root, t.leafHead, h, W, L, {})
    BY <1>1, <1>2, <1>13, <2>3 DEF Tree
  <2>7. \A y : Holds(A, y) <=> Holds(t.nodes, y) \/ y = x
    BY <1>1, <1>15
  <2>8. Larger(t, h, W, x, n, A, h, W)
    BY <2>4, <2>5, <2>7 DEF Larger
  <2>9. StillOne(t, InsertStep(t, x, n, below), A, h, W, L)
    BY <2>1, <2>6 DEF StillOne
  <2> QED  BY <2>8, <2>9 DEF Grown
<1>18. CASE l + 1 >= Order
  <2>1. PICK M, c, key : /\ SplitLeaf(s, n) = Split(With(s, M), key, c)
                         /\ LeafSplit(s.nodes, M, n, c, key)
    <3>1. A[n].next \in DOMAIN A \union {NoNode} /\ A[n].next # n
      <4>1. n \in Leafs(A)
        BY <1>14 DEF Leafs
      <4> QED  BY <1>13, <4>1, LeafOnly DEF Nest
    <3>2. /\ IsTree(s) /\ Typed(s.nodes) /\ n \in DOMAIN s.nodes /\ s.nodes[n].isLeaf
          /\ s.nodes[n].next \in DOMAIN s.nodes \union {NoNode} /\ s.nodes[n].next # n
      BY <1>12, <1>13, <1>14, <3>1 DEF Nest
    <3> QED  BY <3>2, SplitLeafIs
  <2>2. LeafSplit(A, M, n, c, key) /\ InsertStep(t, x, n, below) = Split(With(t, M), key, c)
    <3>1. With(s, M) = With(t, M)
      BY <1>11, WithTwice
    <3> QED  BY <1>12, <1>16, <1>18, <2>1, <3>1
  <2>3. Len(A[n].items) = l + 1 /\ l + 1 >= 2 /\ Len(A[n].items) >= 2
    <3>1. l + 1 >= 2
      BY <1>18, BPlusTreeAssumption, SMT
    <3> QED  BY <1>8, <1>14, <3>1
  <2>4. PICK H, V : H = Higher(A, h, n, c) /\ V = Parted(A, W, n, c, key)
    OBVIOUS
  <2>5. Nest(M, root, H, V, {c}) /\ Beside(M, H, V, n, key, c)
    BY <1>13, <1>14, <2>2, <2>3, <2>4, LeafSplitNest
  <2>6. key \in AnyItem
    <3>1. c \in DOMAIN M /\ key \in V[c]
      BY <2>5 DEF Beside
    <3> QED  BY <2>5, <3>1 DEF Nest, Routed
  <2>7. PICK K : Chained(M, head, K) /\ InOrder(V, K)
    <3>1. n \in Leafs(A) /\ Typed(A)
      BY <1>13, <1>14 DEF Leafs, Nest
    <3>2. \A m \in DOMAIN A : W[m] \in SUBSET AnyItem
      BY <1>13 DEF Nest, Routed
    <3>3. /\ Typed(A) /\ Chained(A, head, L) /\ InOrder(W, L) /\ n \in Leafs(A) /\ key \in AnyItem
          /\ LeafSplit(A, M, n, c, key) /\ V = Parted(A, W, n, c, key)
      BY <1>2, <1>13, <2>2, <2>4, <2>6, <3>1
    <3> QED  BY <3>2, <3>3, LeafSplitChain
  <2>8. /\ DOMAIN M = DOMAIN A \union {c} /\ c \notin DOMAIN A /\ M[c].isLeaf
        /\ \A m \in DOMAIN A : /\ M[m].isLeaf = A[m].isLeaf /\ M[m].children = A[m].children
                               /\ m # n => M[m].items = A[m].items /\ M[m].next = A[m].next
                               /\ m # n /\ m # A[n].next => M[m] = A[m]
    BY <2>2 DEF LeafSplit
  <2>9. PICK a, b : a = M[n].items /\ b = M[c].items
    OBVIOUS
  <2>10. /\ Len(a) \in Nat \ {0} /\ Len(b) \in Nat \ {0} /\ Len(a) + Len(b) = l + 1
         /\ \A y : y \in Nodes(new) <=> y \in Nodes(a) \/ y \in Nodes(b)
    <3>1. Sorted(A[n].items)
      BY <1>8, <1>14
    <3>2. /\ Len(M[n].items) \in Nat \ {0} /\ Len(M[c].items) \in Nat \ {0}
          /\ Len(M[n].items) + Len(M[c].items) = Len(A[n].items)
          /\ \A y : y \in Nodes(A[n].items) <=> y \in Nodes(M[n].items) \/ y \in Nodes(M[c].items)
      BY <2>2, <2>3, <3>1, LeafSplitParts
    <3> QED  BY <1>14, <2>3, <2>9, <3>2
  <2>11. Len(a) < Order /\ Len(b) < Order /\ a # <<>> /\ b # <<>>
    <3>1. PICK i, j \in Nat : i = Len(a) /\ j = Len(b) /\ i # 0 /\ j # 0 /\ i + j = l + 1
      BY <2>10
    <3>2. i < Order /\ j < Order
      BY <1>4, <3>1, BPlusTreeAssumption, SMT
    <3> QED  BY <3>1, <3>2
  <2>12. Sized(M)
    <3> SUFFICES ASSUME NEW m \in DOMAIN M
                 PROVE  IF M[m].isLeaf THEN Len(M[m].items) < Order
                        ELSE M[m].children # <<>> /\ Len(M[m].children) <= Order /\ M[m].next = NoNode
      BY DEF Sized
    <3>1. CASE m = c
      BY <2>8, <2>9, <2>11, <3>1
    <3>2. CASE m = n
      BY <1>14, <2>8, <2>9, <2>11, <3>2
    <3>3. CASE m # c /\ m # n
      <4>1. m \in DOMAIN A /\ A[m] = N[m] /\ m \in DOMAIN N
        BY <1>14, <2>8, <3>3
      <4>2. /\ M[m].isLeaf = N[m].isLeaf /\ M[m].children = N[m].children
            /\ M[m].items = N[m].items /\ M[m].next = N[m].next
        BY <2>8, <3>3, <4>1
      <4> QED  BY <1>2, <4>1, <4>2 DEF Sized
    <3> QED  BY <3>1, <3>2, <3>3
  <2>13. Filled(M, {})
    <3> SUFFICES ASSUME NEW m \in DOMAIN M, M[m].isLeaf PROVE M[m].items # <<>>
      BY DEF Filled
    <3>1. CASE m = c \/ m = n
      BY <2>9, <2>11, <3>1
    <3>2. CASE m # c /\ m # n
      <4>1. m \in DOMAIN A /\ A[m] = N[m] /\ m \in DOMAIN N
        BY <1>14, <2>8, <3>2
      <4>2. M[m].isLeaf = N[m].isLeaf /\ M[m].items = N[m].items
        BY <2>8, <3>2, <4>1
      <4> QED  BY <1>2, <3>2, <4>1, <4>2 DEF Filled
    <3> QED  BY <3>1, <3>2
  <2>14. \A y : Holds(M, y) <=> Holds(t.nodes, y) \/ y = x
    <3> SUFFICES ASSUME NEW y PROVE Holds(M, y) <=> Holds(A, y)
      BY <1>1, <1>15
    <3>1. ASSUME Holds(M, y) PROVE Holds(A, y)
      <4>1. PICK m \in DOMAIN M : y \in Nodes(M[m].items)
        BY <3>1 DEF Holds
      <4>2. CASE m = c \/ m = n
        BY <1>14, <2>9, <2>10, <4>1, <4>2 DEF Holds
      <4>3. CASE m # c /\ m # n
        BY <2>8, <4>1, <4>3 DEF Holds
      <4> QED  BY <4>2, <4>3
    <3>2. ASSUME Holds(A, y) PROVE Holds(M, y)
      <4>1. PICK m \in DOMAIN A : y \in Nodes(A[m].items)
        BY <3>2 DEF Holds
      <4>2. CASE m = n
        BY <1>14, <2>8, <2>9, <2>10, <4>1, <4>2 DEF Holds
      <4>3. CASE m # n
        BY <2>8, <4>1, <4>3 DEF Holds
      <4> QED  BY <4>2, <4>3
    <3> QED  BY <3>1, <3>2
  <2>15. \A m \in DOMAIN t.nodes :
           m \in DOMAIN M /\ H[m] = h[m] /\ (h[m] > h[n] => M[m] = t.nodes[m] /\ V[m] = W[m])
    <3> SUFFICES ASSUME NEW m \in DOMAIN N
                 PROVE  m \in DOMAIN M /\ H[m] = h[m] /\ (h[m] > h[n] => M[m] = N[m] /\ V[m] = W[m])
      BY <1>1
    <3>1. m \in DOMAIN A /\ m # c /\ m \in DOMAIN M
      BY <1>14, <2>8
    <3>2. H[m] = h[m]
      BY <2>4, <3>1 DEF Higher
    <3>3. ASSUME h[m] > h[n] PROVE M[m] = N[m] /\ V[m] = W[m]
      <4>1. ~ A[m].isLeaf
        <5>1. h[n] = 0 /\ h[m] \in Nat /\ (A[m].isLeaf => h[m] = 0)
          BY <1>13, <1>14, <3>1 DEF Nest, Ranked
        <5>2. h[m] # 0
          BY <3>3, <5>1, SMT
        <5> QED  BY <5>1, <5>2
      <4>2. m # n /\ m # A[n].next
        <5>1. A[n].next = NoNode \/ A[n].next \in Leafs(A)
          <6>1. n \in Leafs(A)
            BY <1>14 DEF Leafs
          <6>2. PICK i \in 1 .. Len(L) : L[i] = n
            BY <1>13, <6>1, ChainParts
          <6>3. A[n].next = IF i = Len(L) THEN NoNode ELSE L[i + 1]
            BY <1>13, <6>2 DEF Chained
          <6>4. Len(L) \in Nat /\ \A j \in 1 .. Len(L) : L[j] \in Leafs(A)
            BY <1>13, ChainParts
          <6>5. i # Len(L) => i + 1 \in 1 .. Len(L)
            BY <6>4, SMT
          <6> QED  BY <6>3, <6>4, <6>5
        <5>2. m # NoNode
          BY <1>2, BPlusTreeAssumption DEF Typed
        <5> QED  BY <1>14, <4>1, <5>1, <5>2 DEF Leafs
      <4>3. M[m] = A[m] /\ A[m] = N[m]
        BY <1>14, <2>8, <3>1, <4>2
      <4>4. V[m] = W[m]
        BY <2>4, <3>1, <4>2 DEF Parted
      <4> QED  BY <4>3, <4>4
    <3> QED  BY <3>1, <3>2, <3>3
  <2>16. Tree(M, t.root, t.leafHead, H, V, K, {c})
    BY <1>1, <2>5, <2>7, <2>12 DEF Tree
  <2>17. Larger(t, h, W, x, n, M, H, V)
    BY <2>13, <2>14, <2>15 DEF Larger
  <2>18. NowTwo(t, n, InsertStep(t, x, n, below), M, H, V, K, key, c)
    BY <2>2, <2>5, <2>16 DEF NowTwo
  <2> QED  BY <2>17, <2>18 DEF Grown
<1> QED  BY <1>17, <1>18

\* The order of the leaves depends on their scopes only.
LEMMA InOrderOn ==
    ASSUME NEW W, NEW V, NEW L, InOrder(W, L), \A i \in 1 .. Len(L) : V[L[i]] = W[L[i]]
    PROVE  InOrder(V, L)
  BY DEF InOrder

\* The insertion at an inner node, given what it made of the child.
LEMMA InsertInner ==
    ASSUME NEW t, IsTree(t), NEW h, NEW W, NEW L, Tree(t.nodes, t.root, t.leafHead, h, W, L, {}),
           NEW n \in DOMAIN t.nodes, ~ t.nodes[n].isLeaf, NEW x \in AnyItem, NEW below,
           Grown(t, h, W, x, Toward(t.nodes, x, n), below)
    PROVE  Grown(t, h, W, x, n, InsertStep(t, x, n, below))
<1>1. PICK N, root, head, child : /\ N = t.nodes /\ root = t.root /\ head = t.leafHead
                                  /\ child = Toward(N, x, n)
  OBVIOUS
<1>2. /\ Nest(N, root, h, W, {}) /\ Chained(N, head, L) /\ InOrder(W, L) /\ Sized(N) /\ Typed(N)
      /\ n \in DOMAIN N /\ ~ N[n].isLeaf
  BY <1>1 DEF Tree, Nest
<1>3. PICK i : i = Branch(N[n].keys, x)
  OBVIOUS
<1>4. /\ Child(N, n, i, child) /\ child \in DOMAIN N /\ h[n] = h[child] + 1
      /\ N[n].children # <<>> /\ Len(N[n].children) <= Order /\ N[n].next = NoNode
  <2>1. N[n].children # <<>> /\ Len(N[n].children) <= Order /\ N[n].next = NoNode
    BY <1>2 DEF Sized
  <2>2. x \in AnyItem
    OBVIOUS
  <2>3. /\ Child(N, n, Branch(N[n].keys, x), Toward(N, x, n))
        /\ Toward(N, x, n) \in DOMAIN N /\ h[n] = h[Toward(N, x, n)] + 1
    BY <1>2, <2>1, <2>2, TowardChild
  <2> QED  BY <1>1, <1>3, <2>1, <2>3
<1>5. /\ \A m \in DOMAIN N : h[m] \in Nat
      /\ h[n] > h[child] /\ \A m \in DOMAIN N : h[m] > h[n] => h[m] > h[child] /\ m # n
  <2>1. \A m \in DOMAIN N : h[m] \in Nat
    BY <1>2 DEF Nest, Ranked
  <2>2. PICK k \in Nat : k = h[child] /\ h[n] = k + 1
    BY <1>4, <2>1
  <2>3. k + 1 > k /\ \A a \in Nat : a > k + 1 => a > k /\ a # k + 1
    BY SMT
  <2> QED  BY <2>1, <2>2, <2>3
<1>6. PICK M, H, V, K :
        /\ \A m \in DOMAIN N :
              m \in DOMAIN M /\ H[m] = h[m] /\ (h[m] > h[child] => M[m] = N[m] /\ V[m] = W[m])
        /\ Filled(M, {}) /\ \A y : Holds(M, y) <=> Holds(N, y) \/ y = x
        /\ \/ /\ below = Unsplit(With(t, M)) /\ Tree(M, root, head, H, V, K, {})
           \/ \E key, c : /\ below = Split(With(t, M), key, c) /\ Beside(M, H, V, child, key, c)
                          /\ Tree(M, root, head, H, V, K, {c})
  <2>1. PICK M, H, V, K :
           /\ Larger(t, h, W, x, child, M, H, V)
           /\ StillOne(t, below, M, H, V, K) \/ \E key, c : NowTwo(t, child, below, M, H, V, K, key, c)
    BY <1>1 DEF Grown
  <2>2. /\ \A m \in DOMAIN N :
              m \in DOMAIN M /\ H[m] = h[m] /\ (h[m] > h[child] => M[m] = N[m] /\ V[m] = W[m])
        /\ Filled(M, {}) /\ \A y : Holds(M, y) <=> Holds(N, y) \/ y = x
    BY <1>1, <2>1 DEF Larger
  <2>3. StillOne(t, below, M, H, V, K)
           => below = Unsplit(With(t, M)) /\ Tree(M, root, head, H, V, K, {})
    BY <1>1 DEF StillOne
  <2>4. \A key, c : NowTwo(t, child, below, M, H, V, K, key, c)
           => /\ below = Split(With(t, M), key, c) /\ Beside(M, H, V, child, key, c)
              /\ Tree(M, root, head, H, V, K, {c})
    BY <1>1 DEF NowTwo
  <2>5. \/ /\ below = Unsplit(With(t, M)) /\ Tree(M, root, head, H, V, K, {})
        \/ \E key, c : /\ below = Split(With(t, M), key, c) /\ Beside(M, H, V, child, key, c)
                       /\ Tree(M, root, head, H, V, K, {c})
    BY <2>1, <2>3, <2>4
  <2> QED  BY <2>2, <2>5
<1>7. /\ M[n] = N[n] /\ V[n] = W[n] /\ H[n] = h[n] /\ n \in DOMAIN M
      /\ \A m \in DOMAIN N :
            m \in DOMAIN M /\ H[m] = h[m] /\ (h[m] > h[n] => M[m] = N[m] /\ V[m] = W[m] /\ m # n)
  BY <1>2, <1>5, <1>6
<1>8. CASE below = Unsplit(With(t, M)) /\ Tree(M, root, head, H, V, K, {})
  <2>1. InsertStep(t, x, n, below) = below
    BY <1>1, <1>2, <1>8 DEF InsertStep, Unsplit
  <2>2. \A m \in DOMAIN t.nodes :
           m \in DOMAIN M /\ H[m] = h[m] /\ (h[m] > h[n] => M[m] = t.nodes[m] /\ V[m] = W[m])
    BY <1>1, <1>7
  <2>3. \A y : Holds(M, y) <=> Holds(t.nodes, y) \/ y = x
    BY <1>1, <1>6
  <2>4. below = Unsplit(With(t, M)) /\ Tree(M, t.root, t.leafHead, H, V, K, {})
    BY <1>1, <1>8
  <2>5. Larger(t, h, W, x, n, M, H, V)
    BY <1>6, <2>2, <2>3 DEF Larger
  <2>6. StillOne(t, InsertStep(t, x, n, below), M, H, V, K)
    BY <2>1, <2>4 DEF StillOne
  <2> QED  BY <2>5, <2>6 DEF Grown
<1>9. ASSUME NEW key, NEW c, below = Split(With(t, M), key, c), Beside(M, H, V, child, key, c),
             Tree(M, root, head, H, V, K, {c})
      PROVE  Grown(t, h, W, x, n, InsertStep(t, x, n, below))
  <2>1. PICK b : b = With(t, M)
    OBVIOUS
  <2>2. IsTree(b) /\ b.nodes = M /\ b.root = root /\ b.leafHead = head
    BY <1>1, <2>1, WithIs
  <2>3. /\ below.split /\ below.tree = b /\ below.promoted = key /\ below.child = c
    BY <1>9, <2>1 DEF Split
  <2>4. Nest(M, root, H, V, {c}) /\ Chained(M, head, K) /\ InOrder(V, K) /\ Sized(M) /\ Typed(M)
    BY <1>9 DEF Tree, Nest
  <2>5. Child(M, n, i, child) /\ i \in 1 .. Len(M[n].children) /\ Len(M[n].children) = Len(M[n].keys) + 1
        /\ M[n].children # <<>>
    <3>1. Child(M, n, i, child)
      BY <1>4, <1>7 DEF Child
    <3> QED  BY <1>4, <1>7, <2>4, <3>1 DEF Child, Nest, Shaped
  <2>6. key \in AnyItem /\ c \in Nat /\ c \in DOMAIN M
    <3>1. c \in DOMAIN M /\ key \in V[c]
      BY <1>9 DEF Beside
    <3> QED  BY <2>4, <3>1 DEF Nest, Routed, Typed
  <2>7. PICK s : s = Attach(b, n, i, key, c)
    OBVIOUS
  <2>8. PICK A : /\ s = With(b, A) /\ Attached(M, A, n, i, key, c)
                 /\ A[n].next = M[n].next /\ A[n].prev = M[n].prev
    <3>1. /\ IsTree(b) /\ Typed(b.nodes) /\ n \in DOMAIN b.nodes /\ i \in 1 .. Len(b.nodes[n].children)
          /\ Len(b.nodes[n].children) = Len(b.nodes[n].keys) + 1
          /\ key \in AnyItem /\ c \in Nat
      BY <1>7, <2>2, <2>4, <2>5, <2>6
    <3>2. \E A : /\ s = With(b, A) /\ Attached(b.nodes, A, n, i, key, c)
                 /\ A[n].next = b.nodes[n].next /\ A[n].prev = b.nodes[n].prev
      BY <2>7, <3>1, AttachIs
    <3>3. b.nodes = M
      BY <2>2
    <3> QED  BY <3>2, <3>3
  <2>9. IsTree(s) /\ s.nodes = A /\ s = With(t, A)
    BY <2>1, <2>2, <2>8, WithIs, WithTwice
  <2>10. /\ Nest(A, root, H, V, {}) /\ Len(A[n].keys) = Len(M[n].keys) + 1
         /\ Len(A[n].children) = Len(M[n].children) + 1
    BY <1>9, <2>4, <2>5, <2>8, AttachNest
  <2>11. /\ DOMAIN A = DOMAIN M /\ Typed(A) /\ n \in DOMAIN A /\ ~ A[n].isLeaf /\ A[n].items = M[n].items
         /\ A[n].next = NoNode /\ \A m \in DOMAIN M : m # n => A[m] = M[m]
    BY <1>2, <1>4, <1>7, <2>8 DEF Attached
  <2>12. Leafs(A) = Leafs(M) /\ \A m \in Leafs(M) : m # n /\ A[m] = M[m]
    <3>1. ~ M[n].isLeaf
      BY <1>2, <1>7
    <3> QED  BY <2>11, <3>1 DEF Leafs
  <2>13. Chained(A, head, K)
    BY <2>4, <2>12, SameChain
  <2>14. PICK l \in Nat : l = Len(A[n].keys) /\ Len(A[n].children) = l + 1
    <3>1. A[n].keys \in Seq(AnyItem)
      BY <2>11, NodeParts
    <3>2. Len(A[n].children) = Len(A[n].keys) + 1
      BY <2>5, <2>10
    <3> QED  BY <3>1, <3>2
  <2>15. l + 1 <= Order + 1 /\ l # 0
    <3>1. PICK k \in Nat : k = Len(M[n].keys) /\ l = k + 1 /\ k + 1 <= Order
      <4>1. Len(M[n].keys) \in Nat
        BY <1>7, <2>4, NodeParts
      <4> QED  BY <1>4, <1>7, <2>5, <2>10, <2>14, <4>1
    <3> QED  BY <3>1, BPlusTreeAssumption, SMT
  <2>16. \A m \in DOMAIN A : A[m].items = M[m].items
    BY <2>11
  <2>17. \A y : Holds(A, y) <=> Holds(N, y) \/ y = x
    BY <1>6, <2>11, <2>16 DEF Holds
  <2>18. Filled(A, {})
    <3>1. \A m \in DOMAIN A : A[m].isLeaf => M[m].isLeaf
      BY <2>11
    <3> QED  BY <1>6, <2>11, <2>16, <3>1 DEF Filled
  <2>19. InsertStep(t, x, n, below)
         = IF Len(A[n].children) > Order THEN SplitInner(s, n) ELSE Unsplit(s)
    <3>1. ~ t.nodes[n].isLeaf /\ Branch(t.nodes[n].keys, x) = i /\ below.split /\ s.nodes = A
      BY <1>1, <1>2, <1>3, <2>3, <2>9
    <3>2. s = Attach(below.tree, n, i, below.promoted, below.child)
      BY <2>3, <2>7
    <3> QED  BY <3>1, <3>2 DEF InsertStep
  <2>20. CASE ~ (l + 1 > Order)
    <3>1. InsertStep(t, x, n, below) = Unsplit(With(t, A))
      BY <2>9, <2>14, <2>19, <2>20
    <3>2. l + 1 <= Order
      BY <2>20, BPlusTreeAssumption, SMT
    <3>3. Sized(A)
      <4> SUFFICES ASSUME NEW m \in DOMAIN A
                   PROVE  IF A[m].isLeaf THEN Len(A[m].items) < Order
                          ELSE A[m].children # <<>> /\ Len(A[m].children) <= Order /\ A[m].next = NoNode
        BY DEF Sized
      <4>1. CASE m = n
        <5>1. l + 1 # 0
          BY SMT
        <5>2. A[n].children # <<>>
          BY <2>14, <5>1
        <5> QED  BY <2>11, <2>14, <3>2, <4>1, <5>2
      <4>2. CASE m # n
        <5>1. A[m] = M[m] /\ m \in DOMAIN M
          BY <2>11, <4>2
        <5> QED  BY <2>4, <5>1 DEF Sized
      <4> QED  BY <4>1, <4>2
    <3>4. Tree(A, t.root, t.leafHead, H, V, K, {})
      BY <1>1, <2>4, <2>10, <2>13, <3>3 DEF Tree
    <3>5. \A m \in DOMAIN t.nodes :
             m \in DOMAIN A /\ H[m] = h[m] /\ (h[m] > h[n] => A[m] = t.nodes[m] /\ V[m] = W[m])
      BY <1>1, <1>7, <2>11
    <3>6. \A y : Holds(A, y) <=> Holds(t.nodes, y) \/ y = x
      BY <1>1, <2>17
    <3>7. Larger(t, h, W, x, n, A, H, V)
      BY <2>18, <3>5, <3>6 DEF Larger
    <3>8. StillOne(t, InsertStep(t, x, n, below), A, H, V, K)
      BY <3>1, <3>4 DEF StillOne
    <3> QED  BY <3>7, <3>8 DEF Grown
  <2>21. CASE l + 1 > Order
    <3>1. PICK j : Middle(A[n].keys, j)
      BY DEF Middle
    <3>2. j \in 2 .. l /\ j \in 1 .. l /\ j <= Order /\ (l + 1) - j <= Order /\ (l + 1) - j # 0
      <4>1. PICK half : half = l \div 2
        OBVIOUS
      <4>2. half \in Nat /\ 2 * half <= l /\ l <= 2 * half + 1
        BY <4>1, HalfIs
      <4>3. j = half + 1
        BY <2>14, <3>1, <4>1 DEF Middle
      <4> HIDE DEF Middle
      <4>4. l >= 3
        BY <2>21, BPlusTreeAssumption, SMT
      <4>5. half >= 1 /\ half + 1 <= l
        BY <4>2, <4>4, SMT
      <4> QED  BY <2>15, <4>2, <4>3, <4>5, BPlusTreeAssumption, SMT
    <3>3. PICK B, d : /\ SplitInner(s, n) = Split(With(s, B), s.nodes[n].keys[j], d)
                      /\ InnerSplit(s.nodes, B, n, d, j)
      <4>1. /\ IsTree(s) /\ Typed(s.nodes) /\ n \in DOMAIN s.nodes
            /\ Middle(s.nodes[n].keys, j) /\ j \in 1 .. Len(s.nodes[n].keys)
            /\ Len(s.nodes[n].children) = Len(s.nodes[n].keys) + 1
        BY <2>9, <2>11, <2>14, <3>1, <3>2
      <4> QED  BY <4>1, SplitInnerIs
    <3>4. PICK up : up = A[n].keys[j]
      OBVIOUS
    <3>5. InsertStep(t, x, n, below) = Split(With(t, B), up, d) /\ InnerSplit(A, B, n, d, j)
      <4>1. With(s, B) = With(t, B)
        BY <2>1, <2>2, <2>9, WithTwice
      <4> QED  BY <2>9, <2>14, <2>19, <2>21, <3>3, <3>4, <4>1
    <3>6. PICK G, U : G = Higher(A, H, n, d) /\ U = Parted(A, V, n, d, up)
      OBVIOUS
    <3>7. Nest(B, root, G, U, {d}) /\ Beside(B, G, U, n, up, d)
      <4>1. A[n].children # <<>>
        <5>1. l + 1 # 0
          BY SMT
        <5> QED  BY <2>14, <5>1
      <4>2. /\ Nest(A, root, H, V, {}) /\ n \in DOMAIN A /\ ~ A[n].isLeaf
            /\ j \in 2 .. Len(A[n].keys) /\ InnerSplit(A, B, n, d, j)
        BY <2>10, <2>11, <2>14, <3>2, <3>5
      <4> QED  BY <3>4, <3>6, <4>1, <4>2, InnerSplitNest
    <3>8. /\ DOMAIN B = DOMAIN A \union {d} /\ d \notin DOMAIN A /\ ~ B[d].isLeaf /\ B[d].items = <<>>
          /\ B[d].next = NoNode /\ ~ B[n].isLeaf /\ B[n].items = A[n].items /\ B[n].next = NoNode
          /\ (\A m \in DOMAIN A : m # n => B[m] = A[m]) /\ Typed(B)
          /\ B[n].children = Part(A[n].children, 1, j)
          /\ B[d].children = Part(A[n].children, j + 1, Len(A[n].children))
      BY <2>11, <3>5 DEF InnerSplit
    <3>9. Leafs(B) = Leafs(A) /\ \A m \in Leafs(A) : m # n /\ m # d /\ B[m] = A[m]
      BY <2>11, <3>8 DEF Leafs
    <3>10. Chained(B, head, K)
      BY <2>13, <3>9, SameChain
    <3>11. InOrder(U, K)
      <4>1. \A k \in 1 .. Len(K) : K[k] \in Leafs(A) /\ K[k] \in DOMAIN A
        BY <2>13, ChainParts
      <4>2. \A k \in 1 .. Len(K) : U[K[k]] = V[K[k]]
        BY <3>6, <3>9, <4>1 DEF Parted
      <4> QED  BY <2>4, <4>2, InOrderOn
    <3>12. /\ Len(B[n].children) = j /\ Len(B[d].children) = (l + 1) - j
      <4>1. PICK children, one, k, q : children = A[n].children /\ one = 1 /\ k = l + 1 /\ q = j + 1
        OBVIOUS
      <4>2. children \in Seq(Nat) /\ Len(children) = k
        BY <2>11, <2>14, <4>1, NodeParts
      <4>3. /\ one \in Nat \ {0} /\ j \in Nat /\ j <= k /\ one <= j + 1 /\ j - one + 1 = j
            /\ q \in Nat \ {0} /\ k \in Nat /\ k <= k /\ q <= k + 1 /\ k - q + 1 = (l + 1) - j
        BY <3>2, <4>1, SMT
      <4>4. PICK a, e : a = Part(children, one, j) /\ e = Part(children, q, k)
        OBVIOUS
      <4>5. Len(a) = j - one + 1
        <5>1. ChildrenOf(children, one, j, a)
          BY <4>2, <4>3, <4>4 DEF ChildrenOf
        <5> QED  BY <5>1, ChildrenLen
      <4>6. Len(e) = k - q + 1
        <5>1. ChildrenOf(children, q, k, e)
          BY <4>2, <4>3, <4>4 DEF ChildrenOf
        <5> QED  BY <5>1, ChildrenLen
      <4>7. Len(a) = j /\ Len(e) = (l + 1) - j
        BY <4>3, <4>5, <4>6
      <4>8. B[n].children = a /\ B[d].children = e
        BY <3>8, <4>1, <4>2, <4>4
      <4> QED  BY <4>7, <4>8
    <3>13. Sized(B)
      <4> SUFFICES ASSUME NEW m \in DOMAIN B
                   PROVE  IF B[m].isLeaf THEN Len(B[m].items) < Order
                          ELSE B[m].children # <<>> /\ Len(B[m].children) <= Order /\ B[m].next = NoNode
        BY DEF Sized
      <4>1. CASE m = n
        <5>1. j # 0
          BY <3>2, SMT
        <5>2. B[n].children # <<>>
          BY <3>12, <5>1
        <5> QED  BY <3>2, <3>8, <3>12, <4>1, <5>2
      <4>2. CASE m = d
        <5>1. B[d].children # <<>>
          BY <3>2, <3>12
        <5> QED  BY <3>2, <3>8, <3>12, <4>2, <5>1
      <4>3. CASE m # n /\ m # d
        <5>1. B[m] = M[m] /\ m \in DOMAIN M
          BY <2>11, <3>8, <4>3
        <5> QED  BY <2>4, <5>1 DEF Sized
      <4> QED  BY <4>1, <4>2, <4>3
    <3>14. Filled(B, {})
      <4>1. \A m \in DOMAIN B : B[m].isLeaf => m \in DOMAIN A /\ A[m].isLeaf /\ B[m].items = A[m].items
        BY <3>8
      <4> QED  BY <2>18, <4>1 DEF Filled
    <3>15. \A y : Holds(B, y) <=> Holds(t.nodes, y) \/ y = x
      <4> SUFFICES ASSUME NEW y PROVE Holds(B, y) <=> Holds(A, y)
        BY <1>1, <2>17
      <4>1. Nodes(<<>>) = {}
        BY DEF Nodes
      <4>2. \A m \in DOMAIN A : m \in DOMAIN B /\ B[m].items = A[m].items
        BY <3>8
      <4>3. \A m \in DOMAIN B : m \in DOMAIN A \/ B[m].items = <<>>
        BY <3>8
      <4> QED  BY <4>1, <4>2, <4>3 DEF Holds
    <3>16. \A m \in DOMAIN t.nodes :
             m \in DOMAIN B /\ G[m] = h[m] /\ (h[m] > h[n] => B[m] = t.nodes[m] /\ U[m] = W[m])
      <4> SUFFICES ASSUME NEW m \in DOMAIN N
                   PROVE  m \in DOMAIN B /\ G[m] = h[m] /\ (h[m] > h[n] => B[m] = N[m] /\ U[m] = W[m])
        BY <1>1
      <4>1. /\ m \in DOMAIN A /\ m # d /\ m \in DOMAIN B /\ H[m] = h[m]
            /\ h[m] > h[n] => M[m] = N[m] /\ V[m] = W[m] /\ m # n
        BY <1>7, <2>11, <3>8
      <4>2. G[m] = h[m]
        BY <3>6, <4>1 DEF Higher
      <4>3. m # n => U[m] = V[m]
        BY <3>6, <4>1 DEF Parted
      <4>4. m # n => B[m] = M[m]
        BY <2>11, <3>8, <4>1
      <4> QED  BY <4>1, <4>2, <4>3, <4>4
    <3>17. Tree(B, t.root, t.leafHead, G, U, K, {d})
      BY <1>1, <3>7, <3>10, <3>11, <3>13 DEF Tree
    <3>18. Larger(t, h, W, x, n, B, G, U)
      BY <3>14, <3>15, <3>16 DEF Larger
    <3>19. NowTwo(t, n, InsertStep(t, x, n, below), B, G, U, K, up, d)
      BY <3>5, <3>7, <3>17 DEF NowTwo
    <3> QED  BY <3>18, <3>19 DEF Grown
  <2> QED  BY <2>20, <2>21
<1> QED  BY <1>6, <1>8, <1>9

\* Induction on numbers, for a set instead of a predicate.
LEMMA CountUp ==
    ASSUME NEW S, 0 \in S, \A k \in Nat : k \in S => k + 1 \in S
    PROVE  \A k \in Nat : k \in S
<1> SUFFICES ASSUME NEW k \in Nat, k \notin S PROVE FALSE
  OBVIOUS
<1> DEFINE B == {j \in Nat : j \notin S}
<1>1. B \in SUBSET Nat /\ B # {}
  OBVIOUS
<1>2. PICK j \in B : \A i \in B : j <= i
  BY <1>1, LeastNumber
<1>3. j \in Nat /\ j \notin S /\ j # 0
  OBVIOUS
<1>4. j - 1 \in Nat /\ (j - 1) + 1 = j /\ ~ (j <= j - 1)
  BY <1>3, SMT
<1>5. j - 1 \in S
  BY <1>2, <1>4
<1> QED  BY <1>3, <1>4, <1>5

\* No node is higher than the root.
LEMMA Tallest ==
    ASSUME NEW N, NEW root, NEW h, NEW W, NEW orphans, Nest(N, root, h, W, orphans)
    PROVE  /\ \A n \in DOMAIN N : h[n] \in Nat /\ h[n] < h[root] + 1
           /\ \A n \in DOMAIN N : \A k \in Nat : h[n] < k + 1 <=> h[n] < k \/ h[n] = k
           /\ \A n \in DOMAIN N : ~ (h[n] < 0)
           /\ h[root] + 1 \in Nat
<1>1. root \in DOMAIN N /\ \A n \in DOMAIN N : h[n] \in Nat /\ h[n] <= h[root]
  BY DEF Nest, Ranked, Rooted
<1>2. \A a, b \in Nat : /\ a <= b => a < b + 1
                        /\ ~ (a < 0) /\ a + 1 \in Nat
                        /\ a < b + 1 <=> a < b \/ a = b
  BY SMT
<1> QED  BY <1>1, <1>2

\* The tree of a root that is a leaf.
LEMMA OnlyRoot ==
    ASSUME NEW N, NEW root, NEW h, NEW W, Nest(N, root, h, W, {}), N[root].isLeaf
    PROVE  DOMAIN N = {root}
<1>1. root \in DOMAIN N /\ h[root] = 0
  BY DEF Nest, Ranked, Rooted
<1>2. ASSUME NEW n \in DOMAIN N, n # root PROVE FALSE
  <2>1. PICK p, i : Child(N, p, i, n)
    BY <1>2 DEF Nest, Rooted
  <2>2. p \in DOMAIN N /\ h[p] = h[n] + 1 /\ h[n] \in Nat /\ h[p] <= h[root]
    <3>1. p \in DOMAIN N
      BY <2>1 DEF Child
    <3> QED  BY <2>1, <3>1 DEF Nest, Ranked, Rooted
  <2> QED  BY <1>1, <2>2, SMT
<1> QED  BY <1>1, <1>2

\* f is the recursion of insertInternal.
Inserts(t, x, f) ==
    f = [n \in DOMAIN t.nodes |-> InsertStep(t, x, n, f[Toward(t.nodes, x, n)])]

LEMMA InsertInternalIs ==
    ASSUME NEW t, NEW x, \E f : Inserts(t, x, f)
    PROVE  \E f : Inserts(t, x, f) /\ insertInternal(t, x) = f[t.root]
<1> DEFINE Is(insert) ==
      insert = [n \in DOMAIN t.nodes |->
            LET node == t.nodes[n] IN
            IF node.isLeaf
            THEN LET s == [t EXCEPT !.nodes[n].items = Seqs!InsertAt(@, Place(@, x), x)]
                 IN IF Len(s.nodes[n].items) >= Order THEN SplitLeaf(s, n) ELSE Unsplit(s)
            ELSE LET i == Branch(node.keys, x)
                     below == insert[node.children[i]]
                     s == [below.tree EXCEPT
                              !.nodes[n].keys = Seqs!InsertAt(@, i, below.promoted),
                              !.nodes[n].children = Seqs!InsertAt(@, i + 1, below.child)]
                 IN IF ~ below.split THEN below
                    ELSE IF Len(s.nodes[n].children) > Order THEN SplitInner(s, n)
                    ELSE Unsplit(s)]
<1>1. insertInternal(t, x) = (CHOOSE f : Is(f))[t.root]
  BY Zenon DEF insertInternal
<1>2. \A f : Is(f) <=> Inserts(t, x, f)
  BY Zenon DEF Inserts, InsertStep, Attach, Toward
<1> HIDE DEF Is
<1>3. Is(CHOOSE f : Is(f))
  BY <1>2
<1> QED  BY <1>1, <1>2, <1>3

\* The recursion of insertInternal is a function of the nodes, by induction on heights.
LEMMA InsertExists ==
    ASSUME NEW t, NEW h, NEW W, Nest(t.nodes, t.root, h, W, {}), InnersFull(t.nodes), NEW x \in AnyItem
    PROVE  \E f : Inserts(t, x, f)
<1> DEFINE N == t.nodes
           D == DOMAIN N
           Upto(f, k) == \A n \in D : h[n] < k => f[n] = InsertStep(t, x, n, f[Toward(N, x, n)])
           S == {k \in Nat : \E f : Upto(f, k)}
<1>1. \A n \in D : ~ N[n].isLeaf => Toward(N, x, n) \in D /\ h[n] = h[Toward(N, x, n)] + 1
  BY TowardChild DEF InnersFull
<1>2. /\ \A n \in D : h[n] \in Nat /\ h[n] < h[t.root] + 1
      /\ \A n \in D : \A k \in Nat : h[n] < k + 1 <=> h[n] < k \/ h[n] = k
      /\ \A n \in D : ~ (h[n] < 0)
      /\ h[t.root] + 1 \in Nat
  BY Tallest
<1>3. \A n, a, b : N[n].isLeaf => InsertStep(t, x, n, a) = InsertStep(t, x, n, b)
  BY DEF InsertStep
<1>4. 0 \in S
  BY <1>2
<1>5. ASSUME NEW k \in Nat, k \in S PROVE k + 1 \in S
  <2>1. PICK f : Upto(f, k)
    BY <1>5
  <2> DEFINE g == [n \in D |-> IF h[n] < k THEN f[n] ELSE InsertStep(t, x, n, f[Toward(N, x, n)])]
  <2>2. \A n \in D : h[n] < k + 1 => g[n] = InsertStep(t, x, n, f[Toward(N, x, n)])
    BY <2>1
  <2>3. ASSUME NEW n \in D, h[n] < k + 1, ~ N[n].isLeaf
        PROVE  g[Toward(N, x, n)] = f[Toward(N, x, n)]
    <3>1. PICK m \in D : m = Toward(N, x, n) /\ h[n] = h[m] + 1
      BY <1>1, <2>3
    <3>2. h[m] < k
      <4>1. h[m] \in Nat /\ h[m] + 1 < k + 1
        BY <1>2, <2>3, <3>1
      <4> QED  BY <4>1, SMT
    <3> QED  BY <3>1, <3>2
  <2> HIDE DEF g
  <2>4. Upto(g, k + 1)
    BY <1>3, <2>2, <2>3
  <2> HIDE DEF Upto
  <2> QED  BY <2>4
<1> HIDE DEF S
<1>6. h[t.root] + 1 \in S
  BY <1>2, <1>4, <1>5, CountUp
<1>7. PICK f : \A n \in D : f[n] = InsertStep(t, x, n, f[Toward(N, x, n)])
  BY <1>2, <1>6 DEF S
<1>8. PICK g : g = [n \in D |-> f[n]]
  OBVIOUS
<1>9. \A n \in D : g[n] = InsertStep(t, x, n, g[Toward(N, x, n)])
  BY <1>1, <1>3, <1>7, <1>8
<1>10. g = [n \in D |-> g[n]]
  BY <1>8
<1>11. g = [n \in D |-> InsertStep(t, x, n, g[Toward(N, x, n)])]
  BY <1>9, <1>10
<1> QED  BY <1>11 DEF Inserts

\* The insertion, at every node that a search for x comes to.
LEMMA InsertClimbs ==
    ASSUME NEW t, IsTree(t), NEW h, NEW W, NEW L, Tree(t.nodes, t.root, t.leafHead, h, W, L, {}),
           Filled(t.nodes, {t.root}), NEW x \in AnyItem, ~ Holds(t.nodes, x),
           NEW P, Path(t.nodes, t.root, x, P), \A n \in P : x \in W[n],
           NEW f, Inserts(t, x, f)
    PROVE  \A n \in P : Grown(t, h, W, x, n, f[n])
<1> DEFINE N == t.nodes
           S == {k \in Nat : \A n \in P : h[n] < k => Grown(t, h, W, x, n, f[n])}
<1>1. Nest(N, t.root, h, W, {}) /\ P \in SUBSET DOMAIN N /\ Sized(N)
  BY DEF Tree, Path
<1>2. /\ \A n \in DOMAIN N : h[n] \in Nat /\ h[n] < h[t.root] + 1
      /\ \A n \in DOMAIN N : \A k \in Nat : h[n] < k + 1 <=> h[n] < k \/ h[n] = k
      /\ \A n \in DOMAIN N : ~ (h[n] < 0)
      /\ h[t.root] + 1 \in Nat
  BY <1>1, Tallest
<1>3. 0 \in S
  BY <1>1, <1>2
<1>4. ASSUME NEW k \in Nat, k \in S PROVE k + 1 \in S
  <2> SUFFICES ASSUME NEW n \in P, h[n] < k + 1 PROVE Grown(t, h, W, x, n, f[n])
    OBVIOUS
  <2>1. n \in DOMAIN N /\ f[n] = InsertStep(t, x, n, f[Toward(N, x, n)])
    BY <1>1 DEF Inserts
  <2>2. CASE N[n].isLeaf
    <3>1. Filled(N, {n})
      <4>1. CASE N[t.root].isLeaf
        <5>1. DOMAIN N = {t.root}
          BY <1>1, <4>1, OnlyRoot
        <5> QED  BY <2>1, <5>1
      <4>2. CASE ~ N[t.root].isLeaf
        BY <4>2 DEF Filled
      <4> QED  BY <4>1, <4>2
    <3>2. x \in W[n]
      OBVIOUS
    <3>3. Grown(t, h, W, x, n, InsertStep(t, x, n, f[Toward(N, x, n)]))
      BY <2>1, <2>2, <3>1, <3>2, InsertLeaf
    <3> QED  BY <2>1, <3>3
  <2>3. CASE ~ N[n].isLeaf
    <3>1. PICK m : m = Toward(N, x, n)
      OBVIOUS
    <3>2. m \in P
      BY <2>3, <3>1 DEF Path
    <3>3. h[n] = h[m] + 1
      <4>1. N[n].children # <<>>
        BY <1>1, <2>1, <2>3 DEF Sized
      <4> QED  BY <1>1, <2>1, <3>1, <4>1, TowardChild
    <3>4. h[m] < k
      <4>1. h[m] \in Nat /\ h[m] + 1 < k + 1
        BY <1>1, <1>2, <3>2, <3>3
      <4> QED  BY <4>1, SMT
    <3>5. Grown(t, h, W, x, Toward(N, x, n), f[Toward(N, x, n)])
      BY <1>4, <3>1, <3>2, <3>4
    <3>6. Grown(t, h, W, x, n, InsertStep(t, x, n, f[Toward(N, x, n)]))
      BY <2>1, <2>3, <3>5, InsertInner
    <3> QED  BY <2>1, <3>6
  <2> QED  BY <2>2, <2>3
<1> HIDE DEF S
<1>5. h[t.root] + 1 \in S
  BY <1>2, <1>3, <1>4, CountUp
<1> QED  BY <1>1, <1>2, <1>5 DEF S

LEMMA FromTwice ==
    ASSUME NEW t, IsTree(t), NEW M, NEW A, NEW root
    PROVE  From(With(t, M), A, root) = From(t, A, root) /\ From(t, M, t.root) = With(t, M)
<1>1. With(With(t, M), A) = With(t, A)
  BY WithTwice
<1>2. From(With(t, M), A, root) = From(t, A, root)
  BY <1>1 DEF From
<1>3. PICK s : s = With(t, M) /\ IsTree(s) /\ s.root = t.root
  BY WithIs
<1>4. [s EXCEPT !.root = s.root] = s
  BY <1>3 DEF IsTree
<1>5. From(t, M, t.root) = [s EXCEPT !.root = s.root]
  BY <1>3 DEF From
<1> QED  BY <1>2, <1>3, <1>4, <1>5

\* An item that none of the leaves holds goes into a tree.
LEMMA InsertTree ==
    ASSUME NEW t, IsTree(t), NEW h, NEW W, NEW L, Tree(t.nodes, t.root, t.leafHead, h, W, L, {}),
           Filled(t.nodes, {t.root}), NEW x \in AnyItem, ~ Holds(t.nodes, x)
    PROVE  \E M, root, H, V, K :
              /\ GrowRoot(insertInternal(t, x)) = From(t, M, root)
              /\ Tree(M, root, t.leafHead, H, V, K, {}) /\ Filled(M, {})
              /\ \A y : Holds(M, y) <=> Holds(t.nodes, y) \/ y = x
<1>1. PICK N : N = t.nodes
  OBVIOUS
<1>2. /\ Nest(N, t.root, h, W, {}) /\ Chained(N, t.leafHead, L) /\ InOrder(W, L) /\ Sized(N)
      /\ Routed(N, W) /\ InnersFull(N)
  BY <1>1 DEF Tree, Nest, Sized, InnersFull
<1>3. PICK U, P : /\ Nest(N, t.root, h, U, {}) /\ Path(N, t.root, x, P) /\ \A n \in P : x \in U[n]
                  /\ \A n \in DOMAIN N : W[n] \subseteq U[n]
  BY <1>2, Admit
<1>4. Len(L) > 1 => \A n \in Leafs(N) : N[n].items # <<>>
  <2>1. CASE N[t.root].isLeaf
    <3>1. Leafs(N) \subseteq {t.root}
      BY <1>2, <2>1, OnlyRoot DEF Leafs
    <3>2. ASSUME Len(L) > 1 PROVE FALSE
      <4>1. 1 \in 1 .. Len(L) /\ 2 \in 1 .. Len(L)
        <5>1. Len(L) \in Nat
          BY <1>2, ChainParts
        <5> QED  BY <3>2, <5>1, SMT
      <4>2. L[1] \in Leafs(N) /\ L[2] \in Leafs(N)
        BY <1>2, <4>1, ChainParts
      <4>3. L[1] # L[2]
        BY <1>2, <4>1 DEF Chained
      <4> QED  BY <3>1, <4>2, <4>3
    <3> QED  BY <3>2
  <2>2. CASE ~ N[t.root].isLeaf
    BY <1>1, <2>2 DEF Filled, Leafs
  <2> QED  BY <2>1, <2>2
<1>5. InOrder(U, L)
  BY <1>2, <1>3, <1>4, StillInOrder
<1>6. Tree(t.nodes, t.root, t.leafHead, h, U, L, {})
  BY <1>1, <1>2, <1>3, <1>5 DEF Tree
<1>7. PICK f : Inserts(t, x, f) /\ insertInternal(t, x) = f[t.root]
  BY <1>1, <1>2, InsertExists, InsertInternalIs
<1>8. Grown(t, h, U, x, t.root, insertInternal(t, x))
  <2>1. Path(t.nodes, t.root, x, P) /\ t.root \in P
    BY <1>1, <1>3 DEF Path
  <2>2. /\ IsTree(t) /\ Tree(t.nodes, t.root, t.leafHead, h, U, L, {}) /\ Filled(t.nodes, {t.root})
        /\ ~ Holds(t.nodes, x) /\ Path(t.nodes, t.root, x, P) /\ \A n \in P : x \in U[n]
    BY <1>3, <1>6, <2>1
  <2>3. \A n \in P : Grown(t, h, U, x, n, f[n])
    BY <1>7, <2>2, InsertClimbs
  <2> QED  BY <1>7, <2>1, <2>3
<1>9. PICK M, H, V, K :
        /\ Filled(M, {}) /\ \A y : Holds(M, y) <=> Holds(t.nodes, y) \/ y = x
        /\ \/ /\ insertInternal(t, x) = Unsplit(With(t, M)) /\ Tree(M, t.root, t.leafHead, H, V, K, {})
           \/ \E key, c : /\ insertInternal(t, x) = Split(With(t, M), key, c)
                          /\ Beside(M, H, V, t.root, key, c)
                          /\ Tree(M, t.root, t.leafHead, H, V, K, {c})
  <2>1. PICK r : r = insertInternal(t, x)
    OBVIOUS
  <2>2. PICK M, H, V, K :
           /\ Larger(t, h, U, x, t.root, M, H, V)
           /\ StillOne(t, r, M, H, V, K) \/ \E key, c : NowTwo(t, t.root, r, M, H, V, K, key, c)
    BY <1>8, <2>1 DEF Grown
  <2>3. Filled(M, {}) /\ \A y : Holds(M, y) <=> Holds(t.nodes, y) \/ y = x
    BY <2>2 DEF Larger
  <2>4. StillOne(t, r, M, H, V, K)
           => r = Unsplit(With(t, M)) /\ Tree(M, t.root, t.leafHead, H, V, K, {})
    BY DEF StillOne
  <2>5. \A key, c : NowTwo(t, t.root, r, M, H, V, K, key, c)
           => /\ r = Split(With(t, M), key, c) /\ Beside(M, H, V, t.root, key, c)
              /\ Tree(M, t.root, t.leafHead, H, V, K, {c})
    BY DEF NowTwo
  <2>6. \/ /\ r = Unsplit(With(t, M)) /\ Tree(M, t.root, t.leafHead, H, V, K, {})
        \/ \E key, c : /\ r = Split(With(t, M), key, c) /\ Beside(M, H, V, t.root, key, c)
                       /\ Tree(M, t.root, t.leafHead, H, V, K, {c})
    BY <2>2, <2>4, <2>5
  <2> QED  BY <2>1, <2>3, <2>6
<1>10. CASE insertInternal(t, x) = Unsplit(With(t, M)) /\ Tree(M, t.root, t.leafHead, H, V, K, {})
  <2>1. GrowRoot(insertInternal(t, x)) = With(t, M)
    BY <1>10 DEF GrowRoot, Unsplit
  <2>2. GrowRoot(insertInternal(t, x)) = From(t, M, t.root)
    BY <2>1, FromTwice
  <2> QED  BY <1>9, <1>10, <2>2
<1>11. ASSUME NEW key, NEW c, insertInternal(t, x) = Split(With(t, M), key, c),
              Beside(M, H, V, t.root, key, c), Tree(M, t.root, t.leafHead, H, V, K, {c})
       PROVE  \E A, root, G, X, J :
                 /\ GrowRoot(insertInternal(t, x)) = From(t, A, root)
                 /\ Tree(A, root, t.leafHead, G, X, J, {}) /\ Filled(A, {})
                 /\ \A y : Holds(A, y) <=> Holds(t.nodes, y) \/ y = x
  <2>1. PICK s : s = With(t, M)
    OBVIOUS
  <2>2. IsTree(s) /\ s.nodes = M /\ s.root = t.root
    BY <2>1, WithIs
  <2>3. /\ Nest(M, t.root, H, V, {c}) /\ Chained(M, t.leafHead, K) /\ InOrder(V, K) /\ Sized(M)
        /\ Typed(M)
    BY <1>11 DEF Tree, Nest
  <2>4. PICK new : /\ new \in Nat /\ new \notin DOMAIN s.nodes
                   /\ GrowRoot(Split(s, key, c))
                      = From(s, Put(s.nodes, new, Fork(key, s.root, c)), new)
    <3>1. Typed(s.nodes)
      BY <2>2, <2>3
    <3> QED  BY <2>2, <3>1, GrowRootIs
  <2>5. PICK A, G, X : /\ A = Put(M, new, Fork(key, t.root, c)) /\ G = Taller(M, H, t.root, new)
                       /\ X = Wider(M, V, t.root, c, new)
    OBVIOUS
  <2>6. GrowRoot(insertInternal(t, x)) = From(t, A, new)
    <3>1. GrowRoot(Split(s, key, c)) = From(s, A, new)
      BY <2>2, <2>4, <2>5
    <3>2. From(s, A, new) = From(t, A, new)
      BY <2>1, FromTwice
    <3> QED  BY <1>11, <2>1, <3>1, <3>2
  <2>7. new \in Nat /\ new \notin DOMAIN M
    BY <2>2, <2>4
  <2>8. /\ Nest(A, new, G, X, {}) /\ DOMAIN A = DOMAIN M \union {new}
        /\ \A m \in DOMAIN M : A[m] = M[m] /\ X[m] = V[m] /\ G[m] = H[m]
        /\ A[new] = Fork(key, t.root, c)
    <3>1. Rising(M, t.root, H, V, c, key, new, A, G, X)
      BY <1>11, <2>3, <2>5, <2>7 DEF Rising
    <3>2. Risen(M, t.root, H, V, c, key, new, A, G, X)
      BY <3>1, GrowNest, Zenon
    <3> QED  BY <3>2 DEF Risen
  <2>9. /\ ~ A[new].isLeaf /\ A[new].items = <<>> /\ A[new].children = <<t.root, c>>
        /\ A[new].next = NoNode
    BY <2>8 DEF Inner, Fork
  <2>10. Leafs(A) = Leafs(M) /\ \A m \in Leafs(M) : m \in DOMAIN M /\ A[m] = M[m]
    BY <2>7, <2>8, <2>9 DEF Leafs
  <2>11. Chained(A, t.leafHead, K)
    BY <2>3, <2>10, SameChain
  <2>12. InOrder(X, K)
    <3>1. \A i \in 1 .. Len(K) : K[i] \in DOMAIN M
      BY <2>3, ChainParts
    <3>2. \A i \in 1 .. Len(K) : X[K[i]] = V[K[i]]
      BY <2>8, <3>1
    <3> QED  BY <2>3, <3>2, InOrderOn
  <2>13. Sized(A)
    <3>1. Len(<<t.root, c>>) = 2 /\ <<t.root, c>> # <<>>
      OBVIOUS
    <3>2. 2 <= Order
      BY BPlusTreeAssumption, SMT
    <3> SUFFICES ASSUME NEW m \in DOMAIN A
                 PROVE  IF A[m].isLeaf THEN Len(A[m].items) < Order
                        ELSE A[m].children # <<>> /\ Len(A[m].children) <= Order /\ A[m].next = NoNode
      BY DEF Sized
    <3>3. CASE m = new
      BY <2>9, <3>1, <3>2, <3>3
    <3>4. CASE m # new
      <4>1. m \in DOMAIN M /\ A[m] = M[m]
        BY <2>8, <3>4
      <4> QED  BY <2>3, <4>1 DEF Sized
    <3> QED  BY <3>3, <3>4
  <2>14. Filled(A, {})
    BY <1>9, <2>8, <2>9 DEF Filled
  <2>15. \A y : Holds(A, y) <=> Holds(t.nodes, y) \/ y = x
    <3>1. Nodes(<<>>) = {}
      BY DEF Nodes
    <3>2. \A y : Holds(A, y) <=> Holds(M, y)
      BY <2>7, <2>8, <2>9, <3>1 DEF Holds
    <3> QED  BY <1>9, <3>2
  <2>16. Tree(A, new, t.leafHead, G, X, K, {})
    BY <2>8, <2>11, <2>12, <2>13 DEF Tree
  <2> QED  BY <2>6, <2>14, <2>15, <2>16
<1> QED  BY <1>9, <1>10, <1>11

-----------------------------------------------------------------------------
(* An empty node taken off its parent                                        *)

\* The key before the one that goes with child i.
Spare(keys, i) == IF i <= Len(keys) THEN i - 1 ELSE Len(keys) - 1

\* Where a search goes among the keys once one is gone.
LEMMA LeadsRemoved ==
    ASSUME NEW keys \in Seq(AnyItem), keys # <<>>, NEW i \in 1 .. Len(keys) + 1,
           NEW new, new = Removed(keys, Spare(keys, i)), Len(new) = Len(keys) - 1,
           NEW x, NEW j, Leads(keys, x, j)
    PROVE  /\ j < i => Leads(new, x, j)
           /\ j > i => Leads(new, x, j - 1)
<1>1. PICK l \in Nat : l = Len(keys) /\ l # 0
  OBVIOUS
<1>2. /\ i \in 1 .. l + 1 /\ i \in Int /\ j \in 1 .. l + 1 /\ j \in Int
      /\ \A t \in 1 .. j - 1 : ~ less(x, keys[t])
      /\ j <= l => less(x, keys[j])
  <2>1. i \in 1 .. l + 1 /\ j \in 1 .. l + 1
    BY <1>1 DEF Leads
  <2>2. i \in Int /\ j \in Int
    BY <1>1, <2>1, SMT
  <2> QED  BY <1>1, <2>1, <2>2 DEF Leads
<1>3. PICK d \in Int : d = Spare(keys, i) /\ (i <= l => d = i - 1) /\ (~ (i <= l) => i = l + 1 /\ d = l - 1)
  <2>1. Spare(keys, i) \in Int
    BY <1>1, <1>2, SMT DEF Spare
  <2>2. ~ (i <= l) => i = l + 1
    BY <1>1, <1>2, SMT
  <2> QED  BY <1>1, <2>1, <2>2 DEF Spare
<1>4. Len(new) = l - 1 /\ \A t \in 1 .. l - 1 : new[t] = IF t <= d THEN keys[t] ELSE keys[t + 1]
  BY <1>1, <1>3 DEF Removed
<1>5. ASSUME j < i PROVE Leads(new, x, j)
  <2>1. j \in 1 .. (l - 1) + 1
    BY <1>1, <1>2, <1>5, SMT
  <2>2. ASSUME NEW t \in 1 .. j - 1 PROVE ~ less(x, new[t])
    <3>1. t \in 1 .. l - 1 /\ t <= d
      BY <1>1, <1>2, <1>3, <1>5, SMT
    <3> QED  BY <1>2, <1>4, <3>1
  <2>3. j <= l - 1 => less(x, new[j])
    <3>1. j <= l - 1 => j \in 1 .. l - 1 /\ j <= d /\ j <= l
      BY <1>1, <1>2, <1>3, <1>5, SMT
    <3> QED  BY <1>2, <1>4, <3>1
  <2> QED  BY <1>4, <2>1, <2>2, <2>3 DEF Leads
<1>6. ASSUME j > i PROVE Leads(new, x, j - 1)
  <2>1. j - 1 \in 1 .. (l - 1) + 1 /\ i <= l /\ d = i - 1
    BY <1>1, <1>2, <1>3, <1>6, SMT
  <2>2. ASSUME NEW t \in 1 .. (j - 1) - 1 PROVE ~ less(x, new[t])
    <3>1. t \in 1 .. l - 1 /\ t \in 1 .. j - 1 /\ t + 1 \in 1 .. j - 1
      BY <1>1, <1>2, <1>6, <2>1, SMT
    <3> QED  BY <1>2, <1>4, <3>1
  <2>3. j - 1 <= l - 1 => less(x, new[j - 1])
    <3>1. j - 1 <= l - 1 => j - 1 \in 1 .. l - 1 /\ ~ (j - 1 <= d) /\ j <= l /\ (j - 1) + 1 = j
      BY <1>1, <1>2, <1>6, <2>1, SMT
    <3> QED  BY <1>2, <1>4, <3>1
  <2> QED  BY <1>4, <2>1, <2>2, <2>3 DEF Leads
<1> QED  BY <1>5, <1>6

\* Child i of p, which is c, is dropped, and the key that goes with it.
Dropped(N, M, p, i, c) ==
    /\ Typed(M) /\ DOMAIN M = DOMAIN N \ {c} /\ \A m \in DOMAIN M : m # p => M[m] = N[m]
    /\ M[p].isLeaf = N[p].isLeaf /\ M[p].items = N[p].items /\ M[p].next = N[p].next
    /\ M[p].children = Removed(N[p].children, i - 1)
    /\ M[p].keys = IF N[p].keys = <<>> THEN <<>> ELSE Removed(N[p].keys, Spare(N[p].keys, i))

\* A node without one of its empty children keeps its nest.
LEMMA DropNest ==
    ASSUME NEW N, NEW root, NEW h, NEW W, Nest(N, root, h, W, {}),
           NEW p, NEW i, NEW c, Child(N, p, i, c), N[c].children = <<>>,
           NEW M, Dropped(N, M, p, i, c)
    PROVE  Nest(M, root, h, W, {}) /\ Len(M[p].children) = Len(N[p].children) - 1
<1>1. /\ DOMAIN M = DOMAIN N \ {c} /\ Typed(M) /\ p \in DOMAIN N /\ c \in DOMAIN N
      /\ \A m \in DOMAIN M : m # p => M[m] = N[m]
      /\ M[p].isLeaf = N[p].isLeaf /\ M[p].items = N[p].items
  BY DEF Dropped, Child, Nest, Ranked
<1>2. PICK keys, children : keys = N[p].keys /\ children = N[p].children
  OBVIOUS
<1>3. keys \in Seq(AnyItem) /\ children \in Seq(Nat) /\ Sorted(keys) /\ Nodes(keys) \subseteq W[p]
  BY <1>1, <1>2, NodeParts DEF Nest, Shaped, Routed
<1>4. PICK l \in Nat : l = Len(keys)
  BY <1>3
<1>5. i \in 1 .. Len(children) /\ children[i] = c /\ Len(children) = l + 1
  <2>1. i \in 1 .. Len(children) /\ children[i] = c
    BY <1>2 DEF Child
  <2>2. children # <<>>
    BY <2>1
  <2>3. Len(N[p].children) = Len(N[p].keys) + 1
    BY <1>1, <1>2, <2>2 DEF Nest, Shaped
  <2> QED  BY <1>2, <1>4, <2>1, <2>3
<1>6. i \in 1 .. l + 1 /\ i \in Int /\ i - 1 \in Nat /\ (i - 1) + 1 = i /\ (l + 1) - 1 = l
  BY <1>5, SMT
<1>7. p # c
  <2>1. children # <<>>
    BY <1>5
  <2> QED  BY <1>2, <2>1
<1>8. p \in DOMAIN M
  BY <1>1, <1>7
<1>9. PICK new, nodes : new = M[p].keys /\ nodes = M[p].children
  OBVIOUS
<1>10. /\ nodes = Removed(children, i - 1) /\ (keys = <<>> => new = <<>>)
       /\ keys # <<>> => new = Removed(keys, Spare(keys, i))
  BY <1>2, <1>9 DEF Dropped
<1>11. nodes \in Seq(Nat) /\ Len(nodes) = l
  <2>1. children \in Seq(Nat) /\ i - 1 \in Nat /\ (i - 1) + 1 \in 1 .. Len(children)
    BY <1>3, <1>5, <1>6
  <2>2. Removed(children, i - 1) \in Seq(Nat) /\ Len(Removed(children, i - 1)) = Len(children) - 1
    BY <2>1, RemoveAtIs
  <2> QED  BY <1>5, <1>6, <1>10, <2>2
<1>12. \A j \in 1 .. l : nodes[j] = IF j <= i - 1 THEN children[j] ELSE children[j + 1]
  BY <1>5, <1>6, <1>10 DEF Removed
<1>13. keys # <<>> => Sorted(new) /\ Len(new) = l - 1 /\ Nodes(new) \subseteq Nodes(keys)
  <2> SUFFICES ASSUME keys # <<>> PROVE Sorted(new) /\ Len(new) = l - 1 /\ Nodes(new) \subseteq Nodes(keys)
    OBVIOUS
  <2>1. PICK d : d = Spare(keys, i)
    OBVIOUS
  <2>2. l # 0
    BY <1>3, <1>4
  <2>3. d \in Nat /\ d + 1 \in 1 .. Len(keys)
    BY <1>4, <1>6, <2>1, <2>2, SMT DEF Spare
  <2>4. /\ Sorted(Removed(keys, d)) /\ Len(Removed(keys, d)) = Len(keys) - 1
        /\ Nodes(Removed(keys, d)) = Nodes(keys) \ {keys[d + 1]}
    BY <1>3, <2>3, RemovedSorted
  <2> QED  BY <1>4, <1>10, <2>1, <2>4
<1>14. ASSUME NEW q, NEW j, NEW m, Child(M, q, j, m)
       PROVE  \/ q # p /\ Child(N, q, j, m)
              \/ q = p /\ j \in Int /\ j < i /\ Child(N, p, j, m)
              \/ q = p /\ j \in Int /\ j + 1 > i /\ Child(N, p, j + 1, m)
  <2>1. CASE q # p
    BY <1>1, <1>14, <2>1 DEF Child
  <2>2. CASE q = p
    <3>1. j \in 1 .. l /\ nodes[j] = m
      BY <1>9, <1>11, <1>14, <2>2 DEF Child
    <3>2. /\ j \in Int /\ j \in 1 .. l + 1 /\ j + 1 \in 1 .. l + 1
          /\ (j <= i - 1 => j < i) /\ (~ (j <= i - 1) => j + 1 > i)
      BY <1>6, <3>1, SMT
    <3> QED  BY <1>1, <1>2, <1>5, <1>12, <2>2, <3>1, <3>2 DEF Child
  <2> QED  BY <2>1, <2>2
<1>15. \A j, m : Child(N, p, j, m) => j \in Int /\ j \in 1 .. l + 1
  <2> SUFFICES ASSUME NEW j, NEW m, Child(N, p, j, m) PROVE j \in Int /\ j \in 1 .. l + 1
    OBVIOUS
  <2>1. j \in 1 .. l + 1
    BY <1>2, <1>5 DEF Child
  <2> QED  BY <2>1, SMT
<1>16. \A q, r, j, k, m : Child(N, q, j, m) /\ Child(N, r, k, m) => q = r /\ j = k
  BY DEF Nest, OneParent
<1>17. ASSUME NEW q, NEW j, NEW m, Child(M, q, j, m)
       PROVE  m \in DOMAIN M /\ q \in DOMAIN M /\ \E k : Child(N, q, k, m)
  <2>1. PICK k : Child(N, q, k, m) /\ (q = p => k # i)
    <3>1. i \in Int
      BY <1>6
    <3>2. \A j1 \in Int : (j1 < i => j1 # i) /\ (j1 + 1 > i => j1 + 1 # i)
      BY <3>1, SMT
    <3> QED  BY <1>14, <1>17, <3>2
  <2>2. m # c
    BY <1>16, <2>1
  <2>3. m \in DOMAIN N
    BY <2>1 DEF Nest, Ranked
  <2> QED  BY <1>1, <1>17, <2>1, <2>2, <2>3 DEF Child
<1>18. Ranked(M, h)
  <2>1. \A m \in DOMAIN M : h[m] \in Nat /\ (M[m].isLeaf <=> h[m] = 0)
    BY <1>1 DEF Nest, Ranked
  <2>2. ASSUME NEW q, NEW j, NEW m, Child(M, q, j, m) PROVE m \in DOMAIN M /\ h[q] = h[m] + 1
    BY <1>17, <2>2 DEF Nest, Ranked
  <2> QED  BY <2>1, <2>2, Zenon DEF Ranked
<1>19. OneParent(M)
  <2> SUFFICES ASSUME NEW q, NEW r, NEW j, NEW k, NEW m, Child(M, q, j, m), Child(M, r, k, m)
               PROVE  q = r /\ j = k
    BY Zenon DEF OneParent
  <2>1. \/ q # p /\ Child(N, q, j, m)
        \/ q = p /\ j \in Int /\ j < i /\ Child(N, p, j, m)
        \/ q = p /\ j \in Int /\ j + 1 > i /\ Child(N, p, j + 1, m)
    BY <1>14
  <2>2. \/ r # p /\ Child(N, r, k, m)
        \/ r = p /\ k \in Int /\ k < i /\ Child(N, p, k, m)
        \/ r = p /\ k \in Int /\ k + 1 > i /\ Child(N, p, k + 1, m)
    BY <1>14
  <2>3. CASE q # p
    BY <1>16, <2>1, <2>2, <2>3
  <2>4. CASE q = p
    <3>1. r = p
      BY <1>16, <2>1, <2>2, <2>4
    <3>2. PICK a, b : /\ a = b /\ j \in Int /\ k \in Int
                      /\ (j < i /\ a = j) \/ (j + 1 > i /\ a = j + 1)
                      /\ (k < i /\ b = k) \/ (k + 1 > i /\ b = k + 1)
      BY <1>16, <2>1, <2>2, <2>4, <3>1
    <3>3. j = k
      BY <1>6, <3>2, SMT
    <3> QED  BY <2>4, <3>1, <3>3
  <2> QED  BY <2>3, <2>4
<1>20. Rooted(M, root, h, {})
  <2>1. root # c
    BY RootHasNoParent DEF Nest
  <2>2. root \in DOMAIN M /\ \A m \in DOMAIN M : h[m] <= h[root]
    BY <1>1, <2>1 DEF Nest, Rooted
  <2>3. ASSUME NEW q, NEW j, NEW m \in DOMAIN M, Child(N, q, j, m) PROVE \E r, k : Child(M, r, k, m)
    <3>1. CASE q # p
      <4>1. q \in DOMAIN N /\ q # c
        <5>1. N[q].children # <<>>
          BY <2>3 DEF Child
        <5> QED  BY <2>3, <5>1 DEF Child
      <4> QED  BY <1>1, <2>3, <3>1, <4>1 DEF Child
    <3>2. CASE q = p
      <4>1. j \in Int /\ j \in 1 .. l + 1 /\ children[j] = m
        BY <1>2, <1>15, <2>3, <3>2 DEF Child
      <4>2. j # i
        BY <1>1, <1>5, <4>1
      <4>3. CASE j < i
        <5>1. j \in 1 .. l /\ j <= i - 1
          BY <1>6, <4>1, <4>3, SMT
        <5>2. nodes[j] = m
          BY <1>12, <4>1, <5>1
        <5> QED  BY <1>8, <1>9, <1>11, <5>1, <5>2 DEF Child
      <4>4. CASE ~ (j < i)
        <5>1. j - 1 \in 1 .. l /\ ~ (j - 1 <= i - 1) /\ (j - 1) + 1 = j
          BY <1>6, <4>1, <4>2, <4>4, SMT
        <5>2. nodes[j - 1] = m
          BY <1>12, <4>1, <5>1
        <5> QED  BY <1>8, <1>9, <1>11, <5>1, <5>2 DEF Child
      <4> QED  BY <4>3, <4>4
    <3> QED  BY <3>1, <3>2
  <2>4. \A m \in DOMAIN M : m # root => \E r, k : Child(M, r, k, m)
    <3> TAKE m \in DOMAIN M
    <3>1. m # root => \E q, j : Child(N, q, j, m)
      BY <1>1 DEF Nest, Rooted
    <3> QED  BY <2>3, <3>1
  <2> QED  BY <2>2, <2>4 DEF Rooted
<1>21. Routed(M, W)
  <2>1. ASSUME NEW m \in DOMAIN M
        PROVE  W[m] \in SUBSET AnyItem /\ Nodes(M[m].items) \subseteq W[m] /\ Nodes(M[m].keys) \subseteq W[m]
    <3>1. W[m] \in SUBSET AnyItem /\ Nodes(N[m].items) \subseteq W[m] /\ Nodes(N[m].keys) \subseteq W[m]
      BY <1>1 DEF Nest, Routed
    <3>2. CASE m = p
      <4>1. Nodes(new) \subseteq Nodes(keys)
        BY <1>10, <1>13
      <4> QED  BY <1>1, <1>3, <1>9, <3>1, <3>2, <4>1
    <3>3. CASE m # p
      BY <1>1, <3>1, <3>3
    <3> QED  BY <3>2, <3>3
  <2>2. ASSUME NEW q, NEW j, NEW m, Child(M, q, j, m), NEW x \in W[m]
        PROVE  x \in W[q] /\ Leads(M[q].keys, x, j)
    <3>1. CASE q # p
      <4>1. Child(N, q, j, m) /\ q \in DOMAIN M
        BY <1>14, <1>17, <2>2, <3>1
      <4> QED  BY <1>1, <2>2, <3>1, <4>1 DEF Nest, Routed
    <3>2. CASE q = p
      <4>1. PICK k : /\ x \in W[p] /\ Leads(keys, x, k)
                     /\ (k < i /\ j = k) \/ (k > i /\ j = k - 1)
        <5>1. CASE j \in Int /\ j < i /\ Child(N, p, j, m)
          BY <1>2, <2>2, <5>1 DEF Nest, Routed
        <5>2. CASE j \in Int /\ j + 1 > i /\ Child(N, p, j + 1, m)
          <6>1. x \in W[p] /\ Leads(keys, x, j + 1)
            BY <1>2, <2>2, <5>2 DEF Nest, Routed
          <6>2. j = (j + 1) - 1
            BY <5>2, SMT
          <6> QED  BY <5>2, <6>1, <6>2
        <5> QED  BY <1>14, <2>2, <3>2, <5>1, <5>2
      <4>2. keys # <<>>
        <5>1. j \in 1 .. l
          BY <1>9, <1>11, <2>2, <3>2 DEF Child
        <5>2. l # 0
          BY <5>1, SMT
        <5> QED  BY <1>4, <5>2
      <4>3. /\ i \in 1 .. Len(keys) + 1 /\ new = Removed(keys, Spare(keys, i)) /\ Len(new) = Len(keys) - 1
        BY <1>4, <1>6, <1>10, <1>13, <4>2
      <4>4. (k < i => Leads(new, x, k)) /\ (k > i => Leads(new, x, k - 1))
        BY <1>3, <4>1, <4>2, <4>3, LeadsRemoved
      <4> QED  BY <1>9, <3>2, <4>1, <4>4
    <3> QED  BY <3>1, <3>2
  <2> QED  BY <2>1, <2>2, Zenon DEF Routed
<1>22. Shaped(M)
  <2> SUFFICES ASSUME NEW m \in DOMAIN M
               PROVE  /\ Sorted(M[m].items) /\ Sorted(M[m].keys)
                      /\ IF M[m].isLeaf THEN M[m].keys = <<>> /\ M[m].children = <<>>
                         ELSE M[m].items = <<>>
                      /\ M[m].children # <<>> => Len(M[m].children) = Len(M[m].keys) + 1
    BY DEF Shaped
  <2>1. CASE m # p
    BY <1>1, <2>1 DEF Nest, Shaped
  <2>2. CASE m = p
    <3>1. ~ N[p].isLeaf
      <4>1. children # <<>>
        BY <1>5
      <4> QED  BY <1>1, <1>2, <4>1 DEF Nest, Shaped
    <3>2. Sorted(N[p].items) /\ N[p].items = <<>>
      BY <1>1, <3>1 DEF Nest, Shaped
    <3>3. CASE keys = <<>>
      <4>1. new = keys /\ nodes = <<>>
        <5>1. l = 0
          BY <1>4, <3>3
        <5> QED  BY <1>10, <1>11, <3>3, <5>1
      <4> QED  BY <1>1, <1>3, <1>9, <2>2, <3>1, <3>2, <4>1
    <3>4. CASE keys # <<>>
      <4>1. (l - 1) + 1 = l
        BY SMT
      <4> QED  BY <1>1, <1>9, <1>11, <1>13, <2>2, <3>1, <3>2, <3>4, <4>1
    <3> QED  BY <3>3, <3>4
  <2> QED  BY <2>1, <2>2
<1>23. Nest(M, root, h, W, {})
  BY <1>1, <1>18, <1>19, <1>20, <1>21, <1>22 DEF Nest
<1> QED  BY <1>2, <1>5, <1>6, <1>9, <1>11, <1>23

\* The tree with these nodes and this first leaf.
Under(t, M, head) == [With(t, M) EXCEPT !.leafHead = head]

LEMMA UnderIs ==
    ASSUME NEW t, IsTree(t), NEW M, NEW head
    PROVE  /\ IsTree(Under(t, M, head)) /\ Under(t, M, head).nodes = M
           /\ Under(t, M, head).root = t.root
           /\ Under(t, M, head).leafHead = head /\ Under(t, M, head).members = t.members
           /\ Under(t, M, head).length = t.length
<1>1. PICK s : s = With(t, M)
  OBVIOUS
<1>2. /\ IsTree(s) /\ s.nodes = M /\ s.root = t.root /\ s.members = t.members
      /\ s.length = t.length
  BY <1>1, WithIs
<1>3. Under(t, M, head) = [s EXCEPT !.leafHead = head]
  BY <1>1 DEF With, Under
<1> QED  BY <1>2, <1>3 DEF IsTree

LEMMA UnderWith ==
    ASSUME NEW t, IsTree(t), NEW M, NEW head, NEW K
    PROVE  /\ With(Under(t, M, head), K) = Under(t, K, head)
           /\ Under(t, M, t.leafHead) = With(t, M)
           /\ Under(Under(t, M, head), K, Under(t, M, head).leafHead) = Under(t, K, head)
<1>1. PICK s : s = With(t, M) /\ IsTree(s) /\ s.leafHead = t.leafHead
  BY WithIs
<1>2. [s EXCEPT !.leafHead = s.leafHead] = s
  BY <1>1 DEF IsTree
<1>3. Under(t, M, t.leafHead) = With(t, M)
  BY <1>1, <1>2 DEF Under
<1>4. PICK u : u = Under(t, M, head)
  OBVIOUS
<1>5. /\ IsTree(u) /\ u.nodes = M /\ u.root = t.root /\ u.leafHead = head
      /\ u.members = t.members /\ u.length = t.length
  BY <1>4, UnderIs
<1>6. PICK v : v = Under(t, K, head)
  OBVIOUS
<1>7. /\ IsTree(v) /\ v.nodes = K /\ v.root = t.root /\ v.leafHead = head
      /\ v.members = t.members /\ v.length = t.length
  BY <1>6, UnderIs
<1>8. PICK w : w = With(u, K)
  OBVIOUS
<1>9. /\ IsTree(w) /\ w.nodes = K /\ w.root = t.root /\ w.leafHead = head
      /\ w.members = t.members /\ w.length = t.length
  BY <1>5, <1>8, WithIs
<1>10. v = w
  BY <1>7, <1>9 DEF IsTree
<1>11. Under(u, K, u.leafHead) = With(u, K)
  <2>1. PICK x : x = With(u, K) /\ IsTree(x) /\ x.leafHead = u.leafHead
    BY <1>5, WithIs
  <2>2. [x EXCEPT !.leafHead = x.leafHead] = x
    BY <2>1 DEF IsTree
  <2> QED  BY <2>1, <2>2 DEF Under
<1> QED  BY <1>3, <1>4, <1>6, <1>8, <1>10, <1>11

\* The leaves before and after c point past it.
Unlinked(N, M, c) ==
    /\ Typed(M) /\ DOMAIN M = DOMAIN N
    /\ \A m \in DOMAIN N :
          /\ M[m].isLeaf = N[m].isLeaf /\ M[m].items = N[m].items /\ M[m].keys = N[m].keys
          /\ M[m].children = N[m].children
          /\ M[m].next = IF m = N[c].prev THEN N[c].next ELSE N[m].next
          /\ M[m].prev = IF m = N[c].next THEN N[c].prev ELSE N[m].prev
          /\ m # N[c].prev /\ m # N[c].next => M[m] = N[m]

\* The tree once the leaf n points on to another.
Forward(t, n, to) == [t EXCEPT !.nodes[n].next = to]

LEMMA ForwardIs ==
    ASSUME NEW t, IsTree(t), Typed(t.nodes), NEW n \in DOMAIN t.nodes, NEW to \in Pointer,
           NEW s, s = Forward(t, n, to)
    PROVE  \E M : /\ s = With(t, M) /\ Typed(M) /\ DOMAIN M = DOMAIN t.nodes
                  /\ M = Put(t.nodes, n, [t.nodes[n] EXCEPT !.next = to])
<1>1. PICK N : N = t.nodes
  OBVIOUS
<1>2. n \in DOMAIN N /\ N = [x \in DOMAIN N |-> N[x]] /\ n \in Nat /\ N[n] \in AnyNode
  BY <1>1 DEF Typed
<1>3. PICK node : node = [N[n] EXCEPT !.next = to]
  OBVIOUS
<1>4. s = With(t, [N EXCEPT ![n] = node])
  BY <1>1, <1>3 DEF With, Forward
<1>5. [N EXCEPT ![n] = node] = Put(N, n, node)
  BY <1>2, EditNode
<1>6. node \in AnyNode
  BY <1>2, <1>3 DEF AnyNode
<1>7. Typed(Put(N, n, node)) /\ DOMAIN Put(N, n, node) = DOMAIN N
  <2>1. Typed(N)
    BY <1>1
  <2>2. Typed(Put(N, n, node)) /\ DOMAIN Put(N, n, node) = DOMAIN N \union {n}
    BY <1>2, <1>6, <2>1, TypedPut
  <2> QED  BY <1>2, <2>2
<1> QED  BY <1>1, <1>3, <1>4, <1>5, <1>7

LEMMA UnchainIs ==
    ASSUME NEW t, IsTree(t), Typed(t.nodes), NEW c \in DOMAIN t.nodes,
           t.nodes[c].next \in DOMAIN t.nodes \union {NoNode},
           t.nodes[c].prev \in DOMAIN t.nodes \union {NoNode}
    PROVE  \E M : /\ Unchain(t, c) = Under(t, M, IF t.nodes[c].prev = NoNode THEN t.nodes[c].next
                                                ELSE t.leafHead)
                  /\ Unlinked(t.nodes, M, c)
<1>1. PICK N, left, right : N = t.nodes /\ left = N[c].prev /\ right = N[c].next
  OBVIOUS
<1>2. /\ Typed(N) /\ c \in DOMAIN N /\ left \in DOMAIN N \union {NoNode} /\ right \in DOMAIN N \union {NoNode}
      /\ left \in Pointer /\ right \in Pointer /\ NoNode \notin DOMAIN N
  <2>1. Typed(N) /\ c \in DOMAIN N
    BY <1>1
  <2>2. NoNode \notin DOMAIN N
    BY <2>1, BPlusTreeAssumption DEF Typed
  <2> QED  BY <1>1, <2>1, <2>2, NodeParts
<1>3. PICK back : back = IF left = NoNode THEN [t EXCEPT !.leafHead = right]
                         ELSE [t EXCEPT !.nodes[left].next = right]
  OBVIOUS
<1>4. Unchain(t, c) = PointBack(back, right, left)
  BY <1>1, <1>3 DEF Unchain
<1>5. PICK A, head : /\ back = Under(t, A, head) /\ Typed(A) /\ DOMAIN A = DOMAIN N
                     /\ head = IF left = NoNode THEN right ELSE t.leafHead
                     /\ \A m \in DOMAIN N : m # left => A[m] = N[m]
                     /\ left # NoNode => A[left] = [N[left] EXCEPT !.next = right]
  <2>1. CASE left = NoNode
    <3>1. back = [t EXCEPT !.leafHead = right]
      BY <1>3, <2>1
    <3>2. With(t, N) = t
      BY <1>1, WithSame
    <3>3. back = Under(t, N, right)
      BY <3>1, <3>2 DEF Under
    <3> QED  BY <1>2, <2>1, <3>3
  <2>2. CASE left # NoNode
    <3>1. left \in DOMAIN N /\ left \in DOMAIN t.nodes
      BY <1>1, <1>2, <2>2
    <3>2. back = Forward(t, left, right) /\ Typed(t.nodes) /\ right \in Pointer
      BY <1>1, <1>2, <1>3, <2>2 DEF Forward
    <3>3. PICK A : /\ back = With(t, A) /\ Typed(A) /\ DOMAIN A = DOMAIN t.nodes
                   /\ A = Put(t.nodes, left, [t.nodes[left] EXCEPT !.next = right])
      BY <3>1, <3>2, ForwardIs
    <3>4. back = Under(t, A, t.leafHead)
      BY <3>3, UnderWith
    <3>5. /\ \A m \in DOMAIN N : m # left => A[m] = N[m]
          /\ A[left] = [N[left] EXCEPT !.next = right]
      BY <1>1, <3>1, <3>3 DEF Put
    <3>6. Typed(A) /\ DOMAIN A = DOMAIN N
      BY <1>1, <3>3
    <3> QED  BY <2>2, <3>4, <3>5, <3>6
  <2> QED  BY <2>1, <2>2
<1>6. IsTree(back) /\ back.nodes = A /\ back.leafHead = head
  BY <1>5, UnderIs
<1>7. PICK M : /\ PointBack(back, right, left) = With(back, M) /\ Typed(M) /\ DOMAIN M = DOMAIN A
               /\ M = IF right = NoNode THEN A ELSE Put(A, right, [A[right] EXCEPT !.prev = left])
  <2>1. Typed(back.nodes) /\ right \in DOMAIN back.nodes \union {NoNode} /\ left \in Pointer
    BY <1>2, <1>5, <1>6
  <2>2. \E M : /\ PointBack(back, right, left) = With(back, M) /\ Typed(M)
               /\ DOMAIN M = DOMAIN back.nodes
               /\ M = IF right = NoNode THEN back.nodes
                      ELSE Put(back.nodes, right, [back.nodes[right] EXCEPT !.prev = left])
    BY <1>6, <2>1, PointBackIs
  <2> QED  BY <1>6, <2>2
<1>8. Unchain(t, c) = Under(t, M, head)
  BY <1>4, <1>5, <1>7, UnderWith
<1>9. \A m \in DOMAIN A : m # right => M[m] = A[m]
  BY <1>7 DEF Put
<1>10. right # NoNode => M[right] = [A[right] EXCEPT !.prev = left]
  BY <1>2, <1>5, <1>7 DEF Put
<1>11. ASSUME NEW m \in DOMAIN N
       PROVE  /\ A[m].isLeaf = N[m].isLeaf /\ A[m].items = N[m].items /\ A[m].keys = N[m].keys
              /\ A[m].children = N[m].children
              /\ A[m].next = IF m = left THEN right ELSE N[m].next
              /\ A[m].prev = N[m].prev
              /\ A[m] \in AnyNode
  <2>1. N[m] \in AnyNode /\ A[m] \in AnyNode
    BY <1>2, <1>5 DEF Typed
  <2>2. CASE m # left
    BY <1>5, <2>1, <2>2
  <2>3. CASE m = left
    <3>1. A[m] = [N[m] EXCEPT !.next = right]
      BY <1>2, <1>5, <2>3
    <3> QED  BY <2>1, <2>3, <3>1 DEF AnyNode
  <2> QED  BY <2>2, <2>3
<1>12. ASSUME NEW m \in DOMAIN N
       PROVE  /\ M[m].isLeaf = A[m].isLeaf /\ M[m].items = A[m].items /\ M[m].keys = A[m].keys
              /\ M[m].children = A[m].children /\ M[m].next = A[m].next
              /\ M[m].prev = IF m = right THEN left ELSE A[m].prev
              /\ m # left /\ m # right => M[m] = N[m]
  <2>1. A[m] \in AnyNode
    BY <1>11
  <2>2. CASE m # right
    BY <1>5, <1>9, <2>2
  <2>3. CASE m = right
    <3>1. M[m] = [A[m] EXCEPT !.prev = left]
      BY <1>2, <1>10, <2>3
    <3> QED  BY <2>1, <2>3, <3>1 DEF AnyNode
  <2> QED  BY <2>2, <2>3
<1>13. Unlinked(N, M, c)
  <2>1. Typed(M) /\ DOMAIN M = DOMAIN N
    BY <1>5, <1>7
  <2>2. ASSUME NEW m \in DOMAIN N
        PROVE  /\ M[m].isLeaf = N[m].isLeaf /\ M[m].items = N[m].items /\ M[m].keys = N[m].keys
               /\ M[m].children = N[m].children
               /\ M[m].next = IF m = left THEN right ELSE N[m].next
               /\ M[m].prev = IF m = right THEN left ELSE N[m].prev
               /\ m # left /\ m # right => M[m] = N[m]
    BY <1>11, <1>12
  <2> QED  BY <1>1, <2>1, <2>2 DEF Unlinked
<1> QED  BY <1>1, <1>5, <1>8, <1>13

\* All nodes but c.
Without(N, c) == [x \in DOMAIN N \ {c} |-> N[x]]

LEMMA WithoutIs ==
    ASSUME NEW N, Typed(N), NEW c
    PROVE  /\ Typed(Without(N, c)) /\ DOMAIN Without(N, c) = DOMAIN N \ {c}
           /\ \A m \in DOMAIN N : m # c => Without(N, c)[m] = N[m]
<1>1. PICK M : M = Without(N, c)
  OBVIOUS
<1>2. /\ DOMAIN M = DOMAIN N \ {c} /\ M = [x \in DOMAIN M |-> M[x]]
      /\ \A m \in DOMAIN N : m # c => M[m] = N[m]
  BY <1>1 DEF Without
<1>3. \A m \in DOMAIN M : M[m] \in AnyNode
  BY <1>2 DEF Typed
<1>4. M \in [DOMAIN M -> AnyNode]
  BY <1>2, <1>3
<1>5. DOMAIN M \in SUBSET Nat /\ IsFiniteSet(DOMAIN M)
  BY <1>2, FS_Subset DEF Typed
<1> QED  BY <1>1, <1>2, <1>4, <1>5 DEF Typed

LEMMA FreeIs ==
    ASSUME NEW t, IsTree(t), NEW c
    PROVE  Free(t, c) = With(t, Without(t.nodes, c))
  BY DEF Free, With, Without, IsTree

LEMMA DropIs ==
    ASSUME NEW t, IsTree(t), Typed(t.nodes), NEW n, NEW i, NEW c, Child(t.nodes, n, i, c), n # c,
           Len(t.nodes[n].children) = Len(t.nodes[n].keys) + 1
    PROVE  \E M : Free(DropChild(t, n, i), c) = With(t, M) /\ Dropped(t.nodes, M, n, i, c)
<1>1. PICK N : N = t.nodes
  OBVIOUS
<1>2. PICK keys, children : keys = N[n].keys /\ children = N[n].children
  OBVIOUS
<1>3. n \in DOMAIN N /\ i \in 1 .. Len(children) /\ Typed(N)
  BY <1>1, <1>2 DEF Child
<1>4. keys \in Seq(AnyItem) /\ children \in Seq(Nat) /\ Len(keys) \in Nat
  BY <1>2, <1>3, NodeParts
<1>5. PICK l \in Nat : l = Len(keys) /\ Len(children) = l + 1
  BY <1>1, <1>2, <1>4
<1>6. i \in 1 .. l + 1 /\ i - 1 \in Nat /\ (i - 1) + 1 = i
  BY <1>3, <1>5, SMT
<1>7. PICK p : p = i - 1
  OBVIOUS
<1>8. p \in Nat /\ p + 1 \in 1 .. Len(children) /\ p + 1 = i
  BY <1>3, <1>6, <1>7
<1>9. PICK b : b = Removed(children, p)
  OBVIOUS
<1>10. b \in Seq(Nat) /\ Seqs!RemoveAt(children, i) = b
  <2>1. Seqs!RemoveAt(children, p + 1) = Removed(children, p) /\ Removed(children, p) \in Seq(Nat)
    BY <1>4, <1>8, RemoveAtIs
  <2> QED  BY <1>8, <1>9, <2>1
<1>11. PICK a : a = IF i <= Len(keys) THEN Seqs!RemoveAt(keys, i) ELSE SubSeq(keys, 1, Len(keys) - 1)
  OBVIOUS
<1>12. a \in Seq(AnyItem) /\ a = IF keys = <<>> THEN <<>> ELSE Removed(keys, Spare(keys, i))
  <2>1. CASE i <= l
    <3>1. p + 1 \in 1 .. Len(keys)
      BY <1>5, <1>6, <1>8, <2>1, SMT
    <3>2. Seqs!RemoveAt(keys, p + 1) = Removed(keys, p) /\ Removed(keys, p) \in Seq(AnyItem)
      BY <1>4, <1>8, <3>1, RemoveAtIs
    <3>3. Spare(keys, i) = p
      BY <1>5, <1>7, <2>1 DEF Spare
    <3>4. keys # <<>>
      <4>1. l # 0
        BY <1>6, <2>1, SMT
      <4> QED  BY <1>5, <4>1
    <3> QED  BY <1>5, <1>8, <1>11, <2>1, <3>2, <3>3, <3>4
  <2>2. CASE ~ (i <= l)
    <3>1. a = SubSeq(keys, 1, l - 1)
      BY <1>5, <1>11, <2>2
    <3>2. CASE keys = <<>>
      <4>1. SubSeq(<<>>, 1, 0 - 1) = <<>>
        BY SMT
      <4>2. l = 0
        BY <1>5, <3>2
      <4>3. <<>> \in Seq(AnyItem)
        OBVIOUS
      <4> QED  BY <3>1, <3>2, <4>1, <4>2, <4>3
    <3>3. CASE keys # <<>>
      <4>1. PICK d : d = l - 1
        OBVIOUS
      <4>2. d \in Nat /\ d + 1 \in 1 .. l /\ d + 1 = l
        <5>1. l # 0
          BY <1>4, <1>5, <3>3
        <5> QED  BY <4>1, <5>1, SMT
      <4>3. /\ Seqs!RemoveAt(keys, d + 1) = Removed(keys, d) /\ Removed(keys, d) \in Seq(AnyItem)
            /\ Len(Removed(keys, d)) = Len(keys) - 1
        BY <1>4, <1>5, <4>2, RemoveAtIs
      <4>4. PICK one : one = 1
        OBVIOUS
      <4>5. one \in Nat \ {0} /\ d <= Len(keys) /\ one <= d + 1 /\ d - one + 1 = d
        BY <1>5, <4>2, <4>4, SMT
      <4>6. /\ a \in Seq(AnyItem) /\ Len(a) = d - one + 1
            /\ \A k \in 1 .. d - one + 1 : a[k] = keys[one + k - 1]
        <5>1. a = Part(keys, one, d)
          BY <3>1, <4>1, <4>4 DEF Part
        <5>2. /\ one \in Nat \ {0} /\ d \in Nat /\ d <= Len(keys) /\ one <= d + 1 /\ a = Part(keys, one, d)
              /\ keys \in Seq(AnyItem)
          BY <1>4, <4>2, <4>5, <5>1
        <5>3. a \in Seq(AnyItem)
          BY <5>2, PartIs
        <5>4. Len(a) = d - one + 1
          BY <5>2, PartIs
        <5>5. \A k \in 1 .. d - one + 1 : a[k] = keys[one + k - 1]
          BY <5>2, SMTT(30) DEF Part
        <5> QED  BY <5>3, <5>4, <5>5
      <4>7. a = [k \in 1 .. d |-> keys[k]]
        <5>1. \A k \in 1 .. d : one + k - 1 = k
          BY <4>4, SMT
        <5>2. a = [k \in 1 .. d |-> a[k]]
          BY <4>5, <4>6
        <5> QED  BY <4>5, <4>6, <5>1, <5>2
      <4>8. Removed(keys, d) = [k \in 1 .. d |-> keys[k]]
        <5>1. Removed(keys, d) = [k \in 1 .. d |-> IF k <= d THEN keys[k] ELSE keys[k + 1]]
          BY <1>5, <4>1 DEF Removed
        <5>2. \A k \in 1 .. d : k <= d
          BY <4>2, SMT
        <5> QED  BY <5>1, <5>2
      <4>9. Spare(keys, i) = d
        BY <1>5, <2>2, <4>1 DEF Spare
      <4> QED  BY <3>3, <4>6, <4>7, <4>8, <4>9
    <3> QED  BY <3>2, <3>3
  <2> QED  BY <2>1, <2>2
<1>13. DropChild(t, n, i) = Rekeyed(t, n, a, b)
  <2>1. DropChild(t, n, i) = [t EXCEPT !.nodes[n].children = b, !.nodes[n].keys = a]
    BY <1>1, <1>2, <1>10, <1>11 DEF DropChild
  <2>2. N[n] \in AnyNode /\ N = [x \in DOMAIN N |-> N[x]]
    BY <1>3 DEF Typed
  <2>3. [t EXCEPT !.nodes[n].children = b, !.nodes[n].keys = a]
        = With(t, [N EXCEPT ![n].children = b, ![n].keys = a])
    BY <1>1 DEF With
  <2>4. Rekeyed(t, n, a, b) = With(t, [N EXCEPT ![n].keys = a, ![n].children = b])
    BY <1>1 DEF With, Rekeyed
  <2>5. [N EXCEPT ![n].children = b, ![n].keys = a] = [N EXCEPT ![n].keys = a, ![n].children = b]
    BY <1>3, <2>2 DEF AnyNode
  <2> QED  BY <2>1, <2>3, <2>4, <2>5
<1>14. PICK A : /\ Rekeyed(t, n, a, b) = With(t, A) /\ Typed(A)
                /\ DOMAIN A = DOMAIN t.nodes /\ \A m \in DOMAIN A : m # n => A[m] = t.nodes[m]
                /\ A[n].keys = a /\ A[n].children = b
                /\ A[n].isLeaf = t.nodes[n].isLeaf /\ A[n].items = t.nodes[n].items
                /\ A[n].next = t.nodes[n].next /\ A[n].prev = t.nodes[n].prev
  <2>1. /\ IsTree(t) /\ Typed(t.nodes) /\ n \in DOMAIN t.nodes
        /\ a \in Seq(AnyItem) /\ b \in Seq(Nat)
    BY <1>1, <1>3, <1>10, <1>12
  <2> QED  BY <2>1, RekeyedIs
<1>15. PICK M : M = Without(A, c)
  OBVIOUS
<1>16. Free(DropChild(t, n, i), c) = With(t, M)
  <2>1. PICK s : s = With(t, A)
    OBVIOUS
  <2>2. IsTree(s) /\ s.nodes = A
    BY <2>1, WithIs
  <2>3. Free(s, c) = With(s, M)
    BY <1>15, <2>2, FreeIs
  <2>4. With(s, M) = With(t, M)
    BY <2>1, WithTwice
  <2> QED  BY <1>13, <1>14, <2>1, <2>3, <2>4
<1>17. /\ Typed(M) /\ DOMAIN M = DOMAIN A \ {c} /\ \A m \in DOMAIN A : m # c => M[m] = A[m]
  <2>1. Typed(A)
    BY <1>14
  <2>2. /\ Typed(Without(A, c)) /\ DOMAIN Without(A, c) = DOMAIN A \ {c}
        /\ \A m \in DOMAIN A : m # c => Without(A, c)[m] = A[m]
    BY <2>1, WithoutIs
  <2> QED  BY <1>15, <2>2
<1>18. M[n] = A[n]
  BY <1>1, <1>3, <1>14, <1>17
<1>19. Dropped(t.nodes, M, n, i, c)
  <2>1. /\ DOMAIN M = DOMAIN N \ {c} /\ \A m \in DOMAIN M : m # n => M[m] = N[m]
    BY <1>1, <1>14, <1>17
  <2>2. /\ M[n].isLeaf = N[n].isLeaf /\ M[n].items = N[n].items /\ M[n].next = N[n].next
        /\ M[n].children = Removed(N[n].children, i - 1)
    BY <1>1, <1>2, <1>7, <1>9, <1>14, <1>18
  <2>3. M[n].keys = IF N[n].keys = <<>> THEN <<>> ELSE Removed(N[n].keys, Spare(N[n].keys, i))
    BY <1>2, <1>12, <1>14, <1>18
  <2> QED  BY <1>1, <1>17, <2>1, <2>2, <2>3 DEF Dropped
<1> QED  BY <1>16, <1>19

\* The chain of the leaves without one of them.
LEMMA UnchainChain ==
    ASSUME NEW N, Typed(N), NEW head, NEW L, Chained(N, head, L), NEW c \in Leafs(N),
           NEW M, Unlinked(N, M, c),
           NEW first, first = IF N[c].prev = NoNode THEN N[c].next ELSE head,
           NEW A, Leafs(A) = Leafs(N) \ {c},
           \A m \in Leafs(A) : A[m].next = M[m].next /\ A[m].prev = M[m].prev
    PROVE  \E K : Chained(A, first, K) /\ \A W : InOrder(W, L) => InOrder(W, K)
<1>1. PICK l \in Nat : l = Len(L)
  BY ChainParts
<1>2. /\ \A i \in 1 .. l : L[i] \in Leafs(N) /\ L[i] \in DOMAIN N
      /\ \A n \in Leafs(N) : \E i \in 1 .. l : L[i] = n
      /\ \A i, k \in 1 .. l : L[i] = L[k] => i = k
      /\ head = IF l = 0 THEN NoNode ELSE L[1]
      /\ \A i \in 1 .. l : /\ N[L[i]].next = IF i = l THEN NoNode ELSE L[i + 1]
                           /\ N[L[i]].prev = IF i = 1 THEN NoNode ELSE L[i - 1]
  BY <1>1, ChainParts DEF Chained
<1>3. PICK j \in 1 .. l : L[j] = c
  BY <1>2
<1>4. NoNode \notin DOMAIN N
  BY BPlusTreeAssumption DEF Typed
<1>5. PICK s : s = [i \in 1 .. l - 1 |-> IF i < j THEN i ELSE i + 1]
  OBVIOUS
<1>6. PICK K : K = [i \in 1 .. l - 1 |-> L[s[i]]]
  OBVIOUS
<1>7. \A i \in 1 .. l - 1 : s[i] \in 1 .. l /\ s[i] # j /\ (i < j => s[i] = i) /\ (~ (i < j) => s[i] = i + 1)
  BY <1>5, SMT
<1>8. \A i, k \in 1 .. l - 1 : /\ s[i] = s[k] => i = k
                               /\ i < k => s[i] < s[k]
  BY <1>7, SMT
<1>9. \A k \in 1 .. l : k # j => \E i \in 1 .. l - 1 : s[i] = k
  <2> SUFFICES ASSUME NEW k \in 1 .. l, k # j PROVE \E i \in 1 .. l - 1 : s[i] = k
    OBVIOUS
  <2>1. CASE k < j
    <3>1. k \in 1 .. l - 1
      BY <2>1, SMT
    <3> QED  BY <1>7, <2>1, <3>1
  <2>2. CASE ~ (k < j)
    <3>1. PICK i : i = k - 1
      OBVIOUS
    <3>2. i \in 1 .. l - 1 /\ ~ (i < j) /\ i + 1 = k
      BY <2>2, <3>1, SMT
    <3> QED  BY <1>7, <3>2
  <2> QED  BY <2>1, <2>2
<1>10. \A i \in 1 .. l - 1 : K[i] = L[s[i]] /\ K[i] \in Leafs(A) /\ K[i] # c
  BY <1>2, <1>3, <1>6, <1>7
<1>11. K \in Seq(Leafs(A)) /\ DOMAIN K = 1 .. l - 1 /\ Len(K) = l - 1
  <2>1. PICK d : d = l - 1
    OBVIOUS
  <2>2. d \in Nat
    BY <1>3, <2>1, SMT
  <2>3. K = [i \in 1 .. d |-> K[i]] /\ \A i \in 1 .. d : K[i] \in Leafs(A)
    BY <1>6, <1>10, <2>1
  <2>4. K \in Seq(Leafs(A)) /\ DOMAIN K = 1 .. d /\ Len(K) = d
    BY <2>2, <2>3, SMT
  <2> QED  BY <2>1, <2>4
<1>12. Nodes(K) = Leafs(A)
  <2>1. ASSUME NEW n \in Leafs(A) PROVE n \in Nodes(K)
    <3>1. PICK k \in 1 .. l : L[k] = n
      BY <1>2
    <3>2. k # j
      BY <1>3, <3>1
    <3>3. PICK i \in 1 .. l - 1 : s[i] = k
      BY <1>9, <3>2
    <3> QED  BY <1>10, <1>11, <3>1, <3>3 DEF Nodes
  <2> QED  BY <1>10, <1>11, <2>1 DEF Nodes
<1>13. \A i, k \in 1 .. l - 1 : K[i] = K[k] => i = k
  BY <1>2, <1>7, <1>8, <1>10
<1>14. PICK left, right : left = N[c].prev /\ right = N[c].next
  OBVIOUS
<1>15. /\ left = IF j = 1 THEN NoNode ELSE L[j - 1]
       /\ right = IF j = l THEN NoNode ELSE L[j + 1]
  BY <1>2, <1>3, <1>14
<1>16. ASSUME NEW i \in 1 .. l - 1
       PROVE  A[K[i]].next = IF i = l - 1 THEN NoNode ELSE K[i + 1]
  <2>1. PICK m : m = K[i]
    OBVIOUS
  <2>2. m \in Leafs(N) /\ m \in DOMAIN N /\ m = L[s[i]]
    BY <1>2, <1>7, <1>10, <2>1
  <2>3. A[m].next = IF m = left THEN right ELSE N[m].next
    BY <1>10, <1>14, <2>1, <2>2 DEF Unlinked
  <2>4. CASE i = j - 1
    <3>1. j # 1 /\ i < j /\ s[i] = i
      <4>1. j # 1 /\ i < j
        BY <2>4, SMT
      <4> QED  BY <1>7, <4>1
    <3>2. m = left
      BY <1>15, <2>2, <2>4, <3>1
    <3>3. (i = l - 1) <=> (j = l)
      BY <2>4, SMT
    <3>4. j # l => i + 1 \in 1 .. l - 1 /\ ~ (i + 1 < j) /\ i + 1 = j
      BY <2>4, SMT
    <3>5. j # l => K[i + 1] = L[j + 1]
      BY <1>7, <1>10, <3>4
    <3> QED  BY <1>15, <2>1, <2>3, <3>2, <3>3, <3>5
  <2>5. CASE i # j - 1
    <3>1. m # left
      <4>1. CASE j = 1
        BY <1>4, <1>15, <2>2, <4>1
      <4>2. CASE j # 1
        <5>1. j - 1 \in 1 .. l /\ s[i] # j - 1
          BY <1>7, <2>5, <4>2, SMT
        <5> QED  BY <1>2, <1>7, <1>15, <2>2, <4>2, <5>1
      <4> QED  BY <4>1, <4>2
    <3>2. N[m].next = IF s[i] = l THEN NoNode ELSE L[s[i] + 1]
      BY <1>2, <1>7, <2>2
    <3>3. (s[i] = l) <=> (i = l - 1)
      <4>1. CASE i < j
        <5>1. i < l - 1 /\ i < l
          BY <2>5, <4>1, SMT
        <5>2. s[i] = i
          BY <1>7, <4>1
        <5> QED  BY <5>1, <5>2, SMT
      <4>2. CASE ~ (i < j)
        <5>1. s[i] = i + 1
          BY <1>7, <4>2
        <5> QED  BY <5>1, SMT
      <4> QED  BY <4>1, <4>2
    <3>4. ASSUME i # l - 1 PROVE i + 1 \in 1 .. l - 1 /\ s[i + 1] = s[i] + 1
      <4>1. i + 1 \in 1 .. l - 1
        BY <3>4, SMT
      <4>2. (i + 1 < j) <=> (i < j)
        BY <2>5, SMT
      <4> QED  BY <1>7, <4>1, <4>2
    <3>5. i # l - 1 => K[i + 1] = L[s[i] + 1]
      BY <1>10, <3>4
    <3> QED  BY <2>1, <2>3, <3>1, <3>2, <3>3, <3>5
  <2> QED  BY <2>4, <2>5
<1>17. ASSUME NEW i \in 1 .. l - 1
       PROVE  A[K[i]].prev = IF i = 1 THEN NoNode ELSE K[i - 1]
  <2>1. PICK m : m = K[i]
    OBVIOUS
  <2>2. m \in Leafs(N) /\ m \in DOMAIN N /\ m = L[s[i]]
    BY <1>2, <1>7, <1>10, <2>1
  <2>3. A[m].prev = IF m = right THEN left ELSE N[m].prev
    BY <1>10, <1>14, <2>1, <2>2 DEF Unlinked
  <2>4. CASE i = j
    <3>1. j # l /\ s[i] = j + 1
      <4>1. j # l /\ ~ (i < j)
        BY <2>4, SMT
      <4> QED  BY <1>7, <2>4, <4>1
    <3>2. m = right
      BY <1>15, <2>2, <3>1
    <3>3. j # 1 => i - 1 \in 1 .. l - 1 /\ i - 1 < j /\ i - 1 = j - 1
      BY <2>4, SMT
    <3>4. j # 1 => K[i - 1] = L[j - 1]
      BY <1>7, <1>10, <3>3
    <3>5. A[K[i]].prev = left
      BY <2>1, <2>3, <3>2
    <3>6. i = 1 <=> j = 1
      BY <2>4
    <3>7. j = 1 => left = NoNode
      BY <1>15
    <3>8. j # 1 => left = L[j - 1]
      BY <1>15
    <3> QED  BY <3>4, <3>5, <3>6, <3>7, <3>8, Zenon
  <2>5. CASE i # j
    <3>1. m # right
      <4>1. CASE j = l
        BY <1>4, <1>15, <2>2, <4>1
      <4>2. CASE j # l
        <5>1. j + 1 \in 1 .. l /\ s[i] # j + 1
          BY <1>7, <2>5, <4>2, SMT
        <5> QED  BY <1>2, <1>7, <1>15, <2>2, <4>2, <5>1
      <4> QED  BY <4>1, <4>2
    <3>2. N[m].prev = IF s[i] = 1 THEN NoNode ELSE L[s[i] - 1]
      BY <1>2, <1>7, <2>2
    <3>3. (s[i] = 1) <=> (i = 1)
      <4>1. CASE i < j
        BY <1>7, <4>1
      <4>2. CASE ~ (i < j)
        <5>1. s[i] = i + 1
          BY <1>7, <4>2
        <5>2. i # 1 /\ i + 1 # 1
          BY <2>5, <4>2, SMT
        <5> QED  BY <5>1, <5>2
      <4> QED  BY <4>1, <4>2
    <3>4. ASSUME i # 1 PROVE i - 1 \in 1 .. l - 1 /\ s[i - 1] = s[i] - 1
      <4>1. i - 1 \in 1 .. l - 1
        BY <3>4, SMT
      <4>2. (i - 1 < j) <=> (i < j)
        BY <2>5, SMT
      <4>3. i - 1 + 1 = i /\ i + 1 - 1 = i
        BY SMT
      <4> QED  BY <1>7, <4>1, <4>2, <4>3
    <3>5. i # 1 => K[i - 1] = L[s[i] - 1]
      BY <1>10, <3>4
    <3> QED  BY <2>1, <2>3, <3>1, <3>2, <3>3, <3>5
  <2> QED  BY <2>4, <2>5
<1>18. first = IF l - 1 = 0 THEN NoNode ELSE K[1]
  <2>1. CASE j = 1
    <3>1. first = right
      BY <1>14, <1>15, <2>1
    <3>2. (j = l) <=> (l - 1 = 0)
      BY <2>1, SMT
    <3>3. l - 1 # 0 => 1 \in 1 .. l - 1 /\ ~ (1 < j)
      BY <2>1, SMT
    <3>4. l - 1 # 0 => K[1] = L[j + 1]
      BY <1>7, <1>10, <2>1, <3>3
    <3> QED  BY <1>15, <3>1, <3>2, <3>4
  <2>2. CASE j # 1
    <3>1. l # 0 /\ l - 1 # 0 /\ 1 \in 1 .. l - 1 /\ 1 < j /\ j - 1 \in 1 .. l
      BY <2>2, SMT
    <3>2. left # NoNode
      BY <1>2, <1>4, <1>15, <2>2, <3>1
    <3>3. first = L[1]
      BY <1>2, <1>14, <3>1, <3>2
    <3>4. K[1] = L[1]
      BY <1>7, <1>10, <3>1
    <3> QED  BY <3>1, <3>3, <3>4
  <2> QED  BY <2>1, <2>2
<1>19. Chained(A, first, K)
  BY <1>11, <1>12, <1>13, <1>16, <1>17, <1>18 DEF Chained
<1>20. ASSUME NEW W, InOrder(W, L) PROVE InOrder(W, K)
  <2> SUFFICES ASSUME NEW i \in 1 .. l - 1, NEW k \in 1 .. l - 1, i < k
               PROVE  Below(W[K[i]], W[K[k]])
    BY <1>11 DEF InOrder
  <2>1. s[i] \in 1 .. l /\ s[k] \in 1 .. l /\ s[i] < s[k]
    BY <1>7, <1>8
  <2>2. Below(W[L[s[i]]], W[L[s[k]]])
    BY <1>1, <1>20, <2>1 DEF InOrder
  <2> QED  BY <1>10, <2>2
<1> QED  BY <1>19, <1>20

-----------------------------------------------------------------------------
(* Deletion: from a node down, and back up                                   *)

\* No node is over its size and only leaves are chained; nodes may be empty.
Slim(N) ==
    \A m \in DOMAIN N : IF N[m].isLeaf THEN Len(N[m].items) < Order
                        ELSE Len(N[m].children) <= Order /\ N[m].next = NoNode

\* No node but one of these is empty.
NoneEmptyBut(N, empty) == \A m \in DOMAIN N : m \notin empty => ~ IsEmpty(N[m])

\* One step of the recursion of deleteItem: below is what it returned for the child.
DeleteStep(t, item, n, below) ==
    LET node == t.nodes[n] IN
    IF node.isLeaf
    THEN LET i == Place(node.items, item) IN
         IF i <= Len(node.items) /\ node.items[i] = item
         THEN [tree |-> [t EXCEPT !.nodes[n].items = Seqs!RemoveAt(@, i)], removed |-> TRUE]
         ELSE [tree |-> t, removed |-> FALSE]
    ELSE LET i == Branch(node.keys, item)
             child == node.children[i]
             s == below.tree
         IN IF ~ below.removed \/ ~ IsEmpty(s.nodes[child]) THEN below
            ELSE [below EXCEPT !.tree =
                     Free(DropChild(IF s.nodes[child].isLeaf THEN Unchain(s, child) ELSE s,
                                    n, i), child)]

\* What the deletion of x at node n makes of nodes N with the leaves W orders: the
\* nodes above n are as they were, x is in no leaf, and no node but n can be empty.
Shorter(N, root, h, W, x, n, M, head, K) ==
    /\ n \in DOMAIN M /\ DOMAIN M \subseteq DOMAIN N
    /\ \A m \in DOMAIN N : h[m] > h[n] => m \in DOMAIN M /\ M[m] = N[m]
    /\ Nest(M, root, h, W, {}) /\ Chained(M, head, K) /\ InOrder(W, K) /\ Slim(M)
    /\ NoneEmptyBut(M, {n}) /\ \A y : Holds(M, y) <=> Holds(N, y) /\ y # x

\* What deleteItem returns at n when it finds x.
Shrunk(t, h, W, x, n, r) ==
    \E M, head, K : /\ r = [tree |-> Under(t, M, head), removed |-> TRUE]
                    /\ Shorter(t.nodes, t.root, h, W, x, n, M, head, K)

\* Nodes without an empty one, in order.
Whole(N, root, head, h, W, L) ==
    /\ Nest(N, root, h, W, {}) /\ Chained(N, head, L) /\ InOrder(W, L) /\ Slim(N)
    /\ NoneEmptyBut(N, {})

\* Place finds an item that is there.
LEMMA ItemPlace ==
    ASSUME NEW list, Sorted(list), NEW x \in AnyItem, x \in Nodes(list)
    PROVE  \E p \in Nat : /\ p + 1 \in 1 .. Len(list) /\ list[p + 1] = x /\ Place(list, x) = p + 1
                          /\ Before(list, x, p)
<1>1. PICK n \in Nat : n = Len(list)
  BY ListParts
<1>2. PICK k \in 1 .. n : list[k] = x
  BY <1>1 DEF Nodes
<1>3. PICK p : p = Cut(list, x)
  OBVIOUS
<1>4. Before(list, x, p)
  BY <1>3, CutIs
<1>5. p \in 0 .. n /\ \A i \in 1 .. n : less(list[i], x) <=> i <= p
  BY <1>1, <1>4 DEF Before
<1>6. ~ (k <= p)
  BY <1>2, <1>5, LessOrder
<1>7. ~ (p + 1 < k)
  <2> SUFFICES ASSUME p + 1 < k PROVE FALSE
    OBVIOUS
  <2>1. p + 1 \in 1 .. n /\ ~ (p + 1 <= p)
    BY <1>5, SMT
  <2>2. less(list[p + 1], list[k])
    BY <1>1, <2>1 DEF Sorted
  <2> QED  BY <1>2, <1>5, <2>1, <2>2
<1>8. k = p + 1 /\ p \in Nat
  BY <1>5, <1>6, <1>7, SMT
<1>9. Place(list, x) = p + 1
  BY <1>4, PlaceIs
<1> QED  BY <1>1, <1>2, <1>4, <1>8, <1>9

\* An item is in one leaf only, and that leaf is where its scope is.
LEMMA OneLeaf ==
    ASSUME NEW N, NEW root, NEW h, NEW W, Nest(N, root, h, W, {}),
           NEW n \in DOMAIN N, N[n].isLeaf, NEW x \in W[n],
           NEW m \in DOMAIN N, x \in Nodes(N[m].items)
    PROVE  m = n
<1>1. N[m].isLeaf
  <2>1. Nodes(<<>>) = {}
    BY DEF Nodes
  <2> QED  BY <2>1 DEF Nest, Shaped
<1>2. h[m] = 0 /\ h[n] = 0 /\ x \in W[m] /\ x \in AnyItem
  BY <1>1 DEF Nest, Ranked, Routed
<1>3. SUFFICES ASSUME m # n PROVE FALSE
  OBVIOUS
<1>4. Below(W[m], W[n]) \/ Below(W[n], W[m])
  BY <1>2, <1>3, Separated
<1>5. less(x, x)
  BY <1>2, <1>4 DEF Below
<1> QED  BY <1>2, <1>5, LessOrder

\* The deletion at a leaf.
LEMMA DeleteLeaf ==
    ASSUME NEW t, IsTree(t), NEW h, NEW W, NEW L, Whole(t.nodes, t.root, t.leafHead, h, W, L),
           NEW n \in DOMAIN t.nodes, t.nodes[n].isLeaf, NEW x \in AnyItem,
           x \in Nodes(t.nodes[n].items), NEW below
    PROVE  Shrunk(t, h, W, x, n, DeleteStep(t, x, n, below))
<1>1. PICK N, root, head : N = t.nodes /\ root = t.root /\ head = t.leafHead
  OBVIOUS
<1>2. /\ Nest(N, root, h, W, {}) /\ Chained(N, head, L) /\ InOrder(W, L) /\ Slim(N) /\ Typed(N)
      /\ n \in DOMAIN N /\ N[n].isLeaf /\ NoneEmptyBut(N, {})
  BY <1>1 DEF Whole, Nest
<1>i. PICK items : items = N[n].items
  OBVIOUS
<1>3. PICK l \in Nat : items = N[n].items /\ l = Len(items)
  BY <1>2, <1>i, NodeParts
<1>4. /\ Sorted(items) /\ items \in Seq(AnyItem) /\ Nodes(items) \subseteq W[n]
      /\ l < Order /\ x \in Nodes(items) /\ x \in W[n]
  BY <1>1, <1>2, <1>3 DEF Nest, Shaped, Routed, Sorted, Slim
<1>5. PICK p \in Nat : p + 1 \in 1 .. l /\ items[p + 1] = x /\ Place(items, x) = p + 1
  BY <1>3, <1>4, ItemPlace
<1>6. PICK new : new = Removed(items, p)
  OBVIOUS
<1>7. Sorted(new) /\ Len(new) = l - 1 /\ Nodes(new) = Nodes(items) \ {x} /\ Seqs!RemoveAt(items, p + 1) = new
  <2>1. Sorted(items) /\ p \in Nat /\ p + 1 \in 1 .. Len(items) /\ items \in Seq(AnyItem)
    BY <1>3, <1>4, <1>5
  <2>2. /\ Sorted(Removed(items, p)) /\ Len(Removed(items, p)) = Len(items) - 1
        /\ Nodes(Removed(items, p)) = Nodes(items) \ {items[p + 1]}
    BY <2>1, RemovedSorted
  <2>3. Seqs!RemoveAt(items, p + 1) = Removed(items, p)
    BY <2>1, RemoveAtIs
  <2> QED  BY <1>3, <1>5, <1>6, <2>2, <2>3
<1>8. PICK A : A = Put(N, n, [N[n] EXCEPT !.items = new])
  OBVIOUS
<1>9. PICK s : s = [t EXCEPT !.nodes[n].items = Seqs!RemoveAt(@, p + 1)]
  OBVIOUS
<1>10. s = With(t, A)
  <2>1. s = [t EXCEPT !.nodes[n].items = new]
    BY <1>1, <1>3, <1>7, <1>9
  <2>2. Typed(t.nodes)
    BY <1>1, <1>2
  <2>3. s = With(t, Put(t.nodes, n, [t.nodes[n] EXCEPT !.items = new]))
    BY <2>1, <2>2, RefillIs
  <2> QED  BY <1>1, <1>8, <2>3
<1>11. s = Under(t, A, head)
  BY <1>1, <1>10, UnderWith
<1>12. DeleteStep(t, x, n, below) = [tree |-> Under(t, A, head), removed |-> TRUE]
  <2>1. p + 1 <= Len(items)
    BY <1>3, <1>5, SMT
  <2>2. DeleteStep(t, x, n, below) = [tree |-> s, removed |-> TRUE]
    BY <1>1, <1>2, <1>3, <1>5, <1>9, <2>1 DEF DeleteStep
  <2> QED  BY <1>11, <2>2
<1>13. Nest(A, root, h, W, {}) /\ Chained(A, head, L)
  <2>1. Nodes(new) \subseteq W[n]
    BY <1>4, <1>7
  <2> QED  BY <1>2, <1>7, <1>8, <2>1, Refill
<1>14. /\ DOMAIN A = DOMAIN N /\ A[n].items = new /\ A[n].isLeaf /\ n \in DOMAIN A
       /\ \A m \in DOMAIN N : m # n => A[m] = N[m]
  <2>1. N[n] \in AnyNode
    BY <1>2 DEF Typed
  <2>2. [N[n] EXCEPT !.items = new].items = new /\ [N[n] EXCEPT !.items = new].isLeaf = N[n].isLeaf
    BY <2>1 DEF AnyNode
  <2> QED  BY <1>2, <1>8, <2>2 DEF Put
<1>15. Slim(A)
  <2> SUFFICES ASSUME NEW m \in DOMAIN A
               PROVE  IF A[m].isLeaf THEN Len(A[m].items) < Order
                      ELSE Len(A[m].children) <= Order /\ A[m].next = NoNode
    BY DEF Slim
  <2>1. CASE m = n
    <3>1. l - 1 < Order
      BY <1>4, BPlusTreeAssumption, SMT
    <3> QED  BY <1>7, <1>14, <2>1, <3>1
  <2>2. CASE m # n
    <3>1. A[m] = N[m] /\ m \in DOMAIN N
      BY <1>14, <2>2
    <3> QED  BY <1>2, <3>1 DEF Slim
  <2> QED  BY <2>1, <2>2
<1>16. NoneEmptyBut(A, {n})
  BY <1>2, <1>14 DEF NoneEmptyBut
<1>17. \A m \in DOMAIN N : h[m] > h[n] => m \in DOMAIN A /\ A[m] = N[m]
  <2> SUFFICES ASSUME NEW m \in DOMAIN N, h[m] > h[n] PROVE A[m] = N[m]
    BY <1>14
  <2>1. m # n
    <3>1. h[n] \in Nat
      BY <1>2 DEF Nest, Ranked
    <3>2. ~ (h[n] > h[n])
      BY <3>1, SMT
    <3> QED  BY <3>2
  <2> QED  BY <1>14, <2>1
<1>18. \A y : Holds(A, y) <=> Holds(N, y) /\ y # x
  <2>1. ASSUME NEW m \in DOMAIN N, x \in Nodes(N[m].items) PROVE m = n
    BY <1>2, <1>4, <2>1, OneLeaf
  <2> SUFFICES ASSUME NEW y PROVE Holds(A, y) <=> Holds(N, y) /\ y # x
    OBVIOUS
  <2>2. y \in Nodes(new) <=> y \in Nodes(items) /\ y # x
    BY <1>7
  <2>3. ASSUME Holds(A, y) PROVE Holds(N, y) /\ y # x
    <3>1. PICK m \in DOMAIN N : y \in Nodes(A[m].items)
      BY <1>14, <2>3 DEF Holds
    <3>2. CASE m = n
      BY <1>2, <1>3, <1>14, <2>2, <3>1, <3>2 DEF Holds
    <3>3. CASE m # n
      BY <1>14, <2>1, <3>1, <3>3 DEF Holds
    <3> QED  BY <3>2, <3>3
  <2>4. ASSUME Holds(N, y), y # x PROVE Holds(A, y)
    <3>1. PICK m \in DOMAIN N : y \in Nodes(N[m].items)
      BY <2>4 DEF Holds
    <3> QED  BY <1>3, <1>14, <2>2, <2>4, <3>1 DEF Holds
  <2> QED  BY <2>3, <2>4
<1>19. Shorter(N, root, h, W, x, n, A, head, L)
  BY <1>2, <1>13, <1>14, <1>15, <1>16, <1>17, <1>18 DEF Shorter
<1> QED  BY <1>1, <1>12, <1>19 DEF Shrunk

LEMMA UnderTwice ==
    ASSUME NEW t, IsTree(t), NEW M, NEW a, NEW K, NEW b
    PROVE  Under(Under(t, M, a), K, b) = Under(t, K, b)
<1>1. PICK u : u = Under(t, M, a)
  OBVIOUS
<1>2. /\ IsTree(u) /\ u.root = t.root /\ u.members = t.members /\ u.length = t.length
  BY <1>1, UnderIs
<1>3. PICK v : v = Under(u, K, b)
  OBVIOUS
<1>4. /\ IsTree(v) /\ v.nodes = K /\ v.root = t.root /\ v.leafHead = b
      /\ v.members = t.members /\ v.length = t.length
  BY <1>2, <1>3, UnderIs
<1>5. PICK w : w = Under(t, K, b)
  OBVIOUS
<1>6. /\ IsTree(w) /\ w.nodes = K /\ w.root = t.root /\ w.leafHead = b
      /\ w.members = t.members /\ w.length = t.length
  BY <1>5, UnderIs
<1>7. v = w
  BY <1>4, <1>6 DEF IsTree
<1> QED  BY <1>1, <1>3, <1>5, <1>7

\* A leaf's pointers are to leaves or to nothing.
LEMMA Neighbours ==
    ASSUME NEW N, NEW head, NEW L, Chained(N, head, L), NEW c \in Leafs(N)
    PROVE  N[c].next \in Leafs(N) \union {NoNode} /\ N[c].prev \in Leafs(N) \union {NoNode}
<1>1. PICK l \in Nat : l = Len(L)
  BY ChainParts
<1>2. PICK j \in 1 .. l : L[j] = c
  BY <1>1, ChainParts
<1>3. /\ N[c].next = IF j = l THEN NoNode ELSE L[j + 1]
      /\ N[c].prev = IF j = 1 THEN NoNode ELSE L[j - 1]
  BY <1>1, <1>2 DEF Chained
<1>4. (j # l => j + 1 \in 1 .. l) /\ (j # 1 => j - 1 \in 1 .. l)
  BY SMT
<1>5. \A i \in 1 .. l : L[i] \in Leafs(N)
  BY <1>1, ChainParts
<1> QED  BY <1>3, <1>4, <1>5

\* Nodes alike but for the pointers of leaves.
Alike(N, M) ==
    /\ Typed(M) /\ DOMAIN M = DOMAIN N
    /\ \A m \in DOMAIN N :
          /\ M[m].isLeaf = N[m].isLeaf /\ M[m].items = N[m].items /\ M[m].keys = N[m].keys
          /\ M[m].children = N[m].children /\ (~ N[m].isLeaf => M[m] = N[m])

LEMMA AlikeNest ==
    ASSUME NEW N, NEW M, Alike(N, M), NEW root, NEW h, NEW W, Nest(N, root, h, W, {})
    PROVE  Nest(M, root, h, W, {}) /\ \A p, i, n : Child(M, p, i, n) <=> Child(N, p, i, n)
<1>1. /\ Typed(M) /\ DOMAIN M = DOMAIN N
      /\ \A m \in DOMAIN N : M[m].isLeaf = N[m].isLeaf /\ M[m].items = N[m].items
                             /\ M[m].keys = N[m].keys /\ M[m].children = N[m].children
  BY DEF Alike
<1>2. \A n \in DOMAIN N : /\ Sorted(N[n].items) /\ Nodes(N[n].items) \subseteq W[n]
                          /\ ~ N[n].isLeaf => N[n].items = <<>>
  BY DEF Nest, Shaped, Routed
<1>3. \A n \in DOMAIN N :
              /\ M[n].isLeaf = N[n].isLeaf /\ M[n].keys = N[n].keys /\ M[n].children = N[n].children
              /\ Sorted(M[n].items) /\ Nodes(M[n].items) \subseteq W[n]
              /\ ~ M[n].isLeaf => M[n].items = <<>>
  BY <1>1, <1>2
<1> QED  BY <1>1, <1>3, SameNest

\* An empty child taken off the chain, if it is a leaf.
LEMMA OffChain ==
    ASSUME NEW s, IsTree(s), NEW N, N = s.nodes, Typed(N), NEW L, Chained(N, s.leafHead, L),
           NEW c \in DOMAIN N
    PROVE  \E M, head : /\ (IF s.nodes[c].isLeaf THEN Unchain(s, c) ELSE s) = Under(s, M, head)
                        /\ Alike(N, M)
                        /\ N[c].isLeaf => /\ Unlinked(N, M, c)
                                          /\ head = IF N[c].prev = NoNode THEN N[c].next ELSE s.leafHead
                        /\ ~ N[c].isLeaf => M = N /\ head = s.leafHead
<1>1. CASE ~ N[c].isLeaf
  <2>1. With(s, N) = s
    BY WithSame
  <2>2. Under(s, N, s.leafHead) = s
    BY <2>1, UnderWith
  <2>3. Alike(N, N)
    BY DEF Alike
  <2> QED  BY <1>1, <2>2, <2>3
<1>2. CASE N[c].isLeaf
  <2>1. c \in Leafs(N)
    BY <1>2 DEF Leafs
  <2>2. N[c].next \in Leafs(N) \union {NoNode} /\ N[c].prev \in Leafs(N) \union {NoNode}
    BY <2>1, Neighbours
  <2>3. /\ Typed(s.nodes) /\ c \in DOMAIN s.nodes
        /\ s.nodes[c].next \in DOMAIN s.nodes \union {NoNode}
        /\ s.nodes[c].prev \in DOMAIN s.nodes \union {NoNode}
    BY <2>2 DEF Leafs
  <2>4. PICK M : /\ Unchain(s, c) = Under(s, M, IF s.nodes[c].prev = NoNode THEN s.nodes[c].next
                                                ELSE s.leafHead)
                 /\ Unlinked(s.nodes, M, c)
    BY <2>3, UnchainIs
  <2>5. PICK head : head = IF N[c].prev = NoNode THEN N[c].next ELSE s.leafHead
    OBVIOUS
  <2>6. Unchain(s, c) = Under(s, M, head) /\ Unlinked(N, M, c)
    BY <2>4, <2>5
  <2>7. Alike(N, M)
    <3>1. NoNode \notin DOMAIN N
      BY BPlusTreeAssumption DEF Typed
    <3>2. \A m \in DOMAIN N : ~ N[m].isLeaf => m # N[c].prev /\ m # N[c].next
      BY <2>2, <3>1 DEF Leafs
    <3> QED  BY <2>6, <3>2 DEF Alike, Unlinked
  <2> QED  BY <1>2, <2>5, <2>6, <2>7
<1> QED  BY <1>1, <1>2

\* What is given when an empty child c of n, off the chain, is dropped.
Dropping(N, root, h, W, head, L, n, i, c, A, first, B) ==
    /\ Nest(N, root, h, W, {}) /\ Chained(N, head, L) /\ InOrder(W, L) /\ Slim(N)
    /\ Child(N, n, i, c) /\ IsEmpty(N[c]) /\ NoneEmptyBut(N, {c}) /\ Alike(N, A)
    /\ N[c].isLeaf => Unlinked(N, A, c) /\ first = IF N[c].prev = NoNode THEN N[c].next ELSE head
    /\ ~ N[c].isLeaf => A = N /\ first = head
    /\ Dropped(A, B, n, i, c)

\* What is left of the nodes once n has dropped its empty child c.
DropLeft(N, root, h, W, n, c, first, B) ==
    /\ Nest(B, root, h, W, {}) /\ Slim(B) /\ NoneEmptyBut(B, {n})
    /\ \E K : Chained(B, first, K) /\ InOrder(W, K)
    /\ \A y : Holds(B, y) <=> Holds(N, y)
    /\ DOMAIN B = DOMAIN N \ {c} /\ n \in DOMAIN B
    /\ \A m \in DOMAIN B : m # n /\ ~ N[m].isLeaf => B[m] = N[m]

\* A dropped child, leaf or inner, leaves whole nodes but for its parent.
LEMMA DropTree ==
    ASSUME NEW N, NEW root, NEW h, NEW W, NEW head, NEW L, NEW n, NEW i, NEW c, NEW A,
           NEW first, NEW B, Dropping(N, root, h, W, head, L, n, i, c, A, first, B)
    PROVE  DropLeft(N, root, h, W, n, c, first, B)
<1> USE DEF Dropping
<1>1. /\ n \in DOMAIN N /\ c \in DOMAIN N /\ n # c /\ ~ N[n].isLeaf /\ Typed(N)
  <2>1. n \in DOMAIN N /\ c \in DOMAIN N /\ h[n] = h[c] + 1 /\ h[c] \in Nat
    BY DEF Nest, Ranked, Child
  <2>2. h[n] # h[c] /\ h[n] # 0
    BY <2>1, SMT
  <2> QED  BY <2>1, <2>2 DEF Nest, Ranked
<1>2. N[c].children = <<>> /\ N[c].items = <<>>
  BY <1>1 DEF IsEmpty, Nest, Shaped
<1>3. /\ Nest(A, root, h, W, {}) /\ Child(A, n, i, c) /\ A[c].children = <<>> /\ DOMAIN A = DOMAIN N
      /\ \A m \in DOMAIN N : /\ A[m].isLeaf = N[m].isLeaf /\ A[m].items = N[m].items
                             /\ A[m].children = N[m].children /\ (~ N[m].isLeaf => A[m] = N[m])
  <2>1. Nest(A, root, h, W, {}) /\ Child(A, n, i, c)
    BY AlikeNest
  <2> QED  BY <1>1, <1>2, <2>1 DEF Alike
<1>4. Nest(B, root, h, W, {}) /\ Len(B[n].children) = Len(A[n].children) - 1
  BY <1>3, DropNest
<1>5. /\ DOMAIN B = DOMAIN N \ {c} /\ n \in DOMAIN B /\ (\A m \in DOMAIN B : m # n => B[m] = A[m])
      /\ B[n].isLeaf = N[n].isLeaf /\ B[n].items = N[n].items /\ B[n].next = N[n].next
  <2>1. /\ DOMAIN B = DOMAIN A \ {c} /\ (\A m \in DOMAIN B : m # n => B[m] = A[m])
        /\ B[n].isLeaf = A[n].isLeaf /\ B[n].items = A[n].items /\ B[n].next = A[n].next
    BY DEF Dropped
  <2>2. A[n] = N[n]
    BY <1>1, <1>3
  <2> QED  BY <1>1, <1>3, <2>1, <2>2
<1>6. \A m \in DOMAIN B : /\ m \in DOMAIN N /\ m # c /\ B[m].isLeaf = N[m].isLeaf /\ B[m].items = N[m].items
                          /\ m # n => B[m].children = N[m].children /\ B[m] = A[m]
                          /\ m # n /\ ~ N[m].isLeaf => B[m] = N[m]
  BY <1>3, <1>5
<1>7. Slim(B)
  <2> SUFFICES ASSUME NEW m \in DOMAIN B
               PROVE  IF B[m].isLeaf THEN Len(B[m].items) < Order
                      ELSE Len(B[m].children) <= Order /\ B[m].next = NoNode
    BY DEF Slim
  <2>1. CASE m = n
    <3>1. Len(N[n].children) \in Nat /\ Len(N[n].children) <= Order /\ N[n].next = NoNode
      BY <1>1, NodeParts DEF Slim
    <3>2. Len(B[n].children) = Len(N[n].children) - 1
      BY <1>1, <1>3, <1>4
    <3>3. Len(B[n].children) <= Order
      BY <3>1, <3>2, BPlusTreeAssumption, SMT
    <3> QED  BY <1>1, <1>5, <2>1, <3>1, <3>3
  <2>2. CASE m # n
    BY <1>6, <2>2 DEF Slim
  <2> QED  BY <2>1, <2>2
<1>8. NoneEmptyBut(B, {n})
  <2> SUFFICES ASSUME NEW m \in DOMAIN B, m # n PROVE ~ IsEmpty(B[m])
    BY DEF NoneEmptyBut
  <2>1. ~ IsEmpty(N[m])
    BY <1>6 DEF NoneEmptyBut
  <2> QED  BY <1>6, <2>1 DEF IsEmpty
<1>9. \A y : Holds(B, y) <=> Holds(N, y)
  <2>1. Nodes(<<>>) = {}
    BY DEF Nodes
  <2>2. \A m \in DOMAIN N : m # c => m \in DOMAIN B
    BY <1>5
  <2> QED  BY <1>2, <1>6, <2>1, <2>2 DEF Holds
<1>10. CASE N[c].isLeaf
  <2>1. Leafs(B) = Leafs(N) \ {c} /\ c \in Leafs(N)
    BY <1>1, <1>5, <1>6, <1>10 DEF Leafs
  <2>2. \A m \in Leafs(B) : B[m].next = A[m].next /\ B[m].prev = A[m].prev
    <3>1. \A m \in Leafs(B) : m \in DOMAIN B /\ m # n
      BY <1>1, <1>6 DEF Leafs
    <3> QED  BY <1>6, <3>1
  <2>3. /\ Typed(N) /\ Chained(N, head, L) /\ c \in Leafs(N) /\ Unlinked(N, A, c)
        /\ first = IF N[c].prev = NoNode THEN N[c].next ELSE head
        /\ Leafs(B) = Leafs(N) \ {c}
    BY <1>1, <1>10, <2>1
  <2>4. PICK K : Chained(B, first, K) /\ \A U : InOrder(U, L) => InOrder(U, K)
    BY <2>2, <2>3, UnchainChain
  <2> QED  BY <1>4, <1>5, <1>6, <1>7, <1>8, <1>9, <2>4 DEF DropLeft
<1>11. CASE ~ N[c].isLeaf
  <2>1. Leafs(B) = Leafs(N)
    BY <1>1, <1>5, <1>6, <1>11 DEF Leafs
  <2>2. \A m \in Leafs(N) : B[m].next = N[m].next /\ B[m].prev = N[m].prev
    <3>1. \A m \in Leafs(N) : m \in DOMAIN B /\ m # n
      BY <1>1, <1>5, <1>11 DEF Leafs
    <3> QED  BY <1>6, <1>11, <3>1
  <2>3. Chained(B, first, L)
    BY <1>11, <2>1, <2>2, SameChain
  <2> QED  BY <1>4, <1>5, <1>6, <1>7, <1>8, <1>9, <2>3 DEF DropLeft
<1> QED  BY <1>10, <1>11

\* The deletion at an inner node, given what it made of the child.
LEMMA DeleteInner ==
    ASSUME NEW t, IsTree(t), NEW h, NEW W, NEW L, Whole(t.nodes, t.root, t.leafHead, h, W, L),
           NEW n \in DOMAIN t.nodes, ~ t.nodes[n].isLeaf, NEW x \in AnyItem, NEW below,
           Shrunk(t, h, W, x, Toward(t.nodes, x, n), below)
    PROVE  Shrunk(t, h, W, x, n, DeleteStep(t, x, n, below))
<1>1. PICK N, root, child, i : /\ N = t.nodes /\ root = t.root /\ child = Toward(N, x, n)
                               /\ i = Branch(N[n].keys, x)
  OBVIOUS
<1>2. /\ Nest(N, root, h, W, {}) /\ Slim(N) /\ n \in DOMAIN N /\ ~ N[n].isLeaf
      /\ NoneEmptyBut(N, {}) /\ N[n].children # <<>>
  BY <1>1 DEF Whole, NoneEmptyBut, IsEmpty
<1>3. /\ Child(N, n, i, child) /\ child \in DOMAIN N /\ h[n] = h[child] + 1
      /\ child = N[n].children[i]
  <2>1. x \in AnyItem
    OBVIOUS
  <2>2. /\ Child(N, n, Branch(N[n].keys, x), Toward(N, x, n))
        /\ Toward(N, x, n) \in DOMAIN N /\ h[n] = h[Toward(N, x, n)] + 1
    BY <1>2, <2>1, TowardChild
  <2> QED  BY <1>1, <2>2 DEF Child
<1>4. /\ \A m \in DOMAIN N : h[m] \in Nat
      /\ h[n] > h[child] /\ n # child
      /\ \A m \in DOMAIN N : h[m] > h[n] => h[m] > h[child] /\ m # n /\ m # child /\ ~ N[m].isLeaf
  <2>1. \A m \in DOMAIN N : h[m] \in Nat /\ (N[m].isLeaf <=> h[m] = 0)
    BY <1>2 DEF Nest, Ranked
  <2>2. PICK k \in Nat : k = h[child] /\ h[n] = k + 1
    BY <1>3, <2>1
  <2>3. k + 1 > k /\ k + 1 # k /\ \A a \in Nat : a > k + 1 => a > k /\ a # k + 1 /\ a # k /\ a # 0
    BY SMT
  <2> QED  BY <2>1, <2>2, <2>3
<1>5. PICK M, head, K : /\ below = [tree |-> Under(t, M, head), removed |-> TRUE]
                        /\ Shorter(N, root, h, W, x, child, M, head, K)
  BY <1>1 DEF Shrunk
<1>6. /\ child \in DOMAIN M /\ DOMAIN M \subseteq DOMAIN N
      /\ \A m \in DOMAIN N : h[m] > h[child] => m \in DOMAIN M /\ M[m] = N[m]
      /\ Nest(M, root, h, W, {}) /\ Chained(M, head, K) /\ InOrder(W, K) /\ Slim(M)
      /\ NoneEmptyBut(M, {child}) /\ \A y : Holds(M, y) <=> Holds(N, y) /\ y # x
  BY <1>5 DEF Shorter
<1>7. n \in DOMAIN M /\ M[n] = N[n] /\ Typed(M)
  BY <1>2, <1>4, <1>6 DEF Nest
<1>8. PICK s : s = Under(t, M, head)
  OBVIOUS
<1>9. IsTree(s) /\ s.nodes = M /\ s.root = root /\ s.leafHead = head /\ below.tree = s /\ below.removed
  BY <1>1, <1>5, <1>8, UnderIs
<1>10. CASE ~ IsEmpty(M[child])
  <2>1. DeleteStep(t, x, n, below) = below
    BY <1>1, <1>2, <1>3, <1>9, <1>10 DEF DeleteStep
  <2>2. NoneEmptyBut(M, {n})
    BY <1>6, <1>10 DEF NoneEmptyBut
  <2>3. \A m \in DOMAIN N : h[m] > h[n] => m \in DOMAIN M /\ M[m] = N[m]
    BY <1>4, <1>6
  <2>4. Shorter(N, root, h, W, x, n, M, head, K)
    BY <1>6, <1>7, <2>2, <2>3 DEF Shorter
  <2> QED  BY <1>1, <1>5, <2>1, <2>4 DEF Shrunk
<1>11. CASE IsEmpty(M[child])
  <2>1. PICK A, first :
           /\ (IF s.nodes[child].isLeaf THEN Unchain(s, child) ELSE s) = Under(s, A, first)
           /\ Alike(M, A)
           /\ M[child].isLeaf => /\ Unlinked(M, A, child)
                                 /\ first = IF M[child].prev = NoNode THEN M[child].next ELSE head
           /\ ~ M[child].isLeaf => A = M /\ first = head
    <3>1. IsTree(s) /\ M = s.nodes /\ Typed(M) /\ Chained(M, s.leafHead, K) /\ child \in DOMAIN M
      BY <1>6, <1>7, <1>9
    <3>2. \E A, first :
           /\ (IF s.nodes[child].isLeaf THEN Unchain(s, child) ELSE s) = Under(s, A, first)
           /\ Alike(M, A)
           /\ M[child].isLeaf => /\ Unlinked(M, A, child)
                                 /\ first = IF M[child].prev = NoNode THEN M[child].next ELSE s.leafHead
           /\ ~ M[child].isLeaf => A = M /\ first = s.leafHead
      BY <3>1, OffChain
    <3> QED  BY <1>9, <3>2
  <2>2. PICK u : u = Under(s, A, first)
    OBVIOUS
  <2>3. IsTree(u) /\ u.nodes = A /\ u = Under(t, A, first)
    BY <1>8, <1>9, <2>2, UnderIs, UnderTwice
  <2>4. Child(M, n, i, child) /\ Len(M[n].children) = Len(M[n].keys) + 1
    BY <1>2, <1>3, <1>6, <1>7 DEF Child, Nest, Shaped
  <2>5. PICK B : Free(DropChild(u, n, i), child) = With(u, B) /\ Dropped(A, B, n, i, child)
    <3>1. A[n].keys = M[n].keys /\ A[n].children = M[n].children /\ DOMAIN A = DOMAIN M /\ Typed(A)
      BY <1>7, <2>1 DEF Alike
    <3>2. Child(u.nodes, n, i, child) /\ Typed(u.nodes)
          /\ Len(u.nodes[n].children) = Len(u.nodes[n].keys) + 1
      BY <2>3, <2>4, <3>1 DEF Child
    <3>3. \E B : Free(DropChild(u, n, i), child) = With(u, B) /\ Dropped(u.nodes, B, n, i, child)
      BY <1>4, <2>3, <3>2, DropIs
    <3> QED  BY <2>3, <3>3
  <2>6. With(u, B) = Under(t, B, first)
    BY <2>3, UnderWith
  <2>7. DeleteStep(t, x, n, below) = [tree |-> Under(t, B, first), removed |-> TRUE]
    <3>1. /\ ~ t.nodes[n].isLeaf /\ Branch(t.nodes[n].keys, x) = i /\ t.nodes[n].children[i] = child
          /\ below.removed /\ IsEmpty(s.nodes[child])
      BY <1>1, <1>2, <1>3, <1>9, <1>11
    <3>2. DeleteStep(t, x, n, below)
          = [below EXCEPT !.tree = Free(DropChild(IF s.nodes[child].isLeaf THEN Unchain(s, child) ELSE s,
                                                  n, i), child)]
      BY <1>9, <3>1 DEF DeleteStep
    <3>3. DeleteStep(t, x, n, below) = [below EXCEPT !.tree = Under(t, B, first)]
      BY <2>1, <2>2, <2>5, <2>6, <3>2
    <3> QED  BY <1>5, <3>3
  <2>8. /\ Nest(B, root, h, W, {}) /\ Slim(B) /\ NoneEmptyBut(B, {n})
        /\ \E J : Chained(B, first, J) /\ InOrder(W, J)
        /\ \A y : Holds(B, y) <=> Holds(M, y)
        /\ DOMAIN B = DOMAIN M \ {child} /\ n \in DOMAIN B
        /\ \A m \in DOMAIN B : m # n /\ ~ M[m].isLeaf => B[m] = M[m]
    <3>1. /\ Nest(M, root, h, W, {}) /\ Chained(M, head, K) /\ InOrder(W, K) /\ Slim(M)
          /\ Child(M, n, i, child) /\ IsEmpty(M[child]) /\ NoneEmptyBut(M, {child}) /\ Alike(M, A)
          /\ M[child].isLeaf => Unlinked(M, A, child)
                                /\ first = IF M[child].prev = NoNode THEN M[child].next ELSE head
          /\ ~ M[child].isLeaf => A = M /\ first = head
          /\ Dropped(A, B, n, i, child)
      BY <1>6, <1>11, <2>1, <2>4, <2>5
    <3>2. Dropping(M, root, h, W, head, K, n, i, child, A, first, B)
      BY <3>1, Zenon DEF Dropping
    <3>3. DropLeft(M, root, h, W, n, child, first, B)
      BY <3>2, DropTree, Zenon
    <3> QED  BY <3>3, Zenon DEF DropLeft
  <2>9. PICK J : Chained(B, first, J) /\ InOrder(W, J)
    BY <2>8
  <2>10. \A m \in DOMAIN N : h[m] > h[n] => m \in DOMAIN B /\ B[m] = N[m]
    <3> SUFFICES ASSUME NEW m \in DOMAIN N, h[m] > h[n] PROVE m \in DOMAIN B /\ B[m] = N[m]
      OBVIOUS
    <3>1. h[m] > h[child] /\ m # n /\ m # child /\ ~ N[m].isLeaf
      BY <1>4
    <3>2. m \in DOMAIN M /\ M[m] = N[m]
      BY <1>6, <3>1
    <3> QED  BY <2>8, <3>1, <3>2
  <2>11. DOMAIN B \subseteq DOMAIN N /\ \A y : Holds(B, y) <=> Holds(N, y) /\ y # x
    BY <1>6, <2>8
  <2>12. Shorter(N, root, h, W, x, n, B, first, J)
    BY <2>8, <2>9, <2>10, <2>11 DEF Shorter
  <2> QED  BY <1>1, <2>7, <2>12 DEF Shrunk
<1> QED  BY <1>10, <1>11

\* f is the recursion of deleteItem.
Deletes(t, x, f) ==
    f = [n \in DOMAIN t.nodes |-> DeleteStep(t, x, n, f[Toward(t.nodes, x, n)])]

LEMMA DeleteItemIs ==
    ASSUME NEW t, NEW x, \E f : Deletes(t, x, f)
    PROVE  \E f : Deletes(t, x, f) /\ deleteItem(t, x) = f[t.root].tree
<1> DEFINE Is(delete) ==
      delete = [n \in DOMAIN t.nodes |->
            LET node == t.nodes[n] IN
            IF node.isLeaf
            THEN LET i == Place(node.items, x) IN
                 IF i <= Len(node.items) /\ node.items[i] = x
                 THEN [tree |-> [t EXCEPT !.nodes[n].items = Seqs!RemoveAt(@, i)], removed |-> TRUE]
                 ELSE [tree |-> t, removed |-> FALSE]
            ELSE LET i == Branch(node.keys, x)
                     child == node.children[i]
                     below == delete[child]
                     s == below.tree
                 IN IF ~ below.removed \/ ~ IsEmpty(s.nodes[child]) THEN below
                    ELSE [below EXCEPT !.tree =
                             Free(DropChild(IF s.nodes[child].isLeaf THEN Unchain(s, child) ELSE s,
                                            n, i), child)]]
<1>1. deleteItem(t, x) = (CHOOSE f : Is(f))[t.root].tree
  BY Zenon DEF deleteItem
<1>2. \A f : Is(f) <=> Deletes(t, x, f)
  BY Zenon DEF Deletes, DeleteStep, Toward
<1> HIDE DEF Is
<1>3. Is(CHOOSE f : Is(f))
  BY <1>2
<1> QED  BY <1>1, <1>2, <1>3

\* The recursion of deleteItem is a function of the nodes, by induction on heights.
LEMMA DeleteExists ==
    ASSUME NEW t, NEW h, NEW W, Nest(t.nodes, t.root, h, W, {}), InnersFull(t.nodes), NEW x \in AnyItem
    PROVE  \E f : Deletes(t, x, f)
<1> DEFINE N == t.nodes
           D == DOMAIN N
           Upto(f, k) == \A n \in D : h[n] < k => f[n] = DeleteStep(t, x, n, f[Toward(N, x, n)])
           S == {k \in Nat : \E f : Upto(f, k)}
<1>1. \A n \in D : ~ N[n].isLeaf => Toward(N, x, n) \in D /\ h[n] = h[Toward(N, x, n)] + 1
  BY TowardChild DEF InnersFull
<1>2. /\ \A n \in D : h[n] \in Nat /\ h[n] < h[t.root] + 1
      /\ \A n \in D : \A k \in Nat : h[n] < k + 1 <=> h[n] < k \/ h[n] = k
      /\ \A n \in D : ~ (h[n] < 0)
      /\ h[t.root] + 1 \in Nat
  BY Tallest
<1>3. \A n, a, b : N[n].isLeaf => DeleteStep(t, x, n, a) = DeleteStep(t, x, n, b)
  BY DEF DeleteStep
<1>4. 0 \in S
  BY <1>2
<1>5. ASSUME NEW k \in Nat, k \in S PROVE k + 1 \in S
  <2>1. PICK f : Upto(f, k)
    BY <1>5
  <2> DEFINE g == [n \in D |-> IF h[n] < k THEN f[n] ELSE DeleteStep(t, x, n, f[Toward(N, x, n)])]
  <2>2. \A n \in D : h[n] < k + 1 => g[n] = DeleteStep(t, x, n, f[Toward(N, x, n)])
    BY <2>1
  <2>3. ASSUME NEW n \in D, h[n] < k + 1, ~ N[n].isLeaf
        PROVE  g[Toward(N, x, n)] = f[Toward(N, x, n)]
    <3>1. PICK m \in D : m = Toward(N, x, n) /\ h[n] = h[m] + 1
      BY <1>1, <2>3
    <3>2. h[m] < k
      <4>1. h[m] \in Nat /\ h[m] + 1 < k + 1
        BY <1>2, <2>3, <3>1
      <4> QED  BY <4>1, SMT
    <3> QED  BY <3>1, <3>2
  <2> HIDE DEF g
  <2>4. Upto(g, k + 1)
    BY <1>3, <2>2, <2>3
  <2> HIDE DEF Upto
  <2> QED  BY <2>4
<1> HIDE DEF S
<1>6. h[t.root] + 1 \in S
  BY <1>2, <1>4, <1>5, CountUp
<1>7. PICK f : \A n \in D : f[n] = DeleteStep(t, x, n, f[Toward(N, x, n)])
  BY <1>2, <1>6 DEF S
<1>8. PICK g : g = [n \in D |-> f[n]]
  OBVIOUS
<1>9. \A n \in D : g[n] = DeleteStep(t, x, n, g[Toward(N, x, n)])
  BY <1>1, <1>3, <1>7, <1>8
<1>10. g = [n \in D |-> g[n]]
  BY <1>8
<1>11. g = [n \in D |-> DeleteStep(t, x, n, g[Toward(N, x, n)])]
  BY <1>9, <1>10
<1> QED  BY <1>11 DEF Deletes

\* The deletion, at every node that a search for x comes to.
LEMMA DeleteClimbs ==
    ASSUME NEW t, IsTree(t), NEW h, NEW W, NEW L, Whole(t.nodes, t.root, t.leafHead, h, W, L),
           NEW x \in AnyItem, Holds(t.nodes, x),
           NEW P, Path(t.nodes, t.root, x, P), \A n \in P : x \in W[n],
           NEW f, Deletes(t, x, f)
    PROVE  \A n \in P : Shrunk(t, h, W, x, n, f[n])
<1> DEFINE N == t.nodes
           S == {k \in Nat : \A n \in P : h[n] < k => Shrunk(t, h, W, x, n, f[n])}
<1>1. Nest(N, t.root, h, W, {}) /\ P \in SUBSET DOMAIN N /\ NoneEmptyBut(N, {})
  BY DEF Whole, Path
<1>2. /\ \A n \in DOMAIN N : h[n] \in Nat /\ h[n] < h[t.root] + 1
      /\ \A n \in DOMAIN N : \A k \in Nat : h[n] < k + 1 <=> h[n] < k \/ h[n] = k
      /\ \A n \in DOMAIN N : ~ (h[n] < 0)
      /\ h[t.root] + 1 \in Nat
  BY <1>1, Tallest
<1>3. 0 \in S
  BY <1>1, <1>2
<1>4. ASSUME NEW k \in Nat, k \in S PROVE k + 1 \in S
  <2> SUFFICES ASSUME NEW n \in P, h[n] < k + 1 PROVE Shrunk(t, h, W, x, n, f[n])
    OBVIOUS
  <2>1. n \in DOMAIN N /\ f[n] = DeleteStep(t, x, n, f[Toward(N, x, n)])
    BY <1>1 DEF Deletes
  <2>2. CASE N[n].isLeaf
    <3>1. x \in W[n]
      OBVIOUS
    <3>2. PICK m \in DOMAIN N : x \in Nodes(N[m].items)
      BY DEF Holds
    <3>3. m = n
      BY <1>1, <2>1, <2>2, <3>1, <3>2, OneLeaf
    <3>4. Shrunk(t, h, W, x, n, DeleteStep(t, x, n, f[Toward(N, x, n)]))
      BY <2>1, <2>2, <3>2, <3>3, DeleteLeaf
    <3> QED  BY <2>1, <3>4
  <2>3. CASE ~ N[n].isLeaf
    <3>1. PICK m : m = Toward(N, x, n)
      OBVIOUS
    <3>2. m \in P
      BY <2>3, <3>1 DEF Path
    <3>3. h[n] = h[m] + 1
      <4>1. N[n].children # <<>>
        BY <1>1, <2>1, <2>3 DEF NoneEmptyBut, IsEmpty
      <4> QED  BY <1>1, <2>1, <3>1, <4>1, TowardChild
    <3>4. h[m] < k
      <4>1. h[m] \in Nat /\ h[m] + 1 < k + 1
        BY <1>1, <1>2, <3>2, <3>3
      <4> QED  BY <4>1, SMT
    <3>5. Shrunk(t, h, W, x, Toward(N, x, n), f[Toward(N, x, n)])
      BY <1>4, <3>1, <3>2, <3>4
    <3>6. Shrunk(t, h, W, x, n, DeleteStep(t, x, n, f[Toward(N, x, n)]))
      BY <2>1, <2>3, <3>5, DeleteInner
    <3> QED  BY <2>1, <3>6
  <2> QED  BY <2>2, <2>3
<1> HIDE DEF S
<1>5. h[t.root] + 1 \in S
  BY <1>2, <1>3, <1>4, CountUp
<1> QED  BY <1>1, <1>2, <1>5 DEF S

\* An item that is in a leaf goes.
LEMMA DeleteTree ==
    ASSUME NEW t, IsTree(t), NEW h, NEW W, NEW L, Whole(t.nodes, t.root, t.leafHead, h, W, L),
           NEW x \in AnyItem, Holds(t.nodes, x)
    PROVE  \E V, M, head, K :
              /\ deleteItem(t, x) = Under(t, M, head)
              /\ Shorter(t.nodes, t.root, h, V, x, t.root, M, head, K)
<1>1. PICK N : N = t.nodes
  OBVIOUS
<1>2. /\ Nest(N, t.root, h, W, {}) /\ Chained(N, t.leafHead, L) /\ InOrder(W, L) /\ Slim(N)
      /\ Routed(N, W) /\ InnersFull(N) /\ NoneEmptyBut(N, {})
  BY <1>1 DEF Whole, Nest, InnersFull, NoneEmptyBut, IsEmpty
<1>3. PICK V, P : /\ Nest(N, t.root, h, V, {}) /\ Path(N, t.root, x, P) /\ \A n \in P : x \in V[n]
                  /\ \A n \in DOMAIN N : W[n] \subseteq V[n]
  BY <1>2, Admit
<1>4. Len(L) > 1 => \A n \in Leafs(N) : N[n].items # <<>>
  BY <1>2 DEF NoneEmptyBut, IsEmpty, Leafs
<1>5. InOrder(V, L)
  BY <1>2, <1>3, <1>4, StillInOrder
<1>6. Whole(t.nodes, t.root, t.leafHead, h, V, L)
  BY <1>1, <1>2, <1>3, <1>5 DEF Whole
<1>7. PICK f : Deletes(t, x, f) /\ deleteItem(t, x) = f[t.root].tree
  BY <1>1, <1>2, DeleteExists, DeleteItemIs
<1>8. Shrunk(t, h, V, x, t.root, f[t.root])
  <2>1. Path(t.nodes, t.root, x, P) /\ t.root \in P
    BY <1>1, <1>3 DEF Path
  <2>2. /\ IsTree(t) /\ Whole(t.nodes, t.root, t.leafHead, h, V, L)
        /\ Holds(t.nodes, x) /\ Path(t.nodes, t.root, x, P) /\ \A n \in P : x \in V[n]
    BY <1>3, <1>6, <2>1
  <2>3. \A n \in P : Shrunk(t, h, V, x, n, f[n])
    BY <1>7, <2>2, DeleteClimbs
  <2> QED  BY <2>1, <2>3
<1>9. PICK M, head, K : /\ f[t.root] = [tree |-> Under(t, M, head), removed |-> TRUE]
                        /\ Shorter(t.nodes, t.root, h, V, x, t.root, M, head, K)
  BY <1>8, Zenon DEF Shrunk
<1> QED  BY <1>7, <1>9

-----------------------------------------------------------------------------
(* The root after a deletion                                                 *)

\* The tree of a root without children.
LEMMA Childless ==
    ASSUME NEW N, NEW root, NEW h, NEW W, Nest(N, root, h, W, {}), N[root].children = <<>>
    PROVE  DOMAIN N = {root}
<1>1. /\ root \in DOMAIN N /\ h[root] \in Nat
      /\ \A n \in DOMAIN N : /\ h[n] \in Nat /\ h[n] <= h[root]
                             /\ n # root => \E p, i : Child(N, p, i, n)
  BY DEF Nest, Ranked, Rooted
<1>2. SUFFICES ASSUME NEW a \in DOMAIN N, a # root PROVE FALSE
  BY <1>1
<1>3. PICK S : S = {h[root] - h[n] : n \in DOMAIN N \ {root}}
  OBVIOUS
<1>4. S \in SUBSET Nat /\ S # {}
  <2>1. \A n \in DOMAIN N : h[root] - h[n] \in Nat
    BY <1>1, SMT
  <2> QED  BY <1>2, <1>3, <2>1
<1>5. PICK d \in S : \A e \in S : d <= e
  BY <1>4, LeastNumber
<1>6. PICK n \in DOMAIN N \ {root} : d = h[root] - h[n]
  BY <1>3
<1>7. PICK p, i : Child(N, p, i, n)
  BY <1>1
<1>8. p \in DOMAIN N /\ h[p] = h[n] + 1
  BY <1>7 DEF Child, Nest, Ranked
<1>9. p = root
  <2> SUFFICES ASSUME p # root PROVE FALSE
    OBVIOUS
  <2>1. h[root] - h[p] \in S
    BY <1>3, <1>8
  <2>2. d <= h[root] - h[p]
    BY <1>5, <2>1
  <2> QED  BY <1>1, <1>6, <1>8, <2>2, SMT
<1>10. i \in 1 .. 0
  <2>1. Len(<<>>) = 0
    OBVIOUS
  <2> QED  BY <1>7, <1>9, <2>1 DEF Child
<1> QED  BY <1>10, SMT

\* The root of a tree that holds an item is not empty.
LEMMA RootFull ==
    ASSUME NEW N, NEW root, NEW h, NEW W, Nest(N, root, h, W, {}), NEW y, Holds(N, y)
    PROVE  ~ IsEmpty(N[root])
<1>1. SUFFICES ASSUME IsEmpty(N[root]) PROVE FALSE
  OBVIOUS
<1>2. root \in DOMAIN N
  BY DEF Nest, Rooted
<1>3. N[root].children = <<>> /\ N[root].items = <<>>
  BY <1>1, <1>2 DEF IsEmpty, Nest, Shaped
<1>4. DOMAIN N = {root}
  BY <1>3, Childless
<1>5. Nodes(<<>>) = {}
  BY DEF Nodes
<1> QED  BY <1>3, <1>4, <1>5 DEF Holds

LEMMA FromFrom ==
    ASSUME NEW t, IsTree(t), NEW M, NEW a, NEW K, NEW b
    PROVE  From(From(t, M, a), K, b) = From(t, K, b) /\ From(t, t.nodes, t.root) = t
<1>1. PICK u : u = From(t, M, a)
  OBVIOUS
<1>2. /\ IsTree(u) /\ u.leafHead = t.leafHead /\ u.members = t.members /\ u.length = t.length
  BY <1>1, FromIs
<1>3. PICK v : v = From(u, K, b)
  OBVIOUS
<1>4. /\ IsTree(v) /\ v.nodes = K /\ v.root = b /\ v.leafHead = t.leafHead
      /\ v.members = t.members /\ v.length = t.length
  BY <1>2, <1>3, FromIs
<1>5. PICK w : w = From(t, K, b)
  OBVIOUS
<1>6. /\ IsTree(w) /\ w.nodes = K /\ w.root = b /\ w.leafHead = t.leafHead
      /\ w.members = t.members /\ w.length = t.length
  BY <1>5, FromIs
<1>7. v = w
  BY <1>4, <1>6 DEF IsTree
<1>8. From(t, t.nodes, t.root) = t
  <2>1. From(t, t.nodes, t.root) = With(t, t.nodes)
    BY FromTwice
  <2> QED  BY <2>1, WithSame
<1> QED  BY <1>1, <1>3, <1>5, <1>7, <1>8

\* A root with one child gives its place to it.
LEMMA LowerNest ==
    ASSUME NEW N, NEW root, NEW head, NEW h, NEW W, NEW L, Whole(N, root, head, h, W, L),
           ~ N[root].isLeaf, Len(N[root].children) = 1,
           NEW c, c = N[root].children[1], NEW M, M = Without(N, root)
    PROVE  Whole(M, c, head, h, W, L) /\ \A y : Holds(M, y) <=> Holds(N, y)
<1>1. /\ Nest(N, root, h, W, {}) /\ Chained(N, head, L) /\ InOrder(W, L) /\ Slim(N)
      /\ NoneEmptyBut(N, {}) /\ Typed(N) /\ root \in DOMAIN N
  BY DEF Whole, Nest, Rooted
<1>2. /\ Typed(M) /\ DOMAIN M = DOMAIN N \ {root} /\ \A m \in DOMAIN N : m # root => M[m] = N[m]
  <2>1. /\ Typed(Without(N, root)) /\ DOMAIN Without(N, root) = DOMAIN N \ {root}
        /\ \A m \in DOMAIN N : m # root => Without(N, root)[m] = N[m]
    BY <1>1, WithoutIs
  <2> QED  BY <2>1
<1>3. 1 \in 1 .. Len(N[root].children) /\ \A i \in 1 .. Len(N[root].children) : i = 1
  BY SMT
<1>4. Child(N, root, 1, c) /\ \A i, n : Child(N, root, i, n) => n = c
  BY <1>1, <1>3 DEF Child
<1>5. c \in DOMAIN N /\ h[root] = h[c] + 1 /\ \A n \in DOMAIN N : h[n] \in Nat /\ h[n] <= h[root]
  BY <1>1, <1>4 DEF Nest, Ranked, Rooted
<1>6. c # root
  <2>1. h[c] # h[c] + 1
    BY <1>5, SMT
  <2> QED  BY <1>5, <2>1
<1>7. \A p, i, n : Child(M, p, i, n) => Child(N, p, i, n) /\ p # root
  BY <1>2 DEF Child
<1>8. \A p, i, n : Child(N, p, i, n) /\ p # root => Child(M, p, i, n)
  BY <1>2 DEF Child
<1>9. Ranked(M, h)
  <2>1. \A n \in DOMAIN M : h[n] \in Nat /\ (M[n].isLeaf <=> h[n] = 0)
    BY <1>1, <1>2 DEF Nest, Ranked
  <2>2. ASSUME NEW p, NEW i, NEW n, Child(M, p, i, n) PROVE n \in DOMAIN M /\ h[p] = h[n] + 1
    <3>1. Child(N, p, i, n)
      BY <1>7, <2>2
    <3>2. n \in DOMAIN N /\ h[p] = h[n] + 1
      BY <1>1, <3>1 DEF Nest, Ranked
    <3>3. n # root
      BY <1>1, <3>1, RootHasNoParent DEF Nest
    <3> QED  BY <1>2, <3>2, <3>3
  <2> QED  BY <2>1, <2>2, Zenon DEF Ranked
<1>10. OneParent(M)
  <2>1. OneParent(N)
    BY <1>1 DEF Nest
  <2> QED  BY <1>7, <2>1, Zenon DEF OneParent
<1>11. Rooted(M, c, h, {})
  <2>1. c \in DOMAIN M
    BY <1>2, <1>5, <1>6
  <2>2. ASSUME NEW n \in DOMAIN M PROVE /\ h[n] <= h[c]
                                        /\ n # c => \E p, i : Child(M, p, i, n)
    <3>1. n \in DOMAIN N /\ n # root
      BY <1>2
    <3>2. PICK p, i : Child(N, p, i, n)
      BY <1>1, <3>1 DEF Nest, Rooted
    <3>3. p \in DOMAIN N /\ h[p] = h[n] + 1
      BY <1>1, <3>2 DEF Nest, Ranked, Child
    <3>4. h[n] <= h[c]
      <4>1. h[n] \in Nat /\ h[c] \in Nat /\ h[n] + 1 <= h[c] + 1
        BY <1>5, <3>1, <3>3
      <4> QED  BY <4>1, SMT
    <3>5. n # c => p # root
      BY <1>4, <3>2
    <3> QED  BY <1>8, <3>2, <3>4, <3>5
  <2> QED  BY <2>1, <2>2 DEF Rooted
<1>12. Routed(M, W)
  <2>1. \A n \in DOMAIN M : W[n] \in SUBSET AnyItem
                            /\ Nodes(M[n].items) \subseteq W[n] /\ Nodes(M[n].keys) \subseteq W[n]
    BY <1>1, <1>2 DEF Nest, Routed
  <2>2. ASSUME NEW p, NEW i, NEW n, Child(M, p, i, n), NEW x \in W[n]
        PROVE  x \in W[p] /\ Leads(M[p].keys, x, i)
    <3>1. Child(N, p, i, n) /\ p \in DOMAIN N /\ M[p] = N[p]
      BY <1>2, <1>7, <2>2 DEF Child
    <3>2. x \in W[p] /\ Leads(N[p].keys, x, i)
      BY <1>1, <3>1 DEF Nest, Routed
    <3> QED  BY <3>1, <3>2
  <2> QED  BY <2>1, <2>2, Zenon DEF Routed
<1>13. Shaped(M)
  BY <1>1, <1>2 DEF Nest, Shaped
<1>14. Nest(M, c, h, W, {})
  BY <1>2, <1>9, <1>10, <1>11, <1>12, <1>13 DEF Nest
<1>15. Chained(M, head, L)
  <2>1. Leafs(M) = Leafs(N)
    BY <1>2 DEF Leafs
  <2>2. \A n \in Leafs(N) : M[n] = N[n]
    BY <1>2 DEF Leafs
  <2> QED  BY <1>1, <2>1, <2>2, SameChain
<1>16. Slim(M) /\ NoneEmptyBut(M, {})
  BY <1>1, <1>2 DEF Slim, NoneEmptyBut
<1>17. \A y : Holds(M, y) <=> Holds(N, y)
  <2>1. N[root].items = <<>>
    BY <1>1 DEF Nest, Shaped
  <2>2. Nodes(<<>>) = {}
    BY DEF Nodes
  <2>3. \A m \in DOMAIN N : m = root \/ m \in DOMAIN M
    BY <1>2
  <2> QED  BY <1>2, <2>1, <2>2, <2>3 DEF Holds
<1> QED  BY <1>1, <1>14, <1>15, <1>16, <1>17 DEF Whole

\* What taking roots off a tree leaves.
Lowered(t, h, W, L, s) ==
    \E M, root : /\ s = From(t, M, root) /\ Whole(M, root, t.leafHead, h, W, L)
                 /\ \A y : Holds(M, y) <=> Holds(t.nodes, y)

LEMMA LowerIs ==
    ASSUME NEW t, IsTree(t), NEW h, NEW W, NEW L, NEW s, Lowered(t, h, W, L, s)
    PROVE  Lowered(t, h, W, L, LowerRoot(s))
<1>1. PICK N, root : /\ s = From(t, N, root) /\ Whole(N, root, t.leafHead, h, W, L)
                     /\ \A y : Holds(N, y) <=> Holds(t.nodes, y)
  BY Zenon DEF Lowered
<1>2. /\ IsTree(s) /\ s.nodes = N /\ s.root = root
  BY <1>1, FromIs
<1>3. CASE N[root].isLeaf \/ Len(N[root].children) # 1
  <2>1. LowerRoot(s) = s
    BY <1>2, <1>3 DEF LowerRoot
  <2> QED  BY <2>1
<1>4. CASE ~ N[root].isLeaf /\ Len(N[root].children) = 1
  <2>1. PICK c, M, u : c = N[root].children[1] /\ M = Without(N, root) /\ u = [s EXCEPT !.root = c]
    OBVIOUS
  <2>2. LowerRoot(s) = Free(u, root)
    BY <1>2, <1>4, <2>1 DEF LowerRoot
  <2>3. u = From(s, N, c)
    <3>1. With(s, N) = s
      BY <1>2, WithSame
    <3> QED  BY <2>1, <3>1 DEF From
  <2>4. IsTree(u) /\ u.nodes = N /\ u.root = c
    BY <1>2, <2>3, FromIs
  <2>5. LowerRoot(s) = With(u, M)
    BY <2>1, <2>2, <2>4, FreeIs
  <2>6. With(u, M) = From(u, M, c)
    BY <2>4, FromTwice
  <2>7. From(u, M, c) = From(t, M, c)
    <3>1. u = From(t, N, c)
      BY <1>1, <2>3, FromFrom
    <3> QED  BY <3>1, FromFrom
  <2>8. Whole(M, c, t.leafHead, h, W, L) /\ \A y : Holds(M, y) <=> Holds(N, y)
    BY <1>1, <1>4, <2>1, LowerNest
  <2>9. \A y : Holds(M, y) <=> Holds(t.nodes, y)
    BY <1>1, <2>8
  <2>10. LowerRoot(s) = From(t, M, c)
    BY <2>5, <2>6, <2>7
  <2> QED  BY <2>8, <2>9, <2>10 DEF Lowered
<1> QED  BY <1>3, <1>4

\* g is the repetition of LowerRoot, k times at most.
Lowers(t, k, g) == g = [i \in 0 .. k |-> IF i = 0 THEN t ELSE LowerRoot(g[i - 1])]

\* Any number of turns of the loop that lowers the root.
LEMMA LowersExists ==
    ASSUME NEW t, NEW k \in Nat
    PROVE  \E g : Lowers(t, k, g)
<1> DEFINE S == {n \in Nat : \E g : Lowers(t, n, g)}
<1>1. 0 \in S
  <2>1. PICK g : g = [i \in 0 .. 0 |-> t]
    OBVIOUS
  <2>2. \A i \in 0 .. 0 : i = 0
    BY SMT
  <2>3. Lowers(t, 0, g)
    BY <2>1, <2>2 DEF Lowers
  <2> QED  BY <2>3
<1>2. ASSUME NEW n \in Nat, n \in S PROVE n + 1 \in S
  <2>1. PICK f : Lowers(t, n, f)
    BY <1>2
  <2>2. DOMAIN f = 0 .. n /\ \A i \in 0 .. n : f[i] = IF i = 0 THEN t ELSE LowerRoot(f[i - 1])
    BY <2>1 DEF Lowers
  <2>3. PICK g : g = [i \in 0 .. n + 1 |-> IF i = 0 THEN t ELSE LowerRoot(f[i - 1])]
    OBVIOUS
  <2>4. ASSUME NEW i \in 0 .. n + 1, i # 0 PROVE g[i - 1] = f[i - 1]
    <3>1. i - 1 \in 0 .. n /\ i - 1 \in 0 .. n + 1
      BY <2>4, SMT
    <3> QED  BY <2>2, <2>3, <3>1
  <2>5. g = [i \in 0 .. n + 1 |-> IF i = 0 THEN t ELSE LowerRoot(g[i - 1])]
    BY <2>3, <2>4
  <2>6. Lowers(t, n + 1, g)
    BY <2>5, Zenon DEF Lowers
  <2> QED  BY <2>6
<1> HIDE DEF S
<1>3. k \in S
  BY <1>1, <1>2, CountUp
<1> QED  BY <1>3 DEF S

LEMMA CollapseIs ==
    ASSUME NEW t, IsTree(t), NEW h, NEW W, NEW L, Whole(t.nodes, t.root, t.leafHead, h, W, L)
    PROVE  Lowered(t, h, W, L, CollapseRoot(t))
<1>1. PICK k \in Nat : k = Cardinality(DOMAIN t.nodes)
  BY FS_CardinalityType DEF Whole, Nest, Typed
<1>2. CollapseRoot(t) = (CHOOSE g : Lowers(t, k, g))[k]
  BY <1>1 DEF CollapseRoot, Lowers
<1>3. PICK g : g = CHOOSE f : Lowers(t, k, f)
  OBVIOUS
<1>4. Lowers(t, k, g)
  BY <1>3, LowersExists
<1>5. \A i \in 0 .. k : g[i] = IF i = 0 THEN t ELSE LowerRoot(g[i - 1])
  BY <1>4 DEF Lowers
<1> DEFINE S == {n \in Nat : n <= k => Lowered(t, h, W, L, g[n])}
<1>6. 0 \in S
  <2>1. From(t, t.nodes, t.root) = t
    BY FromFrom
  <2>2. 0 \in 0 .. k
    BY SMT
  <2>3. g[0] = t
    BY <1>5, <2>2
  <2>4. Lowered(t, h, W, L, t)
    BY <2>1 DEF Lowered
  <2> QED  BY <2>3, <2>4
<1>7. ASSUME NEW n \in Nat, n \in S PROVE n + 1 \in S
  <2> SUFFICES ASSUME n + 1 <= k PROVE Lowered(t, h, W, L, g[n + 1])
    OBVIOUS
  <2>1. n <= k /\ n + 1 \in 0 .. k /\ n + 1 # 0 /\ n + 1 - 1 = n
    BY SMT
  <2>2. g[n + 1] = LowerRoot(g[n])
    BY <1>5, <2>1
  <2>3. Lowered(t, h, W, L, g[n])
    BY <1>7, <2>1
  <2> QED  BY <2>2, <2>3, LowerIs
<1> HIDE DEF S
<1>8. k \in S
  BY <1>6, <1>7, CountUp
<1> QED  BY <1>2, <1>3, <1>8 DEF S

-----------------------------------------------------------------------------
(* What is under a node                                                      *)

\* The items under n: those of its scope that are in a leaf.
Held(N, W, n) == {y \in W[n] : Holds(N, y)}
\* All items that some leaf holds.
Everything(N) == {y \in AnyItem : Holds(N, y)}

\* What holds of a node when of all its children holds of all nodes.
LEMMA ByHeight ==
    ASSUME NEW N, NEW root, NEW h, NEW W, NEW orphans, Nest(N, root, h, W, orphans),
           NEW S, \A n \in DOMAIN N : (\A i, c : Child(N, n, i, c) => c \in S) => n \in S
    PROVE  \A n \in DOMAIN N : n \in S
<1> DEFINE Q == {k \in Nat : \A n \in DOMAIN N : h[n] < k => n \in S}
<1>1. /\ \A n \in DOMAIN N : h[n] \in Nat /\ h[n] < h[root] + 1
      /\ \A n \in DOMAIN N : \A k \in Nat : h[n] < k + 1 <=> h[n] < k \/ h[n] = k
      /\ \A n \in DOMAIN N : ~ (h[n] < 0)
      /\ h[root] + 1 \in Nat
  BY Tallest
<1>2. 0 \in Q
  BY <1>1
<1>3. ASSUME NEW k \in Nat, k \in Q PROVE k + 1 \in Q
  <2> SUFFICES ASSUME NEW n \in DOMAIN N, h[n] < k + 1 PROVE n \in S
    OBVIOUS
  <2>1. ASSUME NEW i, NEW c, Child(N, n, i, c) PROVE c \in S
    <3>1. c \in DOMAIN N /\ h[n] = h[c] + 1
      BY <2>1 DEF Nest, Ranked
    <3>2. h[c] < k
      <4>1. h[c] \in Nat /\ h[c] + 1 < k + 1
        BY <1>1, <3>1
      <4> QED  BY <4>1, SMT
    <3> QED  BY <1>3, <3>1, <3>2
  <2> QED  BY <2>1
<1> HIDE DEF Q
<1>4. h[root] + 1 \in Q
  BY <1>1, <1>2, <1>3, CountUp
<1> QED  BY <1>1, <1>4 DEF Q

\* Each height up to the root's has a node with an item that is in a leaf.
LEMMA OnTheWay ==
    ASSUME NEW N, NEW root, NEW h, NEW W, Nest(N, root, h, W, {}), NEW y, Holds(N, y),
           NEW k \in Nat, k <= h[root]
    PROVE  \E a \in DOMAIN N : h[a] = k /\ y \in W[a]
<1> DEFINE S == {j \in Nat : j <= h[root] => \E a \in DOMAIN N : h[a] = j /\ y \in W[a]}
<1>1. 0 \in S
  <2>1. PICK m \in DOMAIN N : y \in Nodes(N[m].items)
    BY DEF Holds
  <2>2. y \in W[m]
    BY <2>1 DEF Nest, Routed
  <2>3. N[m].isLeaf
    <3>1. Nodes(<<>>) = {}
      BY DEF Nodes
    <3> QED  BY <2>1, <3>1 DEF Nest, Shaped
  <2>4. h[m] = 0
    BY <2>3 DEF Nest, Ranked
  <2> QED  BY <2>2, <2>4
<1>2. ASSUME NEW j \in Nat, j \in S PROVE j + 1 \in S
  <2> SUFFICES ASSUME j + 1 <= h[root] PROVE \E a \in DOMAIN N : h[a] = j + 1 /\ y \in W[a]
    OBVIOUS
  <2>1. h[root] \in Nat
    BY DEF Nest, Ranked, Rooted
  <2>2. j <= h[root] /\ j # h[root]
    BY <2>1, SMT
  <2>3. PICK a \in DOMAIN N : h[a] = j /\ y \in W[a]
    BY <1>2, <2>2
  <2>4. PICK p, i : Child(N, p, i, a)
    BY <2>2, <2>3 DEF Nest, Rooted
  <2>5. p \in DOMAIN N /\ h[p] = h[a] + 1 /\ y \in W[p]
    BY <2>3, <2>4 DEF Nest, Ranked, Routed, Child
  <2> QED  BY <2>3, <2>5
<1> HIDE DEF S
<1>3. k \in S
  BY <1>1, <1>2, CountUp
<1> QED  BY <1>3 DEF S

\* What a leaf, an inner node and the root hold.
LEMMA HeldLeaf ==
    ASSUME NEW N, NEW root, NEW h, NEW W, Nest(N, root, h, W, {}), NEW n \in DOMAIN N, N[n].isLeaf
    PROVE  Held(N, W, n) = Nodes(N[n].items)
<1>1. ASSUME NEW y \in Held(N, W, n) PROVE y \in Nodes(N[n].items)
  <2>1. y \in W[n]
    BY DEF Held
  <2>2. PICK m \in DOMAIN N : y \in Nodes(N[m].items)
    BY DEF Held, Holds
  <2>3. m = n
    BY <2>1, <2>2, OneLeaf
  <2> QED  BY <2>2, <2>3
<1>2. ASSUME NEW y \in Nodes(N[n].items) PROVE y \in Held(N, W, n)
  BY DEF Held, Holds, Nest, Routed
<1> QED  BY <1>1, <1>2

LEMMA HeldInner ==
    ASSUME NEW N, NEW root, NEW h, NEW W, Nest(N, root, h, W, {}), NEW n \in DOMAIN N, ~ N[n].isLeaf
    PROVE  /\ \A y : y \in Held(N, W, n) <=> \E i, c : Child(N, n, i, c) /\ y \in Held(N, W, c)
           /\ \A i, j, c, d : Child(N, n, i, c) /\ Child(N, n, j, d) /\ i # j
                                 => Held(N, W, c) \cap Held(N, W, d) = {}
<1>1. ASSUME NEW i, NEW c, Child(N, n, i, c), NEW y \in Held(N, W, c) PROVE y \in Held(N, W, n)
  BY <1>1 DEF Held, Nest, Routed
<1>2. ASSUME NEW y \in Held(N, W, n) PROVE \E i, c : Child(N, n, i, c) /\ y \in Held(N, W, c)
  <2>1. y \in W[n] /\ Holds(N, y)
    BY DEF Held
  <2>2. h[n] \in Nat /\ h[n] # 0 /\ h[root] \in Nat /\ h[n] <= h[root]
    BY DEF Nest, Ranked, Rooted
  <2>3. PICK k \in Nat : h[n] = k + 1 /\ k <= h[root] /\ k # h[root]
    <3>1. h[n] - 1 \in Nat /\ h[n] = (h[n] - 1) + 1 /\ h[n] - 1 <= h[root] /\ h[n] - 1 # h[root]
      BY <2>2, SMT
    <3> QED  BY <3>1
  <2>4. PICK a \in DOMAIN N : h[a] = k /\ y \in W[a]
    BY <2>1, <2>3, OnTheWay
  <2>5. PICK p, i : Child(N, p, i, a)
    BY <2>3, <2>4 DEF Nest, Rooted
  <2>6. p \in DOMAIN N /\ h[p] = h[n] /\ y \in W[p]
    BY <2>3, <2>4, <2>5 DEF Nest, Ranked, Routed, Child
  <2>7. y \in AnyItem
    BY <2>1 DEF Nest, Routed
  <2>8. p = n
    <3>1. SUFFICES ASSUME p # n PROVE FALSE
      OBVIOUS
    <3>2. Below(W[p], W[n]) \/ Below(W[n], W[p])
      BY <2>6, <3>1, Separated
    <3>3. less(y, y)
      BY <2>1, <2>6, <3>2 DEF Below
    <3> QED  BY <2>7, <3>3, LessOrder
  <2>9. y \in Held(N, W, a)
    BY <2>1, <2>4 DEF Held
  <2> QED  BY <2>5, <2>8, <2>9
<1>3. ASSUME NEW i, NEW j, NEW c, NEW d, Child(N, n, i, c), Child(N, n, j, d), i # j,
             NEW y, y \in Held(N, W, c), y \in Held(N, W, d)
      PROVE  FALSE
  <2>1. Leads(N[n].keys, y, i) /\ Leads(N[n].keys, y, j)
    BY <1>3 DEF Held, Nest, Routed
  <2>2. N[n].keys \in Seq(AnyItem)
    BY NodeParts DEF Nest
  <2>3. i = Branch(N[n].keys, y) /\ j = Branch(N[n].keys, y)
    BY <2>1, <2>2, BranchIs
  <2> QED  BY <1>3, <2>3
<1>4. \A y : y \in Held(N, W, n) <=> \E i, c : Child(N, n, i, c) /\ y \in Held(N, W, c)
  BY <1>1, <1>2
<1> QED  BY <1>3, <1>4

LEMMA HeldRoot ==
    ASSUME NEW N, NEW root, NEW h, NEW W, Nest(N, root, h, W, {})
    PROVE  Held(N, W, root) = Everything(N)
<1>1. root \in DOMAIN N /\ W[root] \in SUBSET AnyItem /\ h[root] \in Nat
  BY DEF Nest, Rooted, Routed, Ranked
<1>2. h[root] <= h[root]
  BY <1>1, SMT
<1>3. ASSUME NEW y, Holds(N, y) PROVE y \in W[root]
  <2>1. PICK a \in DOMAIN N : h[a] = h[root] /\ y \in W[a]
    BY <1>1, <1>2, <1>3, OnTheWay
  <2>2. a = root
    <3>1. SUFFICES ASSUME a # root PROVE FALSE
      OBVIOUS
    <3>2. PICK p, i : Child(N, p, i, a)
      BY <3>1 DEF Nest, Rooted
    <3>3. p \in DOMAIN N /\ h[p] = h[root] + 1
      BY <2>1, <3>2 DEF Nest, Ranked, Child
    <3>4. h[p] <= h[root] /\ h[p] \in Nat
      BY <3>3 DEF Nest, Rooted, Ranked
    <3> QED  BY <1>1, <3>3, <3>4, SMT
  <2> QED  BY <2>1, <2>2
<1> QED  BY <1>1, <1>3 DEF Held, Everything

-----------------------------------------------------------------------------
(* Sums over a node's children                                               *)

\* Induction on a finite set, one element at a time.
LEMMA SubsetInduction ==
    ASSUME NEW S, IsFiniteSet(S), NEW P, {} \in P,
           \A X \in SUBSET S : X # {} /\ X \ {CHOOSE x \in X : TRUE} \in P => X \in P
    PROVE  \A X \in SUBSET S : X \in P
<1> DEFINE N == Cardinality(S)
           Q == {n \in Nat : \A X \in SUBSET S : Cardinality(X) = n => X \in P}
<1>1. \A X \in SUBSET S : IsFiniteSet(X) /\ Cardinality(X) \in Nat
  BY FS_Subset, FS_CardinalityType
<1>2. 0 \in Q
  <2>1. ASSUME NEW X \in SUBSET S, Cardinality(X) = 0 PROVE X \in P
    <3>1. X = {}
      BY <1>1, <2>1, FS_EmptySet, ZenonT(40)
    <3> QED  BY <3>1
  <2> QED  BY <2>1
<1>3. ASSUME NEW n \in Nat, n \in Q PROVE n + 1 \in Q
  <2> SUFFICES ASSUME NEW X \in SUBSET S, Cardinality(X) = n + 1 PROVE X \in P
    OBVIOUS
  <2> DEFINE x == CHOOSE x \in X : TRUE
  <2>1. IsFiniteSet(X) /\ X # {}
    <3>1. n + 1 # 0
      BY SMT
    <3> QED  BY <1>1, <3>1, FS_EmptySet
  <2>2. x \in X
    BY <2>1
  <2>3. X \ {x} \in SUBSET S /\ Cardinality(X \ {x}) = n
    <3>1. Cardinality(X \ {x}) = Cardinality(X) - 1
      BY <2>1, <2>2, FS_RemoveElement
    <3>2. (n + 1) - 1 = n
      BY SMT
    <3> QED  BY <3>1, <3>2
  <2>4. X \ {x} \in P
    BY <1>3, <2>3
  <2> QED  BY <2>1, <2>4
<1> HIDE DEF Q
<1>4. \A n \in Nat : n \in Q
  BY <1>2, <1>3, CountUp
<1> QED  BY <1>1, <1>4 DEF Q

\* g is the recursion by which the values of f are summed.
SumsBy(g, f, S) ==
    g = [X \in SUBSET S |-> IF X = {} THEN 0
                            ELSE f[CHOOSE x \in X : TRUE] + g[X \ {CHOOSE x \in X : TRUE}]]

LEMMA TotalBy ==
    ASSUME NEW numbers, \E g : SumsBy(g, numbers, DOMAIN numbers)
    PROVE  \E g : SumsBy(g, numbers, DOMAIN numbers) /\ Total(numbers) = g[DOMAIN numbers]
<1>1. SumsBy(CHOOSE h : SumsBy(h, numbers, DOMAIN numbers), numbers, DOMAIN numbers)
  OBVIOUS
<1>2. Total(numbers) = (CHOOSE h : SumsBy(h, numbers, DOMAIN numbers))[DOMAIN numbers]
  BY DEF Total, MapThenSumSet, MapThenFoldSet, SumsBy
<1> QED  BY <1>1, <1>2

\* Finite sets that have no element in common, their sizes and their union.
Apart(k, u, numbers, all) ==
    /\ k \in Nat /\ \A i \in 1 .. k : IsFiniteSet(u[i])
    /\ \A i, j \in 1 .. k : i # j => u[i] \cap u[j] = {}
    /\ numbers = [i \in 1 .. k |-> Cardinality(u[i])]
    /\ all = UNION {u[i] : i \in 1 .. k}

\* The sizes of disjoint sets add up to the size of their union.
LEMMA TotalIs ==
    ASSUME NEW k, NEW u, NEW numbers, NEW all, Apart(k, u, numbers, all)
    PROVE  IsFiniteSet(all) /\ Total(numbers) = Cardinality(all)
<1> DEFINE D == 1 .. k
           All(X) == UNION {u[i] : i \in X}
           pick(X) == CHOOSE x \in X : TRUE
           g == [X \in SUBSET D |-> Cardinality(All(X))]
           P == {X \in SUBSET D : IsFiniteSet(All(X))}
<1>0. /\ k \in Nat /\ \A i \in 1 .. k : IsFiniteSet(u[i])
      /\ \A i, j \in 1 .. k : i # j => u[i] \cap u[j] = {}
      /\ numbers = [i \in 1 .. k |-> Cardinality(u[i])]
      /\ all = UNION {u[i] : i \in 1 .. k}
  BY DEF Apart
<1>1. IsFiniteSet(D) /\ DOMAIN numbers = D
  BY <1>0, FS_Interval
<1>2. \A X \in SUBSET D : X # {} => /\ pick(X) \in X /\ pick(X) \in D /\ X \ {pick(X)} \in SUBSET D
                                    /\ All(X) = All(X \ {pick(X)}) \union u[pick(X)]
                                    /\ All(X \ {pick(X)}) \cap u[pick(X)] = {}
  <2> SUFFICES ASSUME NEW X \in SUBSET D, X # {}
               PROVE /\ pick(X) \in X /\ pick(X) \in D /\ X \ {pick(X)} \in SUBSET D
                     /\ All(X) = All(X \ {pick(X)}) \union u[pick(X)]
                     /\ All(X \ {pick(X)}) \cap u[pick(X)] = {}
    OBVIOUS
  <2>1. pick(X) \in X /\ pick(X) \in D /\ X \ {pick(X)} \in SUBSET D
    OBVIOUS
  <2> HIDE DEF pick
  <2>2. All(X) = All(X \ {pick(X)}) \union u[pick(X)]
    BY <2>1
  <2>3. All(X \ {pick(X)}) \cap u[pick(X)] = {}
    BY <1>0, <2>1
  <2> QED  BY <2>1, <2>2, <2>3
<1>3. All({}) = {}
  OBVIOUS
<1> HIDE DEF D, All, pick
<1>4. {} \in P
  BY <1>3, FS_EmptySet
<1>5. ASSUME NEW X \in SUBSET D, X # {}, X \ {pick(X)} \in P PROVE X \in P
  <2>1. IsFiniteSet(u[pick(X)]) /\ IsFiniteSet(All(X \ {pick(X)}))
    BY <1>0, <1>2, <1>5 DEF D
  <2>2. IsFiniteSet(All(X \ {pick(X)}) \union u[pick(X)])
    BY <2>1, FS_Union
  <2> QED  BY <1>2, <1>5, <2>2
<1>6. \A X \in SUBSET D : X \in P
  <2> HIDE DEF P
  <2>1. \A X \in SUBSET D : X # {} /\ X \ {CHOOSE x \in X : TRUE} \in P => X \in P
    BY <1>5 DEF pick
  <2> QED  BY <1>1, <1>4, <2>1, SubsetInduction
<1>7. ASSUME NEW X \in SUBSET D, X # {}
      PROVE  g[X] = numbers[pick(X)] + g[X \ {pick(X)}] /\ g[X] \in Nat
  <2>1. IsFiniteSet(u[pick(X)]) /\ IsFiniteSet(All(X \ {pick(X)})) /\ IsFiniteSet(All(X))
    BY <1>0, <1>2, <1>6, <1>7 DEF D
  <2>2. /\ Cardinality(u[pick(X)]) \in Nat /\ Cardinality(All(X \ {pick(X)})) \in Nat
        /\ Cardinality(All(X)) \in Nat
    BY <2>1, FS_CardinalityType
  <2>3. Cardinality(All(X \ {pick(X)}) \union u[pick(X)])
        = Cardinality(All(X \ {pick(X)})) + Cardinality(u[pick(X)])
          - Cardinality(All(X \ {pick(X)}) \cap u[pick(X)])
    BY <2>1, FS_Union
  <2>4. Cardinality(All(X \ {pick(X)}) \cap u[pick(X)]) = 0
    BY <1>2, <1>7, FS_EmptySet
  <2>5. Cardinality(All(X)) = Cardinality(All(X \ {pick(X)})) + Cardinality(u[pick(X)]) - 0
    BY <1>2, <1>7, <2>3, <2>4
  <2>6. Cardinality(All(X)) = Cardinality(u[pick(X)]) + Cardinality(All(X \ {pick(X)}))
    BY <2>2, <2>5, SMT
  <2>7. numbers[pick(X)] = Cardinality(u[pick(X)])
    BY <1>0, <1>2, <1>7 DEF D
  <2>8. g[X] = Cardinality(All(X)) /\ g[X \ {pick(X)}] = Cardinality(All(X \ {pick(X)}))
    BY <1>2, <1>7
  <2> QED  BY <2>2, <2>6, <2>7, <2>8
<1>8. g[{}] = 0
  <2>1. g[{}] = Cardinality({})
    BY <1>3
  <2> QED  BY <2>1, FS_EmptySet
<1>9. \E f : SumsBy(f, numbers, D)
  <2>1. PICK f : f = g
    OBVIOUS
  <2>2. f = [X \in SUBSET D |-> f[X]]
    BY <2>1
  <2>3. \A X \in SUBSET D : f[X] = IF X = {} THEN 0 ELSE numbers[pick(X)] + f[X \ {pick(X)}]
    <3> HIDE DEF g
    <3> QED  BY <1>7, <1>8, <2>1
  <2> HIDE DEF g
  <2>4. SumsBy(f, numbers, D)
    BY <2>2, <2>3 DEF SumsBy, pick
  <2> QED  BY <2>4
<1>10. PICK f : SumsBy(f, numbers, D) /\ Total(numbers) = f[D]
  <2> HIDE DEF P, g
  <2> QED  BY <1>1, <1>9, TotalBy
<1> DEFINE E == {X \in SUBSET D : f[X] = g[X]}
<1> HIDE DEF P, g
<1>11. \A X \in SUBSET D : f[X] = IF X = {} THEN 0 ELSE numbers[pick(X)] + f[X \ {pick(X)}]
  BY <1>10 DEF SumsBy, pick
<1>12. {} \in E
  BY <1>8, <1>11
<1>13. ASSUME NEW X \in SUBSET D, X # {}, X \ {pick(X)} \in E PROVE X \in E
  <2>1. f[X] = numbers[pick(X)] + f[X \ {pick(X)}]
    BY <1>11, <1>13
  <2> QED  BY <1>7, <1>13, <2>1
<1>14. \A X \in SUBSET D : X \in E
  <2> HIDE DEF E
  <2>1. \A X \in SUBSET D : X # {} /\ X \ {CHOOSE x \in X : TRUE} \in E => X \in E
    BY <1>13 DEF pick
  <2> QED  BY <1>1, <1>12, <2>1, SubsetInduction
<1>15. f[D] = g[D] /\ D \in P /\ g[D] = Cardinality(All(D))
  BY <1>6, <1>14 DEF g
<1> QED  BY <1>0, <1>10, <1>15 DEF D, All, P

\* A sorted list has as many items as it is long.
LEMMA ListSize ==
    ASSUME NEW list, Sorted(list)
    PROVE  IsFiniteSet(Nodes(list)) /\ Cardinality(Nodes(list)) = Len(list)
<1> DEFINE D == 1 .. Len(list)
           f == [i \in D |-> list[i]]
<1>1. Len(list) \in Nat /\ \A i \in D : list[i] \in AnyItem
  BY ListParts
<1>2. IsFiniteSet(D) /\ Cardinality(D) = Len(list)
  <2>1. IF 1 > Len(list) THEN Len(list) = 0 ELSE Len(list) - 1 + 1 = Len(list)
    BY <1>1, SMT
  <2>2. IsFiniteSet(D) /\ Cardinality(D) = IF 1 > Len(list) THEN 0 ELSE Len(list) - 1 + 1
    BY <1>1, FS_Interval
  <2> QED  BY <2>1, <2>2
<1>3. \A i, j \in D : list[i] = list[j] => i = j
  <2> SUFFICES ASSUME NEW i \in D, NEW j \in D, list[i] = list[j], i # j PROVE FALSE
    OBVIOUS
  <2>1. i < j \/ j < i
    BY <1>1, SMT
  <2>2. less(list[i], list[i])
    BY <2>1 DEF Sorted
  <2> QED  BY <1>1, <2>2, LessOrder
<1>4. f \in Surjection(D, Nodes(list)) /\ f \in Injection(D, Nodes(list))
  BY <1>3 DEF Surjection, Injection, Nodes, IsInjective
<1> HIDE DEF D, f
<1> QED  BY <1>2, <1>4, FS_Surjection

-----------------------------------------------------------------------------
(* The counts                                                                *)

LEMMA HeldFinite ==
    ASSUME NEW N, NEW root, NEW h, NEW W, Nest(N, root, h, W, {}), IsFiniteSet(Everything(N)),
           NEW n \in DOMAIN N
    PROVE  IsFiniteSet(Held(N, W, n)) /\ Cardinality(Held(N, W, n)) \in Nat
<1>1. Held(N, W, n) \in SUBSET Everything(N)
  BY DEF Held, Everything, Nest, Routed
<1>2. IsFiniteSet(Held(N, W, n))
  BY <1>1, FS_Subset
<1> QED  BY <1>2, FS_CardinalityType

\* What the first k children of a node hold, together and in numbers.
HeldFirst(N, W, n, k, numbers, all) ==
    /\ k \in 0 .. Len(N[n].children)
    /\ numbers = [i \in 1 .. k |-> Cardinality(Held(N, W, N[n].children[i]))]
    /\ all = UNION {Held(N, W, N[n].children[i]) : i \in 1 .. k}

\* The first k children of an inner node hold as many items as their counts add up to.
LEMMA HeldTotal ==
    ASSUME NEW N, NEW root, NEW h, NEW W, Nest(N, root, h, W, {}), IsFiniteSet(Everything(N)),
           NEW n \in DOMAIN N, ~ N[n].isLeaf,
           NEW k, NEW numbers, NEW all, HeldFirst(N, W, n, k, numbers, all)
    PROVE  Total(numbers) = Cardinality(all) /\ IsFiniteSet(all)
<1> DEFINE u == [i \in 1 .. k |-> Held(N, W, N[n].children[i])]
<1>0. /\ k \in 0 .. Len(N[n].children)
      /\ numbers = [i \in 1 .. k |-> Cardinality(Held(N, W, N[n].children[i]))]
      /\ all = UNION {Held(N, W, N[n].children[i]) : i \in 1 .. k}
  BY DEF HeldFirst
<1>1. Len(N[n].children) \in Nat
  BY NodeParts DEF Nest
<1>2. k \in Nat /\ \A i \in 1 .. k : i \in 1 .. Len(N[n].children)
  BY <1>0, <1>1, SMT
<1>3. \A i \in 1 .. k : Child(N, n, i, N[n].children[i]) /\ N[n].children[i] \in DOMAIN N
  BY <1>2 DEF Child, Nest, Ranked
<1>4. \A i \in 1 .. k : u[i] = Held(N, W, N[n].children[i]) /\ IsFiniteSet(u[i])
  BY <1>3, HeldFinite
<1>5. \A i, j \in 1 .. k : i # j => u[i] \cap u[j] = {}
  <2>1. \A i, j, c, d : Child(N, n, i, c) /\ Child(N, n, j, d) /\ i # j
                                 => Held(N, W, c) \cap Held(N, W, d) = {}
    BY HeldInner
  <2> QED  BY <1>3, <2>1
<1>6. numbers = [i \in 1 .. k |-> Cardinality(u[i])]
  BY <1>0
<1>7. all = UNION {u[i] : i \in 1 .. k}
  BY <1>0, <1>4
<1> HIDE DEF u
<1>8. Apart(k, u, numbers, all)
  BY <1>2, <1>4, <1>5, <1>6, <1>7, Zenon DEF Apart
<1> QED  BY <1>8, TotalIs

\* f is the recursion of refreshCounts.
CountsBy(t, f) ==
    f = [n \in DOMAIN t.nodes |->
            IF t.nodes[n].isLeaf THEN Len(t.nodes[n].items)
            ELSE Total([i \in DOMAIN t.nodes[n].children |-> f[t.nodes[n].children[i]]])]

LEMMA RefreshBy ==
    ASSUME NEW t, \E f : CountsBy(t, f)
    PROVE  \E f : /\ CountsBy(t, f)
                  /\ refreshCounts(t) = [t EXCEPT !.nodes = [n \in DOMAIN @ |-> [@[n] EXCEPT !.count = f[n]]]]
<1>1. CountsBy(t, CHOOSE g : CountsBy(t, g))
  OBVIOUS
<1>2. refreshCounts(t) = [t EXCEPT !.nodes =
          [n \in DOMAIN @ |-> [@[n] EXCEPT !.count = (CHOOSE g : CountsBy(t, g))[n]]]]
  BY DEF refreshCounts, CountsBy
<1> QED  BY <1>1, <1>2

\* The counts are the numbers of items under the nodes.
LEMMA CountsAre ==
    ASSUME NEW t, NEW h, NEW W, Nest(t.nodes, t.root, h, W, {}), IsFiniteSet(Everything(t.nodes))
    PROVE  /\ \E f : CountsBy(t, f)
           /\ \A f : CountsBy(t, f) =>
                 \A n \in DOMAIN t.nodes : f[n] = Cardinality(Held(t.nodes, W, n))
<1> DEFINE N == t.nodes
           Step(f, n) == IF N[n].isLeaf THEN Len(N[n].items)
                         ELSE Total([i \in DOMAIN N[n].children |-> f[N[n].children[i]]])
<1>1. ASSUME NEW n \in DOMAIN N, NEW f,
             \A i, c : Child(N, n, i, c) => f[c] = Cardinality(Held(N, W, c))
      PROVE  Step(f, n) = Cardinality(Held(N, W, n))
  <2>1. CASE N[n].isLeaf
    <3>1. Held(N, W, n) = Nodes(N[n].items)
      BY <2>1, HeldLeaf
    <3>2. Sorted(N[n].items)
      BY DEF Nest, Shaped
    <3>3. Cardinality(Nodes(N[n].items)) = Len(N[n].items)
      BY <3>2, ListSize
    <3> QED  BY <2>1, <3>1, <3>3
  <2>2. CASE ~ N[n].isLeaf
    <3> DEFINE k == Len(N[n].children)
               numbers == [i \in 1 .. k |-> Cardinality(Held(N, W, N[n].children[i]))]
    <3>1. k \in 0 .. k /\ DOMAIN N[n].children = 1 .. k
      <4>1. k \in Nat /\ N[n].children \in Seq(Nat)
        BY NodeParts DEF Nest
      <4>2. \A j \in Nat : j \in 0 .. j
        BY SMT
      <4> QED  BY <4>1, <4>2
    <3>2. \A i \in 1 .. k : Child(N, n, i, N[n].children[i])
      BY DEF Child
    <3>3. [i \in DOMAIN N[n].children |-> f[N[n].children[i]]] = numbers
      BY <1>1, <3>1, <3>2
    <3>4. Total(numbers) = Cardinality(UNION {Held(N, W, N[n].children[i]) : i \in 1 .. k})
      <4>1. PICK all : all = UNION {Held(N, W, N[n].children[i]) : i \in 1 .. k}
        OBVIOUS
      <4>2. HeldFirst(N, W, n, k, numbers, all)
        BY <3>1, <4>1 DEF HeldFirst
      <4>3. Total(numbers) = Cardinality(all)
        BY <2>2, <4>2, HeldTotal
      <4> QED  BY <4>1, <4>3
    <3>5. Held(N, W, n) = UNION {Held(N, W, N[n].children[i]) : i \in 1 .. k}
      <4>1. \A y : y \in Held(N, W, n) <=> \E i, c : Child(N, n, i, c) /\ y \in Held(N, W, c)
        BY <2>2, HeldInner
      <4> QED  BY <4>1 DEF Child
    <3> QED  BY <2>2, <3>3, <3>4, <3>5
  <2> QED  BY <2>1, <2>2
<1> HIDE DEF Step
<1>c. \A f : CountsBy(t, f) <=> f = [n \in DOMAIN N |-> Step(f, n)]
  BY Zenon DEF CountsBy, Step
<1>2. \E f : CountsBy(t, f)
  <2>1. PICK f : f = [n \in DOMAIN N |-> Cardinality(Held(N, W, n))]
    OBVIOUS
  <2>2. \A n \in DOMAIN N : \A i, c : Child(N, n, i, c) => f[c] = Cardinality(Held(N, W, c))
    BY <2>1 DEF Child, Nest, Ranked
  <2>3. \A n \in DOMAIN N : f[n] = Step(f, n)
    BY <1>1, <2>1, <2>2
  <2>4. f = [n \in DOMAIN N |-> Step(f, n)]
    BY <2>1, <2>3
  <2> QED  BY <1>c, <2>4
<1>3. ASSUME NEW f, CountsBy(t, f) PROVE \A n \in DOMAIN N : f[n] = Cardinality(Held(N, W, n))
  <2> DEFINE S == {n \in DOMAIN N : f[n] = Cardinality(Held(N, W, n))}
  <2>1. \A n \in DOMAIN N : f[n] = Step(f, n)
    BY <1>c, <1>3
  <2>2. ASSUME NEW n \in DOMAIN N, \A i, c : Child(N, n, i, c) => c \in S PROVE n \in S
    BY <1>1, <2>1, <2>2
  <2>3. \A n \in DOMAIN N : n \in S
    <3> HIDE DEF S
    <3> QED  BY <2>2, ByHeight
  <2> QED  BY <2>3
<1> QED  BY <1>2, <1>3

\* Nodes with other counts.
Counted(N, M, W) ==
    /\ Typed(M) /\ DOMAIN M = DOMAIN N
    /\ \A n \in DOMAIN N :
          /\ M[n].isLeaf = N[n].isLeaf /\ M[n].items = N[n].items /\ M[n].keys = N[n].keys
          /\ M[n].children = N[n].children /\ M[n].next = N[n].next /\ M[n].prev = N[n].prev
          /\ M[n].count = Cardinality(Held(N, W, n))

\* refreshCounts gives every node the number of items it holds.
LEMMA RefreshIs ==
    ASSUME NEW t, IsTree(t), NEW h, NEW W, Nest(t.nodes, t.root, h, W, {}),
           IsFiniteSet(Everything(t.nodes))
    PROVE  \E M : refreshCounts(t) = With(t, M) /\ Counted(t.nodes, M, W)
<1> DEFINE N == t.nodes
<1>1. /\ \E f : CountsBy(t, f)
      /\ \A f : CountsBy(t, f) => \A n \in DOMAIN N : f[n] = Cardinality(Held(N, W, n))
  BY CountsAre
<1>2. PICK f : /\ CountsBy(t, f)
               /\ refreshCounts(t) = [t EXCEPT !.nodes = [n \in DOMAIN @ |-> [@[n] EXCEPT !.count = f[n]]]]
  BY <1>1, RefreshBy
<1>3. PICK M : M = [n \in DOMAIN N |-> [N[n] EXCEPT !.count = f[n]]]
  OBVIOUS
<1>4. refreshCounts(t) = With(t, M)
  BY <1>2, <1>3 DEF With
<1>5. \A n \in DOMAIN N : f[n] = Cardinality(Held(N, W, n)) /\ f[n] \in Nat
  BY <1>1, <1>2, HeldFinite
<1>6. ASSUME NEW n \in DOMAIN N
      PROVE  /\ M[n] \in AnyNode /\ M[n].count = Cardinality(Held(N, W, n))
             /\ M[n].isLeaf = N[n].isLeaf /\ M[n].items = N[n].items /\ M[n].keys = N[n].keys
             /\ M[n].children = N[n].children /\ M[n].next = N[n].next /\ M[n].prev = N[n].prev
  <2>1. N[n] \in AnyNode
    BY NodeParts DEF Nest
  <2>2. M[n] = [N[n] EXCEPT !.count = f[n]] /\ f[n] \in Nat
    BY <1>3, <1>5
  <2>3. /\ M[n] \in AnyNode /\ M[n].count = f[n]
        /\ M[n].isLeaf = N[n].isLeaf /\ M[n].items = N[n].items /\ M[n].keys = N[n].keys
        /\ M[n].children = N[n].children /\ M[n].next = N[n].next /\ M[n].prev = N[n].prev
    BY <2>1, <2>2 DEF AnyNode
  <2> QED  BY <1>5, <2>3
<1>7. Typed(M) /\ DOMAIN M = DOMAIN N
  BY <1>3, <1>6 DEF Typed, Nest
<1>8. Counted(N, M, W)
  BY <1>6, <1>7 DEF Counted
<1> QED  BY <1>4, <1>8

\* Other counts change nothing else.
LEMMA CountedSame ==
    ASSUME NEW N, NEW root, NEW h, NEW W, Nest(N, root, h, W, {}), NEW M, Counted(N, M, W)
    PROVE  /\ Nest(M, root, h, W, {})
           /\ \A head, L : Chained(N, head, L) => Chained(M, head, L)
           /\ \A y : Holds(M, y) <=> Holds(N, y)
           /\ \A n : Held(M, W, n) = Held(N, W, n)
<1>1. /\ Typed(M) /\ DOMAIN M = DOMAIN N
      /\ \A n \in DOMAIN N :
          /\ M[n].isLeaf = N[n].isLeaf /\ M[n].items = N[n].items /\ M[n].keys = N[n].keys
          /\ M[n].children = N[n].children /\ M[n].next = N[n].next /\ M[n].prev = N[n].prev
  BY DEF Counted
<1>2. \A n \in DOMAIN N : /\ Sorted(N[n].items) /\ Nodes(N[n].items) \subseteq W[n]
                          /\ ~ N[n].isLeaf => N[n].items = <<>>
  BY DEF Nest, Shaped, Routed
<1>3. Nest(M, root, h, W, {})
  <2>1. /\ Typed(M) /\ DOMAIN M = DOMAIN N
        /\ \A n \in DOMAIN N :
              /\ M[n].isLeaf = N[n].isLeaf /\ M[n].keys = N[n].keys /\ M[n].children = N[n].children
              /\ Sorted(M[n].items) /\ Nodes(M[n].items) \subseteq W[n]
              /\ ~ M[n].isLeaf => M[n].items = <<>>
    BY <1>1, <1>2
  <2> QED  BY <2>1, SameNest
<1>4. Leafs(M) = Leafs(N)
  BY <1>1 DEF Leafs
<1>5. \A head, L : Chained(N, head, L) => Chained(M, head, L)
  <2>1. \A n \in Leafs(N) : M[n].next = N[n].next /\ M[n].prev = N[n].prev
    BY <1>1 DEF Leafs
  <2> QED  BY <1>4, <2>1, SameChain
<1>6. \A y : Holds(M, y) <=> Holds(N, y)
  BY <1>1 DEF Holds
<1>7. \A n : Held(M, W, n) = Held(N, W, n)
  BY <1>6 DEF Held
<1> QED  BY <1>3, <1>5, <1>6, <1>7

-----------------------------------------------------------------------------
(* The leaves and the table of members                                       *)

\* The leaves hold what the table says.
Kept(N, members, length) ==
    /\ members = [m \in DOMAIN members |-> members[m]]
    /\ \A m \in DOMAIN members : m \in Int /\ members[m] \in Int
    /\ \A y : Holds(N, y) <=> \E m \in DOMAIN members : y = Item(m, members[m])
    /\ IsFiniteSet(Everything(N)) /\ length = Cardinality(Everything(N))

\* The table names what the leaves hold.
LEMMA KeptItems ==
    ASSUME NEW N, NEW members, NEW length, Kept(N, members, length)
    PROVE  /\ \A y : Holds(N, y) => /\ y \in AnyItem /\ y.member \in DOMAIN members
                                    /\ members[y.member] = y.score
           /\ \A m \in DOMAIN members : Holds(N, Item(m, members[m]))
           /\ \A y : y \in Everything(N) <=> Holds(N, y)
<1>1. \A m \in DOMAIN members : /\ Item(m, members[m]) \in AnyItem
                                /\ Item(m, members[m]).member = m
                                /\ Item(m, members[m]).score = members[m]
  BY Items DEF Kept
<1>2. \A y : Holds(N, y) <=> \E m \in DOMAIN members : y = Item(m, members[m])
  BY DEF Kept
<1>3. \A y : Holds(N, y) => y \in AnyItem /\ y.member \in DOMAIN members
                            /\ members[y.member] = y.score
  BY <1>1, <1>2
<1> QED  BY <1>2, <1>3 DEF Everything

LEMMA KeptSame ==
    ASSUME NEW N, NEW members, NEW length, Kept(N, members, length),
           NEW M, \A y : Holds(M, y) <=> Holds(N, y)
    PROVE  Kept(M, members, length)
<1>1. Everything(M) = Everything(N)
  BY DEF Everything
<1> QED  BY <1>1, Zenon DEF Kept

LEMMA KeptInsert ==
    ASSUME NEW N, NEW members, NEW length, Kept(N, members, length),
           NEW m \in Int, m \notin DOMAIN members, NEW score \in Int, NEW x, x = Item(m, score)
    PROVE  /\ x \in AnyItem /\ ~ Holds(N, x)
           /\ \A M : (\A y : Holds(M, y) <=> Holds(N, y) \/ y = x)
                        => Kept(M, Scored(members, m, score), length + 1)
<1>1. x \in AnyItem /\ x.member = m /\ x.score = score
  BY Items
<1>2. ~ Holds(N, x)
  BY <1>1, KeptItems
<1>3. ASSUME NEW M, \A y : Holds(M, y) <=> Holds(N, y) \/ y = x
      PROVE  Kept(M, Scored(members, m, score), length + 1)
  <2> PICK new : new = Scored(members, m, score)
    OBVIOUS
  <2>1. /\ new = [a \in DOMAIN new |-> new[a]] /\ DOMAIN new = DOMAIN members \union {m}
        /\ new[m] = score /\ \A a \in DOMAIN members : new[a] = members[a]
    BY DEF Scored
  <2>2. \A a \in DOMAIN new : a \in Int /\ new[a] \in Int
    BY <2>1 DEF Kept
  <2>3. \A y : Holds(N, y) <=> \E a \in DOMAIN members : y = Item(a, members[a])
    BY DEF Kept
  <2>4. \A y : Holds(M, y) <=> \E a \in DOMAIN new : y = Item(a, new[a])
    BY <1>3, <2>1, <2>3
  <2>5. Everything(M) = Everything(N) \union {x} /\ x \notin Everything(N)
    BY <1>1, <1>2, <1>3 DEF Everything
  <2>6. IsFiniteSet(Everything(N)) /\ length = Cardinality(Everything(N))
    BY DEF Kept
  <2>7. IsFiniteSet(Everything(M)) /\ length + 1 = Cardinality(Everything(M))
    BY <2>5, <2>6, FS_AddElement
  <2>8. Kept(M, new, length + 1)
    BY <2>1, <2>2, <2>4, <2>7, Zenon DEF Kept
  <2> QED  BY <2>8
<1> QED  BY <1>1, <1>2, <1>3

LEMMA KeptRemove ==
    ASSUME NEW N, NEW members, NEW length, Kept(N, members, length),
           NEW m \in DOMAIN members, NEW x, x = Item(m, members[m])
    PROVE  /\ x \in AnyItem /\ Holds(N, x)
           /\ \A M : (\A y : Holds(M, y) <=> Holds(N, y) /\ y # x)
                        => Kept(M, Unscored(members, m), length - 1)
<1>1. x \in AnyItem /\ x.member = m /\ x.score = members[m]
  BY Items DEF Kept
<1>2. Holds(N, x)
  BY KeptItems
<1>3. ASSUME NEW M, \A y : Holds(M, y) <=> Holds(N, y) /\ y # x
      PROVE  Kept(M, Unscored(members, m), length - 1)
  <2> PICK new : new = Unscored(members, m)
    OBVIOUS
  <2>1. /\ new = [a \in DOMAIN new |-> new[a]] /\ DOMAIN new = DOMAIN members \ {m}
        /\ \A a \in DOMAIN new : new[a] = members[a]
    BY DEF Unscored
  <2>2. \A a \in DOMAIN new : a \in Int /\ new[a] \in Int
    BY <2>1 DEF Kept
  <2>3. \A y : Holds(N, y) <=> \E a \in DOMAIN members : y = Item(a, members[a])
    BY DEF Kept
  <2>4. \A a \in DOMAIN members : Item(a, members[a]) = x <=> a = m
    <3>1. \A a \in DOMAIN members : Item(a, members[a]).member = a
      BY DEF Item
    <3> QED  BY <1>1, <3>1
  <2>5. \A y : Holds(M, y) <=> \E a \in DOMAIN new : y = Item(a, new[a])
    BY <1>3, <2>1, <2>3, <2>4
  <2>6. Everything(M) = Everything(N) \ {x} /\ x \in Everything(N)
    BY <1>1, <1>2, <1>3 DEF Everything
  <2>7. IsFiniteSet(Everything(N)) /\ length = Cardinality(Everything(N))
    BY DEF Kept
  <2>8. IsFiniteSet(Everything(M)) /\ length - 1 = Cardinality(Everything(M))
    BY <2>6, <2>7, FS_RemoveElement
  <2>9. Kept(M, new, length - 1)
    BY <2>1, <2>2, <2>5, <2>8, Zenon DEF Kept
  <2> QED  BY <2>9
<1> QED  BY <1>1, <1>2, <1>3

-----------------------------------------------------------------------------
(* The calls                                                                 *)

\* A tree whose nodes are the shape of one, with its table.
Standing(t, h, W, L) ==
    /\ IsTree(t) /\ Tree(t.nodes, t.root, t.leafHead, h, W, L, {}) /\ Filled(t.nodes, {t.root})
    /\ Kept(t.nodes, t.members, t.length)

\* And with its counts.
Sound(t, h, W, L) ==
    /\ Standing(t, h, W, L)
    /\ \A n \in DOMAIN t.nodes : t.nodes[n].count = Cardinality(Held(t.nodes, W, n))

\* The inductive invariant of the tree, for some heights, scopes and chain of leaves.
TreeOK(t) == \E h, W, L : Sound(t, h, W, L)

LEMMA TreeWhole ==
    ASSUME NEW N, NEW root, NEW head, NEW h, NEW W, NEW L
    PROVE  /\ Whole(N, root, head, h, W, L)
                 => Tree(N, root, head, h, W, L, {}) /\ Filled(N, {root})
           /\ Tree(N, root, head, h, W, L, {}) /\ Filled(N, {root}) /\ ~ IsEmpty(N[root])
                 => Whole(N, root, head, h, W, L)
  BY DEF Whole, Tree, Filled, NoneEmptyBut, IsEmpty, Sized, Slim

\* refreshCounts sets the counts and nothing else.
LEMMA SettleIs ==
    ASSUME NEW t, NEW h, NEW W, NEW L, Standing(t, h, W, L)
    PROVE  TreeOK(refreshCounts(t)) /\ refreshCounts(t).members = t.members
<1>1. /\ IsTree(t) /\ Nest(t.nodes, t.root, h, W, {}) /\ Chained(t.nodes, t.leafHead, L)
      /\ InOrder(W, L) /\ Sized(t.nodes) /\ Filled(t.nodes, {t.root})
      /\ Kept(t.nodes, t.members, t.length) /\ IsFiniteSet(Everything(t.nodes))
  BY DEF Standing, Tree, Kept
<1>2. PICK M : refreshCounts(t) = With(t, M) /\ Counted(t.nodes, M, W)
  BY <1>1, RefreshIs
<1>3. PICK s : s = With(t, M)
  OBVIOUS
<1>4. /\ IsTree(s) /\ s.nodes = M /\ s.root = t.root /\ s.leafHead = t.leafHead
      /\ s.members = t.members /\ s.length = t.length
  BY <1>1, <1>3, WithIs
<1>5. PICK N : N = t.nodes
  OBVIOUS
<1>6. /\ Nest(M, t.root, h, W, {}) /\ Chained(M, t.leafHead, L)
      /\ \A y : Holds(M, y) <=> Holds(N, y)
      /\ \A n : Held(M, W, n) = Held(N, W, n)
  <2>1. Nest(N, t.root, h, W, {}) /\ Counted(N, M, W) /\ Chained(N, t.leafHead, L)
    BY <1>1, <1>2, <1>5
  <2> QED  BY <2>1, CountedSame
<1>7. /\ DOMAIN M = DOMAIN N
      /\ \A n \in DOMAIN N :
          /\ M[n].isLeaf = N[n].isLeaf /\ M[n].items = N[n].items
          /\ M[n].children = N[n].children /\ M[n].next = N[n].next
          /\ M[n].count = Cardinality(Held(N, W, n))
  BY <1>2, <1>5 DEF Counted
<1>8. Sized(M) /\ Filled(M, {t.root})
  BY <1>1, <1>5, <1>7 DEF Sized, Filled
<1>9. Kept(M, t.members, t.length)
  BY <1>1, <1>5, <1>6, KeptSame
<1>10. Tree(M, t.root, t.leafHead, h, W, L, {})
  BY <1>1, <1>6, <1>8 DEF Tree
<1>11. Standing(s, h, W, L)
  BY <1>4, <1>8, <1>9, <1>10 DEF Standing
<1>12. \A n \in DOMAIN s.nodes : s.nodes[n].count = Cardinality(Held(s.nodes, W, n))
  BY <1>4, <1>6, <1>7
<1>13. Sound(s, h, W, L)
  BY <1>11, <1>12 DEF Sound
<1> QED  BY <1>2, <1>3, <1>4, <1>13 DEF TreeOK

\* The tree with this table.
Booked(t, members, length) == [t EXCEPT !.members = members, !.length = length]

LEMMA BookedIs ==
    ASSUME NEW t, IsTree(t), NEW members, NEW length
    PROVE  /\ IsTree(Booked(t, members, length)) /\ Booked(t, members, length).nodes = t.nodes
           /\ Booked(t, members, length).root = t.root
           /\ Booked(t, members, length).leafHead = t.leafHead
           /\ Booked(t, members, length).members = members
           /\ Booked(t, members, length).length = length
<1>1. PICK s : s = [t EXCEPT !.members = members]
  OBVIOUS
<1>2. /\ IsTree(s) /\ s.nodes = t.nodes /\ s.root = t.root /\ s.leafHead = t.leafHead
      /\ s.members = members /\ s.length = t.length
  BY <1>1 DEF IsTree
<1>3. Booked(t, members, length) = [s EXCEPT !.length = length]
  BY <1>1 DEF Booked
<1> QED  BY <1>2, <1>3 DEF IsTree

\* add of a new member keeps the invariant.
LEMMA InsertItemOK ==
    ASSUME NEW t, TreeOK(t), NEW m \in Int, m \notin DOMAIN t.members, NEW score \in Int
    PROVE  TreeOK(InsertItem(t, m, score)) /\ InsertItem(t, m, score).members = Scored(t.members, m, score)
<1>1. PICK h, W, L : Standing(t, h, W, L)
  BY DEF TreeOK, Sound
<1>2. /\ IsTree(t) /\ Tree(t.nodes, t.root, t.leafHead, h, W, L, {}) /\ Filled(t.nodes, {t.root})
      /\ Kept(t.nodes, t.members, t.length)
  BY <1>1 DEF Standing
<1>3. PICK x : x = Item(m, score)
  OBVIOUS
<1>4. /\ x \in AnyItem /\ ~ Holds(t.nodes, x)
      /\ \A M : (\A y : Holds(M, y) <=> Holds(t.nodes, y) \/ y = x)
                   => Kept(M, Scored(t.members, m, score), t.length + 1)
  BY <1>2, <1>3, KeptInsert
<1>5. PICK M, root, H, V, K :
          /\ GrowRoot(insertInternal(t, x)) = From(t, M, root)
          /\ Tree(M, root, t.leafHead, H, V, K, {}) /\ Filled(M, {})
          /\ \A y : Holds(M, y) <=> Holds(t.nodes, y) \/ y = x
  BY <1>2, <1>4, InsertTree
<1>6. PICK u : u = From(t, M, root)
  OBVIOUS
<1>7. /\ IsTree(u) /\ u.nodes = M /\ u.root = root /\ u.leafHead = t.leafHead
      /\ u.members = t.members /\ u.length = t.length
  BY <1>2, <1>6, FromIs
<1>8. PICK s : s = Booked(u, Scored(t.members, m, score), t.length + 1)
  OBVIOUS
<1>9. /\ IsTree(s) /\ s.nodes = M /\ s.root = root /\ s.leafHead = t.leafHead
      /\ s.members = Scored(t.members, m, score) /\ s.length = t.length + 1
  BY <1>7, <1>8, BookedIs
<1>10. InsertItem(t, m, score) = refreshCounts(s)
  <2>1. InsertItem(t, m, score)
        = refreshCounts([u EXCEPT !.members = Scored(@, m, score), !.length = @ + 1])
    BY <1>3, <1>5, <1>6 DEF InsertItem
  <2>2. s = [u EXCEPT !.members = Scored(@, m, score), !.length = @ + 1]
    BY <1>7, <1>8 DEF Booked, IsTree
  <2> QED  BY <2>1, <2>2
<1>11. Kept(M, Scored(t.members, m, score), t.length + 1)
  BY <1>4, <1>5
<1>12. Filled(M, {root})
  BY <1>5 DEF Filled
<1>13. Standing(s, H, V, K)
  BY <1>5, <1>9, <1>11, <1>12 DEF Standing
<1> QED  BY <1>9, <1>10, <1>13, SettleIs

\* The tree without an item of m, before its root and counts are put right.
Lightened(t, m) ==
    [deleteItem(t, Item(m, t.members[m])) EXCEPT !.members = Unscored(@, m), !.length = @ - 1]

\* remove of a member leaves whole nodes, one item fewer.
LEMMA RemoveShrinks ==
    ASSUME NEW t, TreeOK(t), NEW m \in DOMAIN t.members, NEW s, s = Lightened(t, m)
    PROVE  /\ s.members = Unscored(t.members, m) /\ s.length = t.length - 1
           /\ s.length = 0 => DOMAIN t.members = {m}
           /\ s.length # 0 => TreeOK(refreshCounts(CollapseRoot(s)))
                              /\ refreshCounts(CollapseRoot(s)).members = s.members
<1>1. PICK h, W, L : Standing(t, h, W, L)
  BY DEF TreeOK, Sound
<1>2. /\ IsTree(t) /\ Tree(t.nodes, t.root, t.leafHead, h, W, L, {}) /\ Filled(t.nodes, {t.root})
      /\ Kept(t.nodes, t.members, t.length) /\ Nest(t.nodes, t.root, h, W, {})
  BY <1>1 DEF Standing, Tree
<1>3. PICK x : x = Item(m, t.members[m])
  OBVIOUS
<1>4. /\ x \in AnyItem /\ Holds(t.nodes, x)
      /\ \A M : (\A y : Holds(M, y) <=> Holds(t.nodes, y) /\ y # x)
                   => Kept(M, Unscored(t.members, m), t.length - 1)
  BY <1>2, <1>3, KeptRemove
<1>5. Whole(t.nodes, t.root, t.leafHead, h, W, L)
  <2>1. ~ IsEmpty(t.nodes[t.root])
    BY <1>2, <1>4, RootFull
  <2> QED  BY <1>2, <2>1, TreeWhole
<1>6. PICK V, M, head, K :
          /\ deleteItem(t, x) = Under(t, M, head)
          /\ Shorter(t.nodes, t.root, h, V, x, t.root, M, head, K)
  BY <1>2, <1>4, <1>5, DeleteTree
<1>7. PICK u : u = Under(t, M, head)
  OBVIOUS
<1>8. /\ IsTree(u) /\ u.nodes = M /\ u.root = t.root /\ u.leafHead = head
      /\ u.members = t.members /\ u.length = t.length
  BY <1>2, <1>7, UnderIs
<1>9. s = Booked(u, Unscored(t.members, m), t.length - 1)
  <2>1. s = [u EXCEPT !.members = Unscored(@, m), !.length = @ - 1]
    BY <1>3, <1>6, <1>7 DEF Lightened
  <2>2. Booked(u, Unscored(t.members, m), t.length - 1)
        = [u EXCEPT !.members = Unscored(@, m), !.length = @ - 1]
    BY <1>8 DEF Booked, IsTree
  <2> QED  BY <2>1, <2>2
<1>10. /\ IsTree(s) /\ s.nodes = M /\ s.root = t.root /\ s.leafHead = head
       /\ s.members = Unscored(t.members, m) /\ s.length = t.length - 1
  BY <1>8, <1>9, BookedIs
<1>11. /\ Nest(M, t.root, h, V, {}) /\ Chained(M, head, K) /\ InOrder(V, K) /\ Slim(M)
       /\ NoneEmptyBut(M, {t.root}) /\ \A y : Holds(M, y) <=> Holds(t.nodes, y) /\ y # x
  BY <1>6 DEF Shorter
<1>12. Kept(M, s.members, s.length)
  BY <1>4, <1>10, <1>11
<1>13. ASSUME s.length = 0 PROVE DOMAIN t.members = {m}
  <2>1. Everything(M) = {}
    BY <1>12, <1>13, FS_EmptySet DEF Kept
  <2>2. \A y : ~ Holds(M, y)
    BY <1>12, <2>1, KeptItems
  <2>3. ASSUME NEW a \in DOMAIN t.members PROVE a = m
    <3>1. Holds(t.nodes, Item(a, t.members[a]))
      BY <1>2, KeptItems
    <3>2. Item(a, t.members[a]) = x
      BY <1>11, <2>2, <3>1
    <3> QED  BY <1>3, <3>2 DEF Item
  <2> QED  BY <2>3
<1>14. ASSUME s.length # 0
       PROVE  /\ TreeOK(refreshCounts(CollapseRoot(s)))
              /\ refreshCounts(CollapseRoot(s)).members = s.members
  <2>1. PICK y : Holds(M, y)
    <3>1. Everything(M) # {}
      BY <1>12, <1>14, FS_EmptySet DEF Kept
    <3> QED  BY <3>1 DEF Everything
  <2>2. ~ IsEmpty(M[t.root])
    BY <1>11, <2>1, RootFull
  <2>3. Whole(s.nodes, s.root, s.leafHead, h, V, K)
    <3>1. NoneEmptyBut(M, {})
      BY <1>11, <2>2 DEF NoneEmptyBut
    <3>2. Whole(M, t.root, head, h, V, K)
      BY <1>11, <3>1 DEF Whole
    <3> QED  BY <1>10, <3>2
  <2>4. Lowered(s, h, V, K, CollapseRoot(s))
    BY <1>10, <2>3, CollapseIs
  <2>5. PICK A, root : /\ CollapseRoot(s) = From(s, A, root) /\ Whole(A, root, s.leafHead, h, V, K)
                       /\ \A z : Holds(A, z) <=> Holds(s.nodes, z)
    BY <2>4 DEF Lowered
  <2>6. PICK r : r = From(s, A, root)
    OBVIOUS
  <2>7. /\ IsTree(r) /\ r.nodes = A /\ r.root = root /\ r.leafHead = s.leafHead
        /\ r.members = s.members /\ r.length = s.length
    BY <1>10, <2>6, FromIs
  <2>8. Kept(A, s.members, s.length)
    <3>1. \A z : Holds(A, z) <=> Holds(M, z)
      BY <1>10, <2>5
    <3> QED  BY <1>12, <3>1, KeptSame
  <2>9. Tree(A, root, s.leafHead, h, V, K, {}) /\ Filled(A, {root})
    BY <2>5, TreeWhole
  <2>10. Standing(r, h, V, K)
    BY <2>7, <2>8, <2>9 DEF Standing
  <2>11. TreeOK(refreshCounts(r)) /\ refreshCounts(r).members = r.members
    BY <2>10, SettleIs
  <2> QED  BY <2>5, <2>6, <2>7, <2>11
<1> QED  BY <1>10, <1>13, <1>14

LEMMA NewTree == TreeOK(NewBPlusTree) /\ NewBPlusTree.members = NoScores
<1>1. PICK t : t = NewBPlusTree
  OBVIOUS
<1>2. PICK node : node = Leaf(<<>>, NoNode, NoNode)
  OBVIOUS
<1>3. PICK N : N = [n \in {1} |-> node]
  OBVIOUS
<1>4. /\ t.nodes = N /\ t.root = 1 /\ t.leafHead = 1 /\ t.members = NoScores /\ t.length = 0
      /\ IsTree(t)
  BY <1>1, <1>2, <1>3 DEF NewBPlusTree, IsTree
<1>5. PICK e : e = <<>>
  OBVIOUS
<1>6. e \in Seq(AnyItem) /\ e \in Seq(Nat) /\ Len(e) = 0 /\ 1 .. Len(e) = {} /\ 1 .. 0 = {}
  BY <1>5, SMT
<1>7. /\ node.isLeaf /\ node.items = e /\ node.keys = e /\ node.children = e /\ node.count = 0
      /\ node.next = NoNode /\ node.prev = NoNode /\ node \in AnyNode
  <2>1. /\ node.isLeaf = TRUE /\ node.items = e /\ node.keys = e /\ node.children = e
        /\ node.count = 0 /\ node.next = NoNode /\ node.prev = NoNode
    BY <1>2, <1>5, <1>6 DEF Leaf
  <2>2. NoNode \in Pointer /\ 0 \in Nat
    BY DEF Pointer
  <2>3. node = [isLeaf |-> TRUE, items |-> e, keys |-> e, children |-> e, count |-> 0,
                next |-> NoNode, prev |-> NoNode]
    BY <1>2, <1>5, <1>6 DEF Leaf
  <2>4. node \in AnyNode
    BY <1>6, <2>2, <2>3 DEF AnyNode
  <2> QED  BY <2>1, <2>4
<1>8. Sorted(e) /\ Nodes(e) = {}
  BY <1>6 DEF Sorted, Nodes
<1>9. PICK h, W, L : h = [n \in {1} |-> 0] /\ W = [n \in {1} |-> AnyItem] /\ L = <<1>>
  OBVIOUS
<1>10. DOMAIN N = {1} /\ N[1] = node /\ h[1] = 0 /\ W[1] = AnyItem /\ \A n \in DOMAIN N : n = 1
  BY <1>3, <1>9
<1>11. Typed(N)
  <2>1. IsFiniteSet(DOMAIN N)
    BY <1>10, FS_Singleton
  <2>2. N = [n \in DOMAIN N |-> N[n]] /\ DOMAIN N \in SUBSET Nat
    BY <1>3, <1>10
  <2>3. N \in [DOMAIN N -> AnyNode]
    BY <1>7, <1>10, <2>2
  <2> QED  BY <2>1, <2>2, <2>3 DEF Typed
<1>12. \A p, i, n : ~ Child(N, p, i, n)
  BY <1>6, <1>7, <1>10 DEF Child
<1>13. Nest(N, 1, h, W, {})
  <2>1. Ranked(N, h)
    BY <1>7, <1>10, <1>12 DEF Ranked
  <2>2. OneParent(N)
    BY <1>12 DEF OneParent
  <2>3. Rooted(N, 1, h, {})
    BY <1>10 DEF Rooted
  <2>4. Routed(N, W)
    BY <1>7, <1>8, <1>10, <1>12 DEF Routed
  <2>5. Shaped(N)
    BY <1>5, <1>7, <1>8, <1>10 DEF Shaped
  <2> QED  BY <1>11, <2>1, <2>2, <2>3, <2>4, <2>5 DEF Nest
<1>14. /\ L \in Seq(Leafs(N)) /\ Len(L) = 1 /\ L[1] = 1 /\ \A i \in 1 .. Len(L) : i = 1
  <2>1. 1 \in Leafs(N)
    BY <1>7, <1>10 DEF Leafs
  <2>2. Len(L) = 1 /\ L[1] = 1 /\ L \in Seq(Leafs(N))
    BY <1>9, <2>1
  <2> QED  BY <2>2, SMT
<1>15. Chained(N, 1, L)
  <2>1. Nodes(L) = Leafs(N)
    <3>1. Leafs(N) = {1}
      BY <1>7, <1>10 DEF Leafs
    <3>2. 1 \in 1 .. Len(L)
      BY <1>14, SMT
    <3> QED  BY <1>14, <3>1, <3>2 DEF Nodes
  <2>2. Len(L) # 0 /\ NoNode = N[1].next /\ NoNode = N[1].prev
    BY <1>7, <1>10, <1>14
  <2> QED  BY <1>14, <2>1, <2>2 DEF Chained
<1>16. InOrder(W, L)
  <2>1. ~ (1 < 1)
    BY SMT
  <2> QED  BY <1>14, <2>1 DEF InOrder
<1>17. Sized(N) /\ Filled(N, {1})
  <2>1. 0 < Order
    BY BPlusTreeAssumption, SMT
  <2> QED  BY <1>6, <1>7, <1>10, <2>1 DEF Sized, Filled
<1>18. \A y : ~ Holds(N, y)
  BY <1>7, <1>8, <1>10 DEF Holds
<1>19. Kept(N, t.members, t.length)
  <2>1. Everything(N) = {}
    BY <1>18 DEF Everything
  <2>2. t.members = [m \in {} |-> {}]
    BY <1>4 DEF NoScores
  <2>3. DOMAIN t.members = {} /\ t.members = [m \in DOMAIN t.members |-> t.members[m]]
    BY <2>2
  <2> QED  BY <1>4, <1>18, <2>1, <2>3, FS_EmptySet DEF Kept
<1>20. Standing(t, h, W, L)
  BY <1>4, <1>13, <1>15, <1>16, <1>17, <1>19 DEF Standing, Tree
<1>21. \A n \in DOMAIN t.nodes : t.nodes[n].count = Cardinality(Held(t.nodes, W, n))
  <2>1. \A n : Held(N, W, n) = {}
    BY <1>18 DEF Held
  <2> QED  BY <1>4, <1>7, <1>10, <2>1, FS_EmptySet
<1>22. Sound(t, h, W, L)
  BY <1>20, <1>21 DEF Sound
<1> QED  BY <1>1, <1>4, <1>22 DEF TreeOK

\* Each operation keeps the invariant of the tree.
LEMMA RemoveTreeOK ==
    ASSUME NEW t, TreeOK(t), NEW m
    PROVE  TreeOK(bRemove(t, m)) /\ bRemove(t, m).members = Unscored(t.members, m)
<1>1. t.members = [a \in DOMAIN t.members |-> t.members[a]]
  BY DEF TreeOK, Sound, Standing, Kept
<1>2. CASE m \notin DOMAIN t.members
  <2>1. bRemove(t, m) = t /\ DOMAIN t.members \ {m} = DOMAIN t.members
    BY <1>2 DEF bRemove, bIsMember
  <2>2. Unscored(t.members, m) = t.members
    BY <1>1, <2>1 DEF Unscored
  <2> QED  BY <2>1, <2>2
<1>3. CASE m \in DOMAIN t.members
  <2>1. PICK s : s = Lightened(t, m)
    OBVIOUS
  <2>2. bRemove(t, m) = IF s.length = 0 THEN NewBPlusTree ELSE refreshCounts(CollapseRoot(s))
    BY <1>3, <2>1 DEF bRemove, bIsMember, Lightened
  <2>3. /\ s.members = Unscored(t.members, m)
        /\ s.length = 0 => DOMAIN t.members = {m}
        /\ s.length # 0 => TreeOK(refreshCounts(CollapseRoot(s)))
                           /\ refreshCounts(CollapseRoot(s)).members = s.members
    BY <1>3, <2>1, RemoveShrinks
  <2>4. CASE s.length = 0
    <3>1. DOMAIN t.members \ {m} = {}
      BY <2>3, <2>4
    <3>2. Unscored(t.members, m) = NoScores
      BY <3>1 DEF Unscored, NoScores
    <3> QED  BY <2>2, <2>4, <3>2, NewTree
  <2>5. CASE s.length # 0
    BY <2>2, <2>3, <2>5
  <2> QED  BY <2>4, <2>5
<1> QED  BY <1>2, <1>3

LEMMA UpdateTreeOK ==
    ASSUME NEW t, TreeOK(t), NEW m \in Int, NEW score \in Int
    PROVE  /\ TreeOK(bUpdate(t, m, score))
           /\ bUpdate(t, m, score).members =
                 IF m \in DOMAIN t.members THEN Scored(t.members, m, score) ELSE t.members
<1>1. t.members = [a \in DOMAIN t.members |-> t.members[a]]
  BY DEF TreeOK, Sound, Standing, Kept
<1>2. CASE m \notin DOMAIN t.members
  BY <1>2 DEF bUpdate, bIsMember
<1>3. CASE m \in DOMAIN t.members /\ t.members[m] = score
  <2>1. bUpdate(t, m, score) = t /\ DOMAIN t.members \union {m} = DOMAIN t.members
    BY <1>3 DEF bUpdate
  <2>2. Scored(t.members, m, score) = t.members
    BY <1>1, <1>3, <2>1 DEF Scored
  <2> QED  BY <1>3, <2>1, <2>2
<1>4. CASE m \in DOMAIN t.members /\ t.members[m] # score
  <2>1. PICK r : r = bRemove(t, m)
    OBVIOUS
  <2>2. TreeOK(r) /\ r.members = Unscored(t.members, m)
    BY <2>1, RemoveTreeOK
  <2>3. DOMAIN r.members = DOMAIN t.members \ {m} /\ \A n \in DOMAIN r.members : r.members[n] = t.members[n]
    BY <2>2 DEF Unscored
  <2>4. bUpdate(t, m, score) = InsertItem(r, m, score)
    BY <1>4, <2>1 DEF bUpdate, bIsMember
  <2>5. TreeOK(InsertItem(r, m, score)) /\ InsertItem(r, m, score).members = Scored(r.members, m, score)
    BY <2>2, <2>3, InsertItemOK
  <2>6. Scored(r.members, m, score) = Scored(t.members, m, score)
    <3>1. DOMAIN r.members \union {m} = DOMAIN t.members \union {m}
      BY <2>3
    <3>2. \A n \in DOMAIN t.members \union {m} : n # m => r.members[n] = t.members[n]
      BY <2>3
    <3> QED  BY <3>1, <3>2 DEF Scored
  <2> QED  BY <1>4, <2>4, <2>5, <2>6
<1> QED  BY <1>2, <1>3, <1>4

LEMMA AddTreeOK ==
    ASSUME NEW t, TreeOK(t), NEW m \in Int, NEW score \in Int
    PROVE  TreeOK(bAdd(t, m, score)) /\ bAdd(t, m, score).members = Scored(t.members, m, score)
<1>1. CASE m \in DOMAIN t.members
  BY <1>1, UpdateTreeOK DEF bAdd, bIsMember
<1>2. CASE m \notin DOMAIN t.members
  BY <1>2, InsertItemOK DEF bAdd, bIsMember
<1> QED  BY <1>1, <1>2

\* What a call does to the table of a B+ tree.
LEMMA TreeSteps ==
    ASSUME kind = "bplustree", TreeOK(index), [Next]_vars
    PROVE  /\ kind' = "bplustree" /\ TreeOK(index')
           /\ \/ index'.members = index.members
              \/ \E m \in Members : index'.members = Unscored(index.members, m)
              \/ \E m \in Members : \E score \in Scores[m] :
                    index'.members = Scored(index.members, m, score)
<1>1. CASE UNCHANGED vars
  BY <1>1 DEF vars
<1>2. ASSUME NEW m \in Members, Remove(m)
      PROVE  /\ kind' = "bplustree" /\ TreeOK(index') /\ index'.members = Unscored(index.members, m)
  BY <1>2, RemoveTreeOK DEF Remove
<1>3. ASSUME NEW m \in Members, NEW score \in Scores[m], Add(m, score)
      PROVE  /\ kind' = "bplustree" /\ TreeOK(index')
             /\ index'.members = Scored(index.members, m, score)
  <2>1. kind' = kind /\ index' = bAdd(index, m, score)
    BY <1>3 DEF Add
  <2> QED  BY <2>1, Given, AddTreeOK
<1>4. ASSUME NEW m \in Members, NEW score \in Scores[m], Update(m, score)
      PROVE  /\ kind' = "bplustree" /\ TreeOK(index')
             /\ \/ index'.members = Scored(index.members, m, score)
                \/ index'.members = index.members
  <2>1. kind' = kind /\ index' = bUpdate(index, m, score)
    BY <1>4 DEF Update
  <2> QED  BY <2>1, Given, UpdateTreeOK
<1> QED  BY <1>1, <1>2, <1>3, <1>4 DEF Next

\* The invariant of a sorted set that keeps a B+ tree.
TInv == kind \in {"skiplist", "bplustree"} /\ (kind = "bplustree" => TreeOK(index))

\* The invariant holds after any calls.
LEMMA TreeInvariant == Spec => []TInv
<1>1. Init => TInv
  BY NewTree DEF Init, TInv
<1>2. TInv /\ [Next]_vars => TInv'
  <2> SUFFICES ASSUME TInv, [Next]_vars PROVE TInv'
    OBVIOUS
  <2>1. CASE kind = "bplustree"
    BY <2>1, TreeSteps DEF TInv
  <2>2. CASE kind = "skiplist"
    <3>1. kind' = kind
      BY DEF Next, Add, Update, Remove, vars
    <3> QED  BY <2>2, <3>1 DEF TInv
  <2> QED  BY <2>1, <2>2 DEF TInv
<1> QED  BY <1>1, <1>2, PTL DEF Spec

-----------------------------------------------------------------------------
(* What the properties see of a tree                                         *)

\* f is the recursion of ItemsUnder.
UnderBy(t, f) ==
    f = [n \in DOMAIN t.nodes |->
            IF t.nodes[n].isLeaf THEN Seqs!ToSet(t.nodes[n].items)
            ELSE UNION {f[t.nodes[n].children[i]] : i \in DOMAIN t.nodes[n].children}]

LEMMA ItemsUnderBy ==
    ASSUME NEW t, \E f : UnderBy(t, f)
    PROVE  UnderBy(t, ItemsUnder(t))
<1>1. UnderBy(t, CHOOSE g : UnderBy(t, g))
  OBVIOUS
<1>2. ItemsUnder(t) = CHOOSE g : UnderBy(t, g)
  BY DEF ItemsUnder, UnderBy
<1> QED  BY <1>1, <1>2

\* The items under a node are those it holds.
LEMMA ItemsUnderIs ==
    ASSUME NEW t, NEW h, NEW W, Nest(t.nodes, t.root, h, W, {})
    PROVE  \A n \in DOMAIN t.nodes : ItemsUnder(t)[n] = Held(t.nodes, W, n)
<1> DEFINE N == t.nodes
           Step(f, n) == IF N[n].isLeaf THEN Seqs!ToSet(N[n].items)
                         ELSE UNION {f[N[n].children[i]] : i \in DOMAIN N[n].children}
<1>1. ASSUME NEW n \in DOMAIN N, NEW f, \A i, c : Child(N, n, i, c) => f[c] = Held(N, W, c)
      PROVE  Step(f, n) = Held(N, W, n)
  <2>1. CASE N[n].isLeaf
    <3>1. Held(N, W, n) = Nodes(N[n].items)
      BY <2>1, HeldLeaf
    <3>2. DOMAIN N[n].items = 1 .. Len(N[n].items)
      BY NodeParts DEF Nest
    <3>3. Seqs!ToSet(N[n].items) = Nodes(N[n].items)
      BY <3>2 DEF Seqs!ToSet, Nodes
    <3> QED  BY <2>1, <3>1, <3>3
  <2>2. CASE ~ N[n].isLeaf
    <3>1. DOMAIN N[n].children = 1 .. Len(N[n].children)
      BY NodeParts DEF Nest
    <3>2. \A i \in DOMAIN N[n].children : f[N[n].children[i]] = Held(N, W, N[n].children[i])
      BY <1>1, <3>1 DEF Child
    <3>3. \A y : y \in Held(N, W, n) <=> \E i, c : Child(N, n, i, c) /\ y \in Held(N, W, c)
      BY <2>2, HeldInner
    <3>4. \A y : y \in Held(N, W, n)
                    <=> \E i \in DOMAIN N[n].children : y \in Held(N, W, N[n].children[i])
      BY <3>1, <3>3 DEF Child
    <3>5. \A y : y \in Held(N, W, n) <=> \E i \in DOMAIN N[n].children : y \in f[N[n].children[i]]
      BY <3>2, <3>4
    <3> QED  BY <2>2, <3>5
  <2> QED  BY <2>1, <2>2
<1>2. \E f : UnderBy(t, f)
  <2>1. PICK f : f = [n \in DOMAIN N |-> Held(N, W, n)]
    OBVIOUS
  <2>2. \A n \in DOMAIN N : \A i, c : Child(N, n, i, c) => f[c] = Held(N, W, c)
    BY <2>1 DEF Child, Nest, Ranked
  <2>3. \A n \in DOMAIN N : f[n] = Step(f, n)
    <3> HIDE DEF Step
    <3> QED  BY <1>1, <2>1, <2>2
  <2>4. f = [n \in DOMAIN N |-> f[n]]
    BY <2>1
  <2>5. UnderBy(t, f)
    BY <2>3, <2>4 DEF UnderBy
  <2> QED  BY <2>5
<1>3. PICK f : f = ItemsUnder(t) /\ UnderBy(t, f)
  BY <1>2, ItemsUnderBy
<1> DEFINE S == {n \in DOMAIN N : f[n] = Held(N, W, n)}
<1>4. \A n \in DOMAIN N : f[n] = Step(f, n)
  BY <1>3 DEF UnderBy
<1>5. ASSUME NEW n \in DOMAIN N, \A i, c : Child(N, n, i, c) => c \in S PROVE n \in S
  <2> HIDE DEF Step
  <2> QED  BY <1>1, <1>4, <1>5
<1>6. \A n \in DOMAIN N : n \in S
  <2> HIDE DEF S, Step
  <2> QED  BY <1>5, ByHeight
<1> QED  BY <1>3, <1>6

\* f is the recursion of DepthOf.
DepthBy(t, f) ==
    f = [n \in DOMAIN t.nodes |->
            IF t.nodes[n].isLeaf THEN {0}
            ELSE {d + 1 : d \in UNION {f[t.nodes[n].children[i]] : i \in DOMAIN t.nodes[n].children}}]

LEMMA DepthOfBy ==
    ASSUME NEW t, \E f : DepthBy(t, f)
    PROVE  \E f : DepthBy(t, f) /\ DepthOf(t) = f[t.root]
<1>1. DepthBy(t, CHOOSE g : DepthBy(t, g))
  OBVIOUS
<1>2. DepthOf(t) = (CHOOSE g : DepthBy(t, g))[t.root]
  BY DEF DepthOf, DepthBy
<1> QED  BY <1>1, <1>2

\* Every leaf is as deep as the root is high.
LEMMA DepthOfIs ==
    ASSUME NEW t, NEW h, NEW W, Nest(t.nodes, t.root, h, W, {}), InnersFull(t.nodes)
    PROVE  DepthOf(t) = {h[t.root]}
<1> DEFINE N == t.nodes
           Step(f, n) == IF N[n].isLeaf THEN {0}
                         ELSE {d + 1 : d \in UNION {f[N[n].children[i]] : i \in DOMAIN N[n].children}}
<1>1. ASSUME NEW n \in DOMAIN N, NEW f, \A i, c : Child(N, n, i, c) => f[c] = {h[c]}
      PROVE  Step(f, n) = {h[n]}
  <2>1. CASE N[n].isLeaf
    BY <2>1 DEF Nest, Ranked
  <2>2. CASE ~ N[n].isLeaf
    <3>1. PICK k \in Nat : k = Len(N[n].children) /\ DOMAIN N[n].children = 1 .. k /\ k # 0
      <4>1. N[n].children \in Seq(Nat) /\ N[n].children # <<>>
        BY <2>2, NodeParts DEF Nest, InnersFull
      <4>2. Len(N[n].children) \in Nat /\ DOMAIN N[n].children = 1 .. Len(N[n].children)
            /\ Len(N[n].children) # 0
        BY <4>1
      <4> QED  BY <4>2
    <3>2. 1 \in 1 .. k
      BY <3>1, SMT
    <3>3. \A i \in 1 .. k : f[N[n].children[i]] = {h[N[n].children[i]]} /\ h[n] = h[N[n].children[i]] + 1
      <4>1. \A i \in 1 .. k : Child(N, n, i, N[n].children[i])
        BY <3>1 DEF Child
      <4>2. \A i, c : Child(N, n, i, c) => h[n] = h[c] + 1
        BY DEF Nest, Ranked
      <4> QED  BY <1>1, <4>1, <4>2
    <3>4. PICK U : U = UNION {f[N[n].children[i]] : i \in 1 .. k}
      OBVIOUS
    <3>5. \A d : d \in U <=> \E i \in 1 .. k : d = h[N[n].children[i]]
      BY <3>3, <3>4
    <3>6. \A d \in U : d + 1 = h[n]
      BY <3>3, <3>5
    <3>7. h[N[n].children[1]] \in U
      BY <3>2, <3>5
    <3>8. {d + 1 : d \in U} = {h[n]}
      BY <3>6, <3>7
    <3> QED  BY <2>2, <3>1, <3>4, <3>8
  <2> QED  BY <2>1, <2>2
<1>2. \E f : DepthBy(t, f)
  <2>1. PICK f : f = [n \in DOMAIN N |-> {h[n]}]
    OBVIOUS
  <2>2. \A n \in DOMAIN N : \A i, c : Child(N, n, i, c) => f[c] = {h[c]}
    BY <2>1 DEF Child, Nest, Ranked
  <2>3. \A n \in DOMAIN N : f[n] = Step(f, n)
    <3> HIDE DEF Step
    <3> QED  BY <1>1, <2>1, <2>2
  <2>4. f = [n \in DOMAIN N |-> f[n]]
    BY <2>1
  <2>5. DepthBy(t, f)
    BY <2>3, <2>4 DEF DepthBy
  <2> QED  BY <2>5
<1>3. PICK f : DepthBy(t, f) /\ DepthOf(t) = f[t.root]
  BY <1>2, DepthOfBy
<1> DEFINE S == {n \in DOMAIN N : f[n] = {h[n]}}
<1>4. \A n \in DOMAIN N : f[n] = Step(f, n)
  BY <1>3 DEF DepthBy
<1>5. ASSUME NEW n \in DOMAIN N, \A i, c : Child(N, n, i, c) => c \in S PROVE n \in S
  <2> HIDE DEF Step
  <2> QED  BY <1>1, <1>4, <1>5
<1>6. \A n \in DOMAIN N : n \in S
  <2> HIDE DEF S, Step
  <2> QED  BY <1>5, ByHeight
<1>7. t.root \in DOMAIN N
  BY DEF Nest, Rooted
<1> QED  BY <1>3, <1>6, <1>7

\* The separators of a B+ tree divide what its nodes hold, its leaves are all as
\* deep, and no node is over its size or empty but an empty tree's root, after any
\* calls: what the descents of search, insertion and deletion rely on
\* (b_tree_plus.go:57-231).
THEOREM SeparatorsAlwaysDivide == Spec => []SeparatorsDivide
<1>1. TInv => SeparatorsDivide
  <2> SUFFICES ASSUME kind = "bplustree", TreeOK(index) PROVE SeparatorsDivide
    BY DEF TInv, SeparatorsDivide
  <2>1. PICK h, W, L : Standing(index, h, W, L)
    BY DEF TreeOK, Sound
  <2>2. PICK t : t = index
    OBVIOUS
  <2>3. PICK N : N = t.nodes
    OBVIOUS
  <2>4. /\ Nest(N, t.root, h, W, {}) /\ Sized(N) /\ Filled(N, {t.root})
        /\ Kept(N, t.members, t.length)
    BY <2>1, <2>2, <2>3 DEF Standing, Tree
  <2>5. Cardinality(DepthOf(t)) = 1
    <3>1. InnersFull(N)
      BY <2>4 DEF Sized, InnersFull
    <3>2. DepthOf(t) = {h[t.root]}
      BY <2>3, <2>4, <3>1, DepthOfIs
    <3> QED  BY <3>2, FS_Singleton
  <2>6. \A n \in DOMAIN N : ItemsUnder(t)[n] = Held(N, W, n)
    BY <2>3, <2>4, ItemsUnderIs
  <2>7. ASSUME NEW n \in DOMAIN N, N[n].isLeaf
        PROVE  Len(N[n].items) < Order /\ (N[n].items = <<>> => t.length = 0)
    <3>1. Len(N[n].items) < Order
      BY <2>4, <2>7 DEF Sized
    <3>2. ASSUME N[n].items = <<>> PROVE t.length = 0
      <4>1. n = t.root
        BY <2>4, <2>7, <3>2 DEF Filled
      <4>2. DOMAIN N = {n}
        BY <2>4, <2>7, <4>1, OnlyRoot
      <4>3. Nodes(<<>>) = {}
        BY DEF Nodes
      <4>4. Everything(N) = {}
        BY <3>2, <4>2, <4>3 DEF Everything, Holds
      <4> QED  BY <2>4, <4>4, FS_EmptySet DEF Kept
    <3> QED  BY <3>1, <3>2
  <2>8. ASSUME NEW n \in DOMAIN N, ~ N[n].isLeaf
        PROVE  /\ Len(N[n].children) = Len(N[n].keys) + 1
               /\ Len(N[n].children) <= Order
               /\ \A i \in DOMAIN N[n].keys :
                     /\ \A x \in Held(N, W, N[n].children[i]) : less(x, N[n].keys[i])
                     /\ \A x \in Held(N, W, N[n].children[i + 1]) : ~ less(x, N[n].keys[i])
                     /\ N[n].children[i] \in DOMAIN N /\ N[n].children[i + 1] \in DOMAIN N
    <3>1. /\ Len(N[n].children) = Len(N[n].keys) + 1 /\ Len(N[n].children) <= Order
          /\ Len(N[n].keys) \in Nat /\ DOMAIN N[n].keys = 1 .. Len(N[n].keys)
      BY <2>4, <2>8, NodeParts DEF Nest, Shaped, Sized
    <3>2. ASSUME NEW i \in DOMAIN N[n].keys
          PROVE  /\ \A x \in Held(N, W, N[n].children[i]) : less(x, N[n].keys[i])
                 /\ \A x \in Held(N, W, N[n].children[i + 1]) : ~ less(x, N[n].keys[i])
                 /\ N[n].children[i] \in DOMAIN N /\ N[n].children[i + 1] \in DOMAIN N
      <4>1. PICK k \in Nat : k = Len(N[n].keys) /\ i \in 1 .. k /\ Len(N[n].children) = k + 1
        BY <3>1
      <4>2. i \in 1 .. k + 1 /\ i + 1 \in 1 .. k + 1 /\ i <= k /\ i \in 1 .. (i + 1) - 1
        BY <4>1, SMT
      <4>3. Child(N, n, i, N[n].children[i]) /\ Child(N, n, i + 1, N[n].children[i + 1])
        BY <4>1, <4>2 DEF Child
      <4>4. \A x \in Held(N, W, N[n].children[i]) : Leads(N[n].keys, x, i)
        BY <2>4, <4>3 DEF Held, Nest, Routed
      <4>5. \A x \in Held(N, W, N[n].children[i + 1]) : Leads(N[n].keys, x, i + 1)
        BY <2>4, <4>3 DEF Held, Nest, Routed
      <4>6. N[n].children[i] \in DOMAIN N /\ N[n].children[i + 1] \in DOMAIN N
        BY <2>4, <4>3 DEF Nest, Ranked
      <4>7. \A x \in Held(N, W, N[n].children[i]) : less(x, N[n].keys[i])
        BY <4>1, <4>2, <4>4 DEF Leads
      <4>8. \A x \in Held(N, W, N[n].children[i + 1]) : ~ less(x, N[n].keys[i])
        BY <4>2, <4>5 DEF Leads
      <4> QED  BY <4>6, <4>7, <4>8
    <3> QED  BY <3>1, <3>2
  <2>9. ASSUME NEW n \in DOMAIN N, ~ N[n].isLeaf, NEW i \in DOMAIN N[n].keys
        PROVE  /\ \A x \in ItemsUnder(t)[N[n].children[i]] : less(x, N[n].keys[i])
               /\ \A x \in ItemsUnder(t)[N[n].children[i + 1]] : ~ less(x, N[n].keys[i])
    <3>1. N[n].children[i] \in DOMAIN N /\ N[n].children[i + 1] \in DOMAIN N
      BY <2>8, <2>9
    <3>2. /\ ItemsUnder(t)[N[n].children[i]] = Held(N, W, N[n].children[i])
          /\ ItemsUnder(t)[N[n].children[i + 1]] = Held(N, W, N[n].children[i + 1])
      BY <2>6, <3>1
    <3> QED  BY <2>8, <2>9, <3>2
  <2> QED  BY <2>2, <2>3, <2>5, <2>7, <2>8, <2>9 DEF SeparatorsDivide
<1>2. QED  BY <1>1, TreeInvariant, PTL

-----------------------------------------------------------------------------
(* The leaves in order                                                       *)

\* K is the sequence of the elements of D whose item e is in S, by that item.
Lined(D, e, K, S) ==
    /\ K \in Seq(D) /\ \A d \in D : e[d] \in AnyItem
    /\ \A d \in D : e[d] \in S <=> \E i \in 1 .. Len(K) : K[i] = d
    /\ \A i, j \in 1 .. Len(K) : i < j => less(e[K[i]], e[K[j]])

\* Of two lists of the same elements in order, one begins the other.
LEMMA LinedPrefix ==
    ASSUME NEW D, NEW e, NEW S, NEW a, NEW b, Lined(D, e, a, S), Lined(D, e, b, S)
    PROVE  \A i \in 1 .. Len(a) : i \in 1 .. Len(b) /\ b[i] = a[i]
<1> DEFINE Bad == {i \in 1 .. Len(a) : ~ (i \in 1 .. Len(b) /\ b[i] = a[i])}
<1>1. /\ Len(a) \in Nat /\ Len(b) \in Nat
      /\ \A i \in 1 .. Len(a) : a[i] \in D /\ e[a[i]] \in AnyItem /\ e[a[i]] \in S
      /\ \A i \in 1 .. Len(b) : b[i] \in D /\ e[b[i]] \in AnyItem /\ e[b[i]] \in S
  BY DEF Lined
<1>2. /\ \A i, j \in 1 .. Len(a) : i < j => less(e[a[i]], e[a[j]])
      /\ \A i, j \in 1 .. Len(b) : i < j => less(e[b[i]], e[b[j]])
  BY DEF Lined
<1>3. \A d \in D : e[d] \in S => /\ \E i \in 1 .. Len(a) : a[i] = d
                                 /\ \E i \in 1 .. Len(b) : b[i] = d
  BY DEF Lined
<1>4. \A x \in AnyItem : ~ less(x, x)
  BY LessOrder
<1>5. SUFFICES ASSUME Bad # {} PROVE FALSE
  OBVIOUS
<1>6. PICK i \in Bad : \A j \in Bad : i <= j
  <2>1. Bad \in SUBSET Nat
    <3>1. \A j \in 1 .. Len(a) : j \in Nat
      BY SMT
    <3> QED  BY <3>1
  <2> HIDE DEF Bad
  <2> QED  BY <1>5, <2>1, LeastNumber
<1>7. i \in 1 .. Len(a) /\ ~ (i \in 1 .. Len(b) /\ b[i] = a[i])
  OBVIOUS
<1>8. \A j \in 1 .. Len(a) : j < i => j \in 1 .. Len(b) /\ b[j] = a[j]
  <2> SUFFICES ASSUME NEW j \in 1 .. Len(a), j < i, j \in Bad PROVE FALSE
    OBVIOUS
  <2>1. i <= j
    BY <1>6
  <2> QED  BY <1>7, <2>1, SMT
<1> HIDE DEF Bad
<1>9. PICK j \in 1 .. Len(b) : b[j] = a[i]
  BY <1>1, <1>3, <1>7
<1>10. j < i \/ j = i \/ i < j
  BY <1>7, SMT
<1>11. CASE j < i
  <2>1. j \in 1 .. Len(a)
    BY <1>1, <1>7, <1>11, SMT
  <2>2. b[j] = a[j] /\ less(e[a[j]], e[a[i]])
    BY <1>2, <1>7, <1>8, <1>11, <2>1
  <2> QED  BY <1>1, <1>4, <1>7, <1>9, <2>2
<1>12. CASE j = i
  BY <1>7, <1>9, <1>12
<1>13. CASE i < j
  <2>1. i \in 1 .. Len(b)
    BY <1>1, <1>7, <1>13, SMT
  <2>2. PICK k \in 1 .. Len(a) : a[k] = b[i]
    BY <1>1, <1>3, <2>1
  <2>3. less(e[a[k]], e[a[i]])
    BY <1>2, <1>9, <1>13, <2>1, <2>2
  <2>4. k < i \/ k = i \/ i < k
    BY <1>7, SMT
  <2>5. CASE k < i
    <3>1. k \in 1 .. Len(b) /\ b[k] = a[k]
      BY <1>8, <2>5
    <3>2. less(e[b[k]], e[b[i]])
      BY <1>2, <2>1, <2>5, <3>1
    <3> QED  BY <1>1, <1>4, <2>1, <2>2, <3>1, <3>2
  <2>6. CASE k = i
    BY <1>1, <1>4, <1>7, <2>3, <2>6
  <2>7. CASE i < k
    <3>1. less(e[a[i]], e[a[k]])
      BY <1>2, <1>7, <2>7
    <3>2. e[a[i]] \in AnyItem /\ e[a[k]] \in AnyItem
      BY <1>1, <1>7
    <3> QED  BY <2>3, <3>1, <3>2, LessOrder
  <2> QED  BY <2>4, <2>5, <2>6, <2>7
<1> QED  BY <1>10, <1>11, <1>12, <1>13

LEMMA LinedOnce ==
    ASSUME NEW D, NEW e, NEW S, NEW a, NEW b, Lined(D, e, a, S), Lined(D, e, b, S)
    PROVE  a = b
<1>1. /\ \A i \in 1 .. Len(a) : i \in 1 .. Len(b) /\ b[i] = a[i]
      /\ \A i \in 1 .. Len(b) : i \in 1 .. Len(a) /\ a[i] = b[i]
  BY LinedPrefix
<1>2. PICK m, n \in Nat : m = Len(a) /\ n = Len(b)
  BY DEF Lined
<1>3. m = n
  <2>1. \A i \in 1 .. m : i \in 1 .. n
    BY <1>1, <1>2
  <2>2. \A i \in 1 .. n : i \in 1 .. m
    BY <1>1, <1>2
  <2> QED  BY <2>1, <2>2, SMT
<1>4. a = [i \in 1 .. m |-> a[i]] /\ b = [i \in 1 .. n |-> b[i]]
  BY <1>2 DEF Lined
<1> QED  BY <1>1, <1>2, <1>3, <1>4

\* The lists of the parts, one after the other, are the list of the whole.
LEMMA LinedConcat ==
    ASSUME NEW D, NEW e, NEW S, NEW T, NEW a, NEW b, Lined(D, e, a, S), Lined(D, e, b, T),
           Below(S, T)
    PROVE  Lined(D, e, a \o b, S \union T)
<1>1. PICK m, n \in Nat : m = Len(a) /\ n = Len(b)
  BY DEF Lined
<1>2. PICK v : v = a \o b
  OBVIOUS
<1>3. /\ a \in Seq(D) /\ b \in Seq(D) /\ \A d \in D : e[d] \in AnyItem
      /\ \A d \in D : e[d] \in S <=> \E i \in 1 .. m : a[i] = d
      /\ \A d \in D : e[d] \in T <=> \E i \in 1 .. n : b[i] = d
      /\ \A i, j \in 1 .. m : i < j => less(e[a[i]], e[a[j]])
      /\ \A i, j \in 1 .. n : i < j => less(e[b[i]], e[b[j]])
  BY <1>1 DEF Lined
<1>4. /\ v \in Seq(D) /\ Len(v) = m + n
      /\ \A i \in 1 .. m : v[i] = a[i]
      /\ \A i \in 1 .. n : v[m + i] = b[i]
  BY <1>1, <1>2, <1>3, Concat
<1>5. /\ \A i \in 1 .. m + n : i \in 1 .. m \/ \E k \in 1 .. n : i = m + k
      /\ \A i \in 1 .. m : i \in 1 .. m + n
      /\ \A i \in 1 .. n : m + i \in 1 .. m + n
      /\ \A i, j \in 1 .. n : m + i < m + j => i < j
      /\ \A i \in 1 .. m : \A j \in 1 .. n : ~ (m + j < i)
  <2>1. \A i \in 1 .. m + n : i \in 1 .. m \/ (i - m \in 1 .. n /\ i = m + (i - m))
    BY <1>1, SMT
  <2>2. /\ \A i \in 1 .. m : i \in 1 .. m + n
        /\ \A i \in 1 .. n : m + i \in 1 .. m + n
        /\ \A i, j \in 1 .. n : m + i < m + j => i < j
        /\ \A i \in 1 .. m : \A j \in 1 .. n : ~ (m + j < i)
    BY <1>1, SMT
  <2> QED  BY <2>1, <2>2
<1>6. \A i \in 1 .. m : a[i] \in D /\ e[a[i]] \in S
  BY <1>1, <1>3
<1>7. \A i \in 1 .. n : b[i] \in D /\ e[b[i]] \in T
  BY <1>1, <1>3
<1>8. \A i \in 1 .. m : \A j \in 1 .. n : less(e[a[i]], e[b[j]])
  BY <1>6, <1>7 DEF Below
<1>9. ASSUME NEW d \in D
      PROVE  e[d] \in S \union T <=> \E i \in 1 .. m + n : v[i] = d
  <2>1. ASSUME e[d] \in S PROVE \E i \in 1 .. m + n : v[i] = d
    <3>1. PICK i \in 1 .. m : a[i] = d
      BY <1>3, <2>1
    <3>2. v[i] = d /\ i \in 1 .. m + n
      BY <1>4, <1>5, <3>1
    <3> QED  BY <3>2
  <2>2. ASSUME e[d] \in T PROVE \E i \in 1 .. m + n : v[i] = d
    <3>1. PICK i \in 1 .. n : b[i] = d
      BY <1>3, <2>2
    <3>2. v[m + i] = d /\ m + i \in 1 .. m + n
      BY <1>4, <1>5, <3>1
    <3> QED  BY <3>2
  <2>3. ASSUME NEW i \in 1 .. m + n, v[i] = d PROVE e[d] \in S \union T
    <3>1. CASE i \in 1 .. m
      <4>1. v[i] = a[i] /\ e[a[i]] \in S
        BY <1>4, <1>6, <3>1
      <4> QED  BY <2>3, <4>1
    <3>2. CASE \E k \in 1 .. n : i = m + k
      <4>1. PICK k \in 1 .. n : i = m + k
        BY <3>2
      <4>2. v[i] = b[k] /\ e[b[k]] \in T
        BY <1>4, <1>7, <4>1
      <4> QED  BY <2>3, <4>2
    <3> QED  BY <1>5, <3>1, <3>2
  <2> QED  BY <2>1, <2>2, <2>3
<1>10. ASSUME NEW i \in 1 .. m + n, NEW j \in 1 .. m + n, i < j
       PROVE  less(e[v[i]], e[v[j]])
  <2>1. CASE i \in 1 .. m /\ j \in 1 .. m
    <3>1. v[i] = a[i] /\ v[j] = a[j] /\ less(e[a[i]], e[a[j]])
      BY <1>3, <1>4, <1>10, <2>1
    <3> QED  BY <3>1
  <2>2. CASE i \in 1 .. m /\ \E k \in 1 .. n : j = m + k
    <3>1. PICK k \in 1 .. n : j = m + k
      BY <2>2
    <3>2. v[i] = a[i] /\ v[j] = b[k] /\ less(e[a[i]], e[b[k]])
      BY <1>4, <1>8, <2>2, <3>1
    <3> QED  BY <3>2
  <2>3. CASE (\E k \in 1 .. n : i = m + k) /\ \E k \in 1 .. n : j = m + k
    <3>1. PICK k, l \in 1 .. n : i = m + k /\ j = m + l
      BY <2>3
    <3>2. k < l
      BY <1>5, <1>10, <3>1
    <3>3. v[i] = b[k] /\ v[j] = b[l] /\ less(e[b[k]], e[b[l]])
      BY <1>3, <1>4, <3>1, <3>2
    <3> QED  BY <3>3
  <2>4. CASE (\E k \in 1 .. n : i = m + k) /\ j \in 1 .. m
    BY <1>5, <1>10, <2>4
  <2> QED  BY <1>5, <2>1, <2>2, <2>3, <2>4
<1>11. Lined(D, e, v, S \union T)
  BY <1>3, <1>4, <1>9, <1>10 DEF Lined
<1> QED  BY <1>2, <1>11

\* g is the recursion of FlattenSeq.
FlatBy(seqs, g) ==
    g = [i \in 1 .. Len(seqs) |-> IF i = 1 THEN seqs[i] ELSE g[i - 1] \o seqs[i]]

LEMMA FlattenBy ==
    ASSUME NEW seqs, Len(seqs) # 0, \E g : FlatBy(seqs, g)
    PROVE  \E g : FlatBy(seqs, g) /\ Seqs!FlattenSeq(seqs) = g[Len(seqs)]
<1>1. FlatBy(seqs, CHOOSE g : FlatBy(seqs, g))
  OBVIOUS
<1>2. Seqs!FlattenSeq(seqs) = (CHOOSE g : FlatBy(seqs, g))[Len(seqs)]
  BY DEF Seqs!FlattenSeq, FlatBy
<1> QED  BY <1>1, <1>2

LEMMA FlatExists ==
    ASSUME NEW seqs, NEW n \in Nat, n = Len(seqs)
    PROVE  \E g : FlatBy(seqs, g)
<1> DEFINE Upto(g, k) == \A i \in 1 .. k : g[i] = IF i = 1 THEN seqs[i] ELSE g[i - 1] \o seqs[i]
           S == {k \in Nat : \E g : Upto(g, k)}
<1>1. 0 \in S
  <2>1. 1 .. 0 = {}
    BY SMT
  <2> QED  BY <2>1
<1>2. ASSUME NEW k \in Nat, k \in S PROVE k + 1 \in S
  <2>1. PICK f : Upto(f, k)
    BY <1>2
  <2>2. PICK g : g = [i \in 0 .. k + 1 |-> IF i = 1 THEN seqs[i]
                                           ELSE IF i = k + 1 THEN f[k] \o seqs[k + 1] ELSE f[i]]
    OBVIOUS
  <2>3. \A i \in 1 .. k + 1 : i \in 0 .. k + 1 /\ (i # k + 1 => i \in 1 .. k)
                              /\ (i # 1 => i - 1 \in 1 .. k /\ i - 1 \in 0 .. k + 1 /\ i - 1 # k + 1)
    BY SMT
  <2>4. \A i \in 1 .. k : g[i] = f[i]
    <3>1. \A i \in 1 .. k : i \in 0 .. k + 1 /\ i # k + 1
      BY SMT
    <3> QED  BY <2>1, <2>2, <3>1
  <2>5. ASSUME NEW i \in 1 .. k + 1 PROVE g[i] = IF i = 1 THEN seqs[i] ELSE g[i - 1] \o seqs[i]
    <3>1. CASE i = 1
      BY <2>2, <2>3, <3>1
    <3>2. CASE i # 1 /\ i = k + 1
      <4>1. i - 1 = k /\ i - 1 \in 1 .. k
        BY <2>3, <3>2, SMT
      <4>2. g[i] = f[k] \o seqs[k + 1] /\ g[i - 1] = f[k]
        BY <2>2, <2>3, <2>4, <3>2, <4>1
      <4> QED  BY <3>2, <4>2
    <3>3. CASE i # 1 /\ i # k + 1
      <4>1. i \in 1 .. k /\ i - 1 \in 1 .. k
        BY <2>3, <3>3
      <4>2. g[i] = f[i] /\ g[i - 1] = f[i - 1] /\ f[i] = f[i - 1] \o seqs[i]
        BY <2>1, <2>4, <3>3, <4>1
      <4> QED  BY <3>3, <4>2
    <3> QED  BY <3>1, <3>2, <3>3
  <2>6. Upto(g, k + 1)
    BY <2>5
  <2> HIDE DEF Upto
  <2> QED  BY <2>6
<1> HIDE DEF S
<1>3. n \in S
  BY <1>1, <1>2, CountUp
<1>4. PICK f : \A i \in 1 .. n : f[i] = IF i = 1 THEN seqs[i] ELSE f[i - 1] \o seqs[i]
  BY <1>3 DEF S
<1>5. PICK g : g = [i \in 1 .. n |-> f[i]]
  OBVIOUS
<1>6. \A i \in 1 .. n : i # 1 => i - 1 \in 1 .. n
  BY SMT
<1>7. \A i \in 1 .. n : g[i] = IF i = 1 THEN seqs[i] ELSE g[i - 1] \o seqs[i]
  BY <1>4, <1>5, <1>6
<1>8. g = [i \in 1 .. n |-> g[i]]
  BY <1>5
<1>9. FlatBy(seqs, g)
  BY <1>7, <1>8 DEF FlatBy
<1> QED  BY <1>9

\* Sequences for sets one below the other.
Rows(D, e, seqs, S, n) ==
    /\ n \in Nat \ {0} /\ n = Len(seqs) /\ \A i \in 1 .. n : Lined(D, e, seqs[i], S[i])
    /\ \A i, j \in 1 .. n : i < j => Below(S[i], S[j])

\* They make one for all.
LEMMA LinedFlat ==
    ASSUME NEW D, NEW e, NEW seqs, NEW S, NEW n, Rows(D, e, seqs, S, n)
    PROVE  Lined(D, e, Seqs!FlattenSeq(seqs), UNION {S[i] : i \in 1 .. n})
<1>0. /\ n \in Nat /\ n = Len(seqs) /\ n # 0
      /\ \A i \in 1 .. n : Lined(D, e, seqs[i], S[i])
      /\ \A i, j \in 1 .. n : i < j => Below(S[i], S[j])
  BY DEF Rows
<1>1. PICK g : FlatBy(seqs, g) /\ Seqs!FlattenSeq(seqs) = g[n]
  BY <1>0, FlatExists, FlattenBy
<1>2. \A i \in 1 .. n : g[i] = IF i = 1 THEN seqs[i] ELSE g[i - 1] \o seqs[i]
  BY <1>0, <1>1 DEF FlatBy
<1> DEFINE All(k) == UNION {S[i] : i \in 1 .. k}
           T == {k \in Nat : k \in 1 .. n => Lined(D, e, g[k], All(k))}
<1>3. 0 \in T
  <2>1. 0 \notin 1 .. n
    BY SMT
  <2> QED  BY <2>1
<1>4. ASSUME NEW k \in Nat, k \in T PROVE k + 1 \in T
  <2> SUFFICES ASSUME k + 1 \in 1 .. n PROVE Lined(D, e, g[k + 1], All(k + 1))
    OBVIOUS
  <2>1. CASE k = 0
    <3>1. k + 1 = 1 /\ 1 \in 1 .. n /\ 1 .. 1 = {1}
      BY <1>0, <2>1, SMT
    <3>2. g[1] = seqs[1]
      BY <1>2, <3>1
    <3>3. All(1) = S[1]
      BY <3>1
    <3>4. Lined(D, e, seqs[1], S[1])
      BY <1>0, <3>1
    <3> QED  BY <3>1, <3>2, <3>3, <3>4
  <2>2. CASE k # 0
    <3>1. /\ k \in 1 .. n /\ k + 1 # 1 /\ (k + 1) - 1 = k
          /\ \A i \in 1 .. k : i \in 1 .. n /\ i < k + 1
          /\ \A i : i \in 1 .. k + 1 <=> i \in 1 .. k \/ i = k + 1
      BY <1>0, <2>2, SMT
    <3>2. g[k + 1] = g[k] \o seqs[k + 1]
      BY <1>2, <3>1
    <3>3. Lined(D, e, g[k], All(k)) /\ Lined(D, e, seqs[k + 1], S[k + 1])
      BY <1>0, <1>4, <3>1
    <3>4. All(k + 1) = All(k) \union S[k + 1]
      BY <3>1
    <3>5. Below(All(k), S[k + 1])
      BY <1>0, <3>1 DEF Below
    <3> HIDE DEF All
    <3>6. Lined(D, e, g[k] \o seqs[k + 1], All(k) \union S[k + 1])
      BY <3>3, <3>5, LinedConcat
    <3> QED  BY <3>2, <3>4, <3>6
  <2> QED  BY <2>1, <2>2
<1> HIDE DEF T
<1>5. n \in T
  BY <1>0, <1>3, <1>4, CountUp
<1>6. n \in 1 .. n
  BY <1>0, SMT
<1>7. Lined(D, e, g[n], All(n))
  BY <1>5, <1>6 DEF T
<1> QED  BY <1>1, <1>7

\* f is the recursion of Leaves.
LeavesBy(t, f) ==
    f = [n \in DOMAIN t.nodes |->
            IF t.nodes[n].isLeaf THEN <<n>>
            ELSE Seqs!FlattenSeq([i \in DOMAIN t.nodes[n].children |-> f[t.nodes[n].children[i]]])]

LEMMA LeavesAre ==
    ASSUME NEW t, \E f : LeavesBy(t, f)
    PROVE  \E f : LeavesBy(t, f) /\ Leaves(t) = f[t.root]
<1>1. LeavesBy(t, CHOOSE g : LeavesBy(t, g))
  OBVIOUS
<1>2. Leaves(t) = (CHOOSE g : LeavesBy(t, g))[t.root]
  BY DEF Leaves, LeavesBy
<1> QED  BY <1>1, <1>2

LEMMA LeavesExists ==
    ASSUME NEW t, NEW h, NEW W, Nest(t.nodes, t.root, h, W, {})
    PROVE  \E f : LeavesBy(t, f)
<1> DEFINE N == t.nodes
           D == DOMAIN N
           Step(f, n) == IF N[n].isLeaf THEN <<n>>
                         ELSE Seqs!FlattenSeq([i \in DOMAIN N[n].children |-> f[N[n].children[i]]])
           Upto(f, k) == \A n \in D : h[n] < k => f[n] = Step(f, n)
           S == {k \in Nat : \E f : Upto(f, k)}
<1>1. ASSUME NEW n \in D, NEW f, NEW g, \A i, c : Child(N, n, i, c) => f[c] = g[c]
      PROVE  Step(f, n) = Step(g, n)
  <2>1. DOMAIN N[n].children = 1 .. Len(N[n].children)
    BY NodeParts DEF Nest
  <2>2. \A i \in DOMAIN N[n].children : f[N[n].children[i]] = g[N[n].children[i]]
    BY <1>1, <2>1 DEF Child
  <2>3. [i \in DOMAIN N[n].children |-> f[N[n].children[i]]]
        = [i \in DOMAIN N[n].children |-> g[N[n].children[i]]]
    BY <2>2
  <2> QED  BY <2>3
<1>2. /\ \A n \in D : h[n] \in Nat /\ h[n] < h[t.root] + 1
      /\ \A n \in D : \A k \in Nat : h[n] < k + 1 <=> h[n] < k \/ h[n] = k
      /\ \A n \in D : ~ (h[n] < 0)
      /\ h[t.root] + 1 \in Nat
  BY Tallest
<1>3. \A n \in D : \A i, c : Child(N, n, i, c) => c \in D /\ h[n] = h[c] + 1
  BY DEF Nest, Ranked
<1> HIDE DEF Step
<1>4. 0 \in S
  BY <1>2
<1>5. ASSUME NEW k \in Nat, k \in S PROVE k + 1 \in S
  <2>1. PICK f : Upto(f, k)
    BY <1>5
  <2>2. PICK g : g = [n \in D |-> IF h[n] < k THEN f[n] ELSE Step(f, n)]
    OBVIOUS
  <2>3. \A n \in D : h[n] < k + 1 => g[n] = Step(f, n)
    BY <2>1, <2>2
  <2>4. ASSUME NEW n \in D, h[n] < k + 1, NEW i, NEW c, Child(N, n, i, c)
        PROVE  f[c] = g[c]
    <3>1. c \in D /\ h[n] = h[c] + 1
      BY <1>3, <2>4
    <3>2. h[c] < k
      <4>1. h[c] \in Nat /\ h[c] + 1 < k + 1
        BY <1>2, <2>4, <3>1
      <4> QED  BY <4>1, SMT
    <3> QED  BY <2>2, <3>1, <3>2
  <2>5. \A n \in D : h[n] < k + 1 => Step(f, n) = Step(g, n)
    BY <1>1, <2>4
  <2>6. Upto(g, k + 1)
    BY <2>3, <2>5
  <2> HIDE DEF Upto
  <2> QED  BY <2>6
<1> HIDE DEF S
<1>6. h[t.root] + 1 \in S
  BY <1>2, <1>4, <1>5, CountUp
<1>7. PICK f : \A n \in D : f[n] = Step(f, n)
  BY <1>2, <1>6 DEF S
<1>8. PICK g : g = [n \in D |-> f[n]]
  OBVIOUS
<1>9. \A n \in D : Step(f, n) = Step(g, n)
  <2>1. \A n \in D : \A i, c : Child(N, n, i, c) => f[c] = g[c]
    BY <1>3, <1>8
  <2> QED  BY <1>1, <2>1
<1>10. g = [n \in D |-> g[n]] /\ \A n \in D : g[n] = Step(g, n)
  BY <1>7, <1>8, <1>9
<1>11. LeavesBy(t, g)
  BY <1>10 DEF LeavesBy, Step
<1> QED  BY <1>11

\* The first item of each leaf.
Heads(N) == [l \in Leafs(N) |-> N[l].items[1]]

LEMMA HeadsIs ==
    ASSUME NEW N, Typed(N), Filled(N, {})
    PROVE  \A l \in Leafs(N) : Heads(N)[l] \in Nodes(N[l].items) /\ Heads(N)[l] \in AnyItem
                               /\ Holds(N, Heads(N)[l])
<1> SUFFICES ASSUME NEW l \in Leafs(N)
             PROVE  N[l].items[1] \in Nodes(N[l].items) /\ N[l].items[1] \in AnyItem
                    /\ Holds(N, N[l].items[1])
  BY DEF Heads
<1>1. l \in DOMAIN N /\ N[l].items # <<>>
  BY DEF Leafs, Filled
<1>2. N[l].items \in Seq(AnyItem)
  BY <1>1, NodeParts
<1>3. PICK k \in Nat : k = Len(N[l].items) /\ k # 0 /\ \A i \in 1 .. k : N[l].items[i] \in AnyItem
  BY <1>1, <1>2
<1>4. 1 \in 1 .. k
  BY <1>3, SMT
<1> QED  BY <1>1, <1>3, <1>4 DEF Nodes, Holds

\* The leaves in the order of the tree are in the order of their scopes.
LEMMA LeavesListed ==
    ASSUME NEW t, NEW h, NEW W, Nest(t.nodes, t.root, h, W, {}), InnersFull(t.nodes),
           Filled(t.nodes, {}), NEW f, LeavesBy(t, f)
    PROVE  \A n \in DOMAIN t.nodes :
              Lined(Leafs(t.nodes), Heads(t.nodes), f[n], Held(t.nodes, W, n))
<1> DEFINE N == t.nodes
           D == Leafs(N)
           e == Heads(N)
           S == {n \in DOMAIN N : Lined(D, e, f[n], Held(N, W, n))}
<1>1. \A l \in D : e[l] \in Nodes(N[l].items) /\ e[l] \in AnyItem /\ l \in DOMAIN N /\ N[l].isLeaf
  BY HeadsIs DEF Nest, Leafs
<1>2. ASSUME NEW n \in DOMAIN N, \A i, c : Child(N, n, i, c) => c \in S PROVE n \in S
  <2>1. CASE N[n].isLeaf
    <3>1. f[n] = <<n>> /\ n \in D
      BY <2>1 DEF LeavesBy, Leafs
    <3>2. PICK K : K = <<n>>
      OBVIOUS
    <3>3. K \in Seq(D) /\ Len(K) = 1 /\ K[1] = n
      BY <3>1, <3>2
    <3>4. 1 .. 1 = {1} /\ ~ (1 < 1)
      BY SMT
    <3>5. Held(N, W, n) = Nodes(N[n].items) /\ Nodes(N[n].items) \subseteq W[n]
      BY <2>1, HeldLeaf DEF Nest, Routed
    <3>6. ASSUME NEW l \in D PROVE e[l] \in Held(N, W, n) <=> l = n
      <4>1. l = n => e[l] \in Held(N, W, n)
        BY <1>1, <3>5
      <4>2. ASSUME e[l] \in Held(N, W, n) PROVE l = n
        <5>1. PICK x : x = e[l]
          OBVIOUS
        <5>2. x \in W[n] /\ l \in DOMAIN N /\ x \in Nodes(N[l].items)
          BY <1>1, <3>5, <4>2, <5>1
        <5> QED  BY <2>1, <5>2, OneLeaf
      <4> QED  BY <4>1, <4>2
    <3>7. \A l \in D : e[l] \in Held(N, W, n) <=> \E i \in 1 .. Len(K) : K[i] = l
      BY <3>3, <3>4, <3>6
    <3>8. \A i, j \in 1 .. Len(K) : i < j => less(e[K[i]], e[K[j]])
      BY <3>3, <3>4
    <3> HIDE DEF e, D
    <3>9. Lined(D, e, K, Held(N, W, n))
      BY <1>1, <3>3, <3>7, <3>8 DEF Lined
    <3> QED  BY <3>1, <3>2, <3>9
  <2>2. CASE ~ N[n].isLeaf
    <3>1. PICK k \in Nat : k = Len(N[n].children) /\ DOMAIN N[n].children = 1 .. k /\ k # 0
      <4>1. N[n].children \in Seq(Nat) /\ N[n].children # <<>>
        BY <2>2, NodeParts DEF Nest, InnersFull
      <4>2. Len(N[n].children) \in Nat /\ DOMAIN N[n].children = 1 .. Len(N[n].children)
            /\ Len(N[n].children) # 0
        BY <4>1
      <4> QED  BY <4>2
    <3>2. PICK seqs : seqs = [i \in 1 .. k |-> f[N[n].children[i]]]
      OBVIOUS
    <3>3. PICK T : T = [i \in 1 .. k |-> Held(N, W, N[n].children[i])]
      OBVIOUS
    <3>4. Len(seqs) = k
      BY <3>1, <3>2
    <3>5. \A i \in 1 .. k : Child(N, n, i, N[n].children[i]) /\ T[i] = Held(N, W, N[n].children[i])
                            /\ seqs[i] = f[N[n].children[i]]
      BY <3>1, <3>2, <3>3 DEF Child
    <3>6. \A i \in 1 .. k : Lined(D, e, seqs[i], T[i])
      <4> HIDE DEF D, e
      <4> QED  BY <1>2, <3>5
    <3>7. ASSUME NEW i \in 1 .. k, NEW j \in 1 .. k, i < j PROVE Below(T[i], T[j])
      <4>1. N[n].keys \in Seq(AnyItem)
        BY NodeParts DEF Nest
      <4>2. ASSUME NEW x \in T[i], NEW y \in T[j] PROVE less(x, y)
        <5>1. Leads(N[n].keys, x, i) /\ Leads(N[n].keys, y, j)
          BY <3>5, <4>2 DEF Held, Nest, Routed
        <5>2. x \in AnyItem /\ y \in AnyItem
          BY <3>5, <4>2 DEF Held, Nest, Routed, Ranked
        <5> QED  BY <3>7, <4>1, <5>1, <5>2, KeyBetween
      <4> QED  BY <4>2 DEF Below
    <3>8. Held(N, W, n) = UNION {T[i] : i \in 1 .. k}
      <4>1. \A y : y \in Held(N, W, n) <=> \E i, c : Child(N, n, i, c) /\ y \in Held(N, W, c)
        BY <2>2, HeldInner
      <4>2. ASSUME NEW y \in Held(N, W, n) PROVE \E i \in 1 .. k : y \in T[i]
        <5>1. PICK i, c : Child(N, n, i, c) /\ y \in Held(N, W, c)
          BY <4>1
        <5>2. i \in 1 .. k /\ c = N[n].children[i]
          BY <3>1, <5>1 DEF Child
        <5> QED  BY <3>5, <5>1, <5>2
      <4>3. ASSUME NEW i \in 1 .. k, NEW y \in T[i] PROVE y \in Held(N, W, n)
        BY <3>5, <4>1
      <4> QED  BY <4>2, <4>3
    <3>9. f[n] = Seqs!FlattenSeq(seqs)
      BY <2>2, <3>1, <3>2 DEF LeavesBy
    <3>10. Lined(D, e, Seqs!FlattenSeq(seqs), UNION {T[i] : i \in 1 .. k})
      <4> HIDE DEF D, e
      <4>1. Rows(D, e, seqs, T, k)
        BY <3>1, <3>4, <3>6, <3>7 DEF Rows
      <4> QED  BY <4>1, LinedFlat
    <3> HIDE DEF D, e
    <3> QED  BY <3>8, <3>9, <3>10
  <2> QED  BY <2>1, <2>2
<1>3. \A n \in DOMAIN N : n \in S
  <2> HIDE DEF S
  <2> QED  BY <1>2, ByHeight
<1> QED  BY <1>3

\* The leaves of the tree are those of the chain.
LEMMA LeavesIs ==
    ASSUME NEW t, NEW h, NEW W, NEW L, Tree(t.nodes, t.root, t.leafHead, h, W, L, {}),
           Filled(t.nodes, {t.root})
    PROVE  Leaves(t) = L
<1> DEFINE N == t.nodes
<1>1. /\ Nest(N, t.root, h, W, {}) /\ Chained(N, t.leafHead, L) /\ InOrder(W, L) /\ Sized(N)
      /\ Typed(N) /\ InnersFull(N) /\ t.root \in DOMAIN N
  BY DEF Tree, Sized, InnersFull, Nest, Rooted
<1>2. PICK f : LeavesBy(t, f) /\ Leaves(t) = f[t.root]
  BY <1>1, LeavesExists, LeavesAre
<1>3. PICK m \in Nat : m = Len(L) /\ L = [i \in 1 .. m |-> L[i]] /\ \A i \in 1 .. m : L[i] \in Leafs(N)
  BY <1>1 DEF Chained
<1>4. CASE N[t.root].isLeaf
  <2>1. DOMAIN N = {t.root}
    BY <1>1, <1>4, OnlyRoot
  <2>2. Leafs(N) = {t.root}
    BY <1>4, <2>1 DEF Leafs
  <2>3. PICK i \in 1 .. m : L[i] = t.root
    BY <1>1, <1>3, <2>2, ChainParts
  <2>4. ASSUME NEW j \in 1 .. m PROVE j = i
    <3>1. L[j] = L[i]
      BY <1>3, <2>2, <2>3
    <3>2. j \in 1 .. Len(L) /\ i \in 1 .. Len(L)
      BY <1>3
    <3> QED  BY <1>1, <3>1, <3>2 DEF Chained
  <2>5. m = 1
    <3>1. \A j \in 1 .. m : 1 \in 1 .. m /\ m \in 1 .. m
      BY <1>3, SMT
    <3> QED  BY <2>3, <2>4, <3>1
  <2>6. L = <<t.root>>
    <3>1. L \in Seq(Leafs(N)) /\ Len(L) = 1 /\ L[1] = t.root
      BY <1>1, <1>3, <2>3, <2>4, <2>5 DEF Chained
    <3> QED  BY <3>1
  <2>7. f[t.root] = <<t.root>>
    BY <1>1, <1>2, <1>4 DEF LeavesBy
  <2> QED  BY <1>2, <2>6, <2>7
<1>5. CASE ~ N[t.root].isLeaf
  <2>1. Filled(N, {})
    BY <1>5 DEF Filled
  <2>2. Lined(Leafs(N), Heads(N), f[t.root], Held(N, W, t.root))
    BY <1>1, <1>2, <2>1, LeavesListed
  <2>3. Held(N, W, t.root) = Everything(N)
    BY <1>1, HeldRoot
  <2>4. \A l \in Leafs(N) : Heads(N)[l] \in Nodes(N[l].items) /\ Heads(N)[l] \in AnyItem
                            /\ Holds(N, Heads(N)[l])
    BY <1>1, <2>1, HeadsIs
  <2>5. \A l \in Leafs(N) : Heads(N)[l] \in W[l]
    BY <1>1, <2>4 DEF Leafs, Nest, Routed
  <2>6. \A l \in Leafs(N) : Heads(N)[l] \in Everything(N) <=> \E i \in 1 .. Len(L) : L[i] = l
    <3>1. \A l \in Leafs(N) : \E i \in 1 .. Len(L) : L[i] = l
      BY <1>1, ChainParts
    <3> QED  BY <2>4, <3>1 DEF Everything
  <2>7. \A i, j \in 1 .. Len(L) : i < j => less(Heads(N)[L[i]], Heads(N)[L[j]])
    <3>1. SUFFICES ASSUME NEW i \in 1 .. Len(L), NEW j \in 1 .. Len(L), i < j
                   PROVE  less(Heads(N)[L[i]], Heads(N)[L[j]])
      OBVIOUS
    <3>2. L[i] \in Leafs(N) /\ L[j] \in Leafs(N)
      BY <1>3
    <3>3. Below(W[L[i]], W[L[j]])
      BY <1>1, <3>1 DEF InOrder
    <3> QED  BY <2>5, <3>2, <3>3 DEF Below
  <2>8. L \in Seq(Leafs(N))
    BY <1>1 DEF Chained
  <2>9. Lined(Leafs(N), Heads(N), L, Everything(N))
    BY <2>4, <2>6, <2>7, <2>8 DEF Lined
  <2>10. f[t.root] = L
    BY <2>2, <2>3, <2>9, LinedOnce
  <2> QED  BY <1>2, <2>10
<1> QED  BY <1>4, <1>5

-----------------------------------------------------------------------------
(* The chain of the leaves                                                   *)

LEMMA RestOf ==
    ASSUME NEW S, NEW list \in Seq(S), NEW m \in Nat, m = Len(list)
    PROVE  /\ Rest(list, 0) = list
           /\ \A i \in 1 .. m : Rest(list, i - 1) = IF i = m THEN <<list[i]>>
                                                    ELSE <<list[i]>> \o Rest(list, i)
<1>1. list = [k \in 1 .. m |-> list[k]] /\ \A k \in 1 .. m : list[k] \in S
  OBVIOUS
<1>2. Rest(list, 0) = list
  <2>1. Rest(list, 0) = [k \in 1 .. m - 0 |-> list[0 + k]]
    BY DEF Rest
  <2>2. m - 0 = m /\ \A k \in 1 .. m : 0 + k = k
    BY SMT
  <2> QED  BY <1>1, <2>1, <2>2
<1>3. ASSUME NEW i \in 1 .. m
      PROVE  Rest(list, i - 1) = IF i = m THEN <<list[i]>> ELSE <<list[i]>> \o Rest(list, i)
  <2>1. PICK q \in Nat : q = m - i
    <3>1. m - i \in Nat
      BY SMT
    <3> QED  BY <3>1
  <2>2. /\ m - (i - 1) = 1 + q /\ 1 + q \in Nat
        /\ \A k \in 1 .. q : i + k \in 1 .. m
        /\ \A k \in 1 .. 1 + q : k # 1 => k - 1 \in 1 .. q /\ i + (k - 1) = (i - 1) + k
        /\ \A k \in 1 .. 1 + q : (i - 1) + k \in 1 .. m
        /\ (i - 1) + 1 = i /\ 1 \in 1 .. 1 + q /\ (i = m => q = 0)
        /\ \A k \in 1 .. q : 1 + k \in 1 .. 1 + q /\ (i - 1) + (1 + k) = i + k
    BY <2>1, SMT
  <2>3. PICK a : a = Rest(list, i - 1)
    OBVIOUS
  <2>4. a = [k \in 1 .. 1 + q |-> list[(i - 1) + k]]
    BY <2>2, <2>3 DEF Rest
  <2>5. a \in Seq(S) /\ Len(a) = 1 + q
    <3>1. a \in [1 .. 1 + q -> S]
      BY <1>1, <2>2, <2>4
    <3> QED  BY <2>2, <3>1, SeqOf
  <2>6. PICK c : c = <<list[i]>>
    OBVIOUS
  <2>7. c \in Seq(S) /\ Len(c) = 1 /\ c[1] = list[i]
    BY <1>1, <2>6
  <2>8. a[1] = list[i]
    BY <2>2, <2>4
  <2>9. CASE i = m
    <3>1. q = 0 /\ 1 + q = 1
      BY <2>2, <2>9, SMT
    <3>2. a = c
      BY <2>5, <2>7, <2>8, <3>1
    <3> QED  BY <2>3, <2>6, <2>9, <3>2
  <2>10. CASE i # m
    <3>1. PICK b : b = Rest(list, i)
      OBVIOUS
    <3>2. b = [k \in 1 .. q |-> list[i + k]]
      BY <2>1, <3>1 DEF Rest
    <3>3. b \in Seq(S) /\ Len(b) = q
      <4>1. b \in [1 .. q -> S]
        BY <1>1, <2>2, <3>2
      <4> QED  BY <2>1, <4>1, SeqOf
    <3>4. PICK v : v = c \o b
      OBVIOUS
    <3>5. /\ v \in Seq(S) /\ Len(v) = 1 + q /\ \A k \in 1 .. 1 : v[k] = c[k]
          /\ \A k \in 1 .. q : v[1 + k] = b[k]
      <4>1. PICK one : one = 1
        OBVIOUS
      <4>2. c \in Seq(S) /\ b \in Seq(S) /\ v = c \o b /\ one = Len(c) /\ q = Len(b)
        BY <2>7, <3>3, <3>4, <4>1
      <4>3. /\ v \in Seq(S) /\ Len(v) = one + q /\ \A k \in 1 .. one : v[k] = c[k]
            /\ \A k \in 1 .. q : v[one + k] = b[k]
        BY <4>2, Concat
      <4> QED  BY <4>1, <4>3
    <3>6. ASSUME NEW k \in 1 .. 1 + q PROVE a[k] = v[k]
      <4>1. CASE k = 1
        <5>1. 1 \in 1 .. 1
          BY SMT
        <5> QED  BY <2>7, <2>8, <3>5, <4>1, <5>1
      <4>2. CASE k # 1
        <5>1. PICK j \in 1 .. q : k = 1 + j
          <6>1. k - 1 \in 1 .. q /\ k = 1 + (k - 1)
            BY <2>2, <4>2, SMT
          <6> QED  BY <6>1
        <5>2. v[k] = b[j] /\ b[j] = list[i + j] /\ a[k] = list[(i - 1) + (1 + j)]
          BY <2>4, <3>2, <3>5, <5>1
        <5> QED  BY <2>2, <5>2
      <4> QED  BY <4>1, <4>2
    <3>7. a = v
      BY <2>2, <2>5, <3>5, <3>6
    <3> QED  BY <2>3, <2>6, <2>10, <3>1, <3>4, <3>7
  <2> QED  BY <2>9, <2>10
<1> QED  BY <1>2, <1>3

\* f is the recursion of LeafChain.
ChainBy(t, f) ==
    f = [n \in DOMAIN t.nodes |-> IF t.nodes[n].next = NoNode THEN <<n>> ELSE <<n>> \o f[t.nodes[n].next]]

LEMMA LeafChainBy ==
    ASSUME NEW t, \E f : ChainBy(t, f)
    PROVE  \E f : ChainBy(t, f) /\ LeafChain(t) = f[t.leafHead]
<1>1. ChainBy(t, CHOOSE g : ChainBy(t, g))
  OBVIOUS
<1>2. LeafChain(t) = (CHOOSE g : ChainBy(t, g))[t.leafHead]
  BY DEF LeafChain, ChainBy
<1> QED  BY <1>1, <1>2

LEMMA SomeLeaf ==
    ASSUME NEW N, NEW root, NEW h, NEW W, Nest(N, root, h, W, {}), InnersFull(N)
    PROVE  Leafs(N) # {}
<1> DEFINE S == {n \in DOMAIN N : Leafs(N) # {}}
<1>1. ASSUME NEW n \in DOMAIN N, \A i, c : Child(N, n, i, c) => c \in S PROVE n \in S
  <2>1. CASE N[n].isLeaf
    BY <2>1 DEF Leafs
  <2>2. CASE ~ N[n].isLeaf
    <3>1. N[n].children \in Seq(Nat) /\ N[n].children # <<>>
      BY <2>2, NodeParts DEF Nest, InnersFull
    <3>2. PICK k \in Nat : k = Len(N[n].children) /\ k # 0
      BY <3>1
    <3>3. 1 \in 1 .. k
      BY <3>2, SMT
    <3>4. Child(N, n, 1, N[n].children[1])
      BY <3>2, <3>3 DEF Child
    <3> QED  BY <1>1, <3>4
  <2> QED  BY <2>1, <2>2
<1>2. \A n \in DOMAIN N : n \in S
  <2> HIDE DEF S
  <2> QED  BY <1>1, ByHeight
<1> QED  BY <1>2 DEF Nest, Rooted

\* The chain read from leafHead is the list of the invariant.
LEMMA LeafChainIs ==
    ASSUME NEW t, NEW h, NEW W, NEW L, Tree(t.nodes, t.root, t.leafHead, h, W, L, {})
    PROVE  LeafChain(t) = L /\ Len(L) \in Nat \ {0} /\ t.leafHead = L[1]
<1> DEFINE N == t.nodes
           D == DOMAIN N
<1>1. /\ Nest(N, t.root, h, W, {}) /\ Chained(N, t.leafHead, L) /\ Sized(N) /\ InnersFull(N)
  BY DEF Tree, Sized, InnersFull
<1>2. PICK m \in Nat : m = Len(L) /\ L \in Seq(Leafs(N))
  BY <1>1 DEF Chained
<1>3. /\ \A i \in 1 .. m : L[i] \in Leafs(N) /\ L[i] \in D /\ N[L[i]].isLeaf
      /\ \A n \in Leafs(N) : \E i \in 1 .. m : L[i] = n
  BY <1>1, <1>2, ChainParts
<1>4. m # 0 /\ 1 \in 1 .. m /\ m \in 1 .. m
  <2>1. PICK n : n \in Leafs(N)
    BY <1>1, SomeLeaf
  <2>2. PICK i \in 1 .. m : L[i] = n
    BY <1>3, <2>1
  <2> QED  BY <2>2, SMT
<1>5. /\ t.leafHead = L[1] /\ \A i, j \in 1 .. m : L[i] = L[j] => i = j
      /\ \A i \in 1 .. m : N[L[i]].next = IF i = m THEN NoNode ELSE L[i + 1]
  BY <1>1, <1>2, <1>4 DEF Chained
<1>6. \A n \in D : n # NoNode /\ (~ N[n].isLeaf => N[n].next = NoNode)
  <2>1. D \in SUBSET Nat
    BY <1>1 DEF Nest, Typed
  <2> QED  BY <1>1, <2>1, BPlusTreeAssumption DEF Sized
<1>7. /\ Rest(L, 0) = L
      /\ \A i \in 1 .. m : Rest(L, i - 1) = IF i = m THEN <<L[i]>> ELSE <<L[i]>> \o Rest(L, i)
  BY <1>2, RestOf
<1>8. \A i \in 1 .. m : i # m => i + 1 \in 1 .. m /\ (i + 1) - 1 = i
  BY SMT
<1>9. \E f : ChainBy(t, f)
  <2> DEFINE place(n) == CHOOSE i \in 1 .. m : n = L[i]
  <2>1. PICK f : f = [n \in D |-> IF N[n].isLeaf THEN Rest(L, place(n) - 1) ELSE <<n>>]
    OBVIOUS
  <2>2. \A i \in 1 .. m : place(L[i]) = i
    BY <1>5
  <2>3. \A i \in 1 .. m : f[L[i]] = Rest(L, i - 1)
    BY <1>3, <2>1, <2>2
  <2> HIDE DEF place
  <2>4. ASSUME NEW n \in D
        PROVE  f[n] = IF N[n].next = NoNode THEN <<n>> ELSE <<n>> \o f[N[n].next]
    <3>1. CASE N[n].isLeaf
      <4>1. PICK i \in 1 .. m : n = L[i]
        BY <1>3, <3>1 DEF Leafs
      <4>2. CASE i = m
        BY <1>5, <1>7, <2>3, <4>1, <4>2
      <4>3. CASE i # m
        <5>1. N[n].next = L[i + 1] /\ L[i + 1] # NoNode
          BY <1>3, <1>5, <1>6, <1>8, <4>1, <4>3
        <5>2. f[L[i + 1]] = Rest(L, (i + 1) - 1)
          BY <1>8, <2>3, <4>3
        <5>3. f[L[i + 1]] = Rest(L, i)
          BY <1>8, <4>3, <5>2
        <5>4. f[n] = <<n>> \o Rest(L, i)
          BY <1>7, <2>3, <4>1, <4>3
        <5> QED  BY <5>1, <5>3, <5>4
      <4> QED  BY <4>2, <4>3
    <3>2. CASE ~ N[n].isLeaf
      BY <1>6, <2>1, <3>2
    <3> QED  BY <3>1, <3>2
  <2>5. f = [n \in D |-> f[n]]
    BY <2>1
  <2>6. ChainBy(t, f)
    BY <2>4, <2>5 DEF ChainBy
  <2> QED  BY <2>6
<1>10. PICK f : ChainBy(t, f) /\ LeafChain(t) = f[t.leafHead]
  BY <1>9, LeafChainBy
<1>11. \A n \in D : f[n] = IF N[n].next = NoNode THEN <<n>> ELSE <<n>> \o f[N[n].next]
  BY <1>10 DEF ChainBy
<1> DEFINE S == {i \in 0 .. m : i # 0 => f[L[i]] = Rest(L, i - 1)}
<1>12. m \in S
  <2>1. f[L[m]] = <<L[m]>>
    BY <1>3, <1>4, <1>5, <1>11
  <2>2. m \in 0 .. m
    BY SMT
  <2> QED  BY <1>4, <1>7, <2>1, <2>2
<1>13. \A i \in 0 .. m : i > 0 /\ i \in S => i - 1 \in S
  <2> SUFFICES ASSUME NEW i \in 0 .. m, i > 0, i \in S, i - 1 # 0 PROVE i - 1 \in S
    <3>1. \A i \in 0 .. m : i > 0 => i - 1 \in 0 .. m
      BY SMT
    <3> QED  BY <3>1
  <2>1. PICK j \in 1 .. m : j = i - 1 /\ j # m /\ i = j + 1 /\ i # 0 /\ j \in 0 .. m
    <3>1. i - 1 \in 1 .. m /\ i - 1 # m /\ i = (i - 1) + 1 /\ i # 0 /\ i - 1 \in 0 .. m
      BY SMT
    <3> QED  BY <3>1
  <2>2. f[L[j + 1]] = Rest(L, j)
    <3>1. f[L[i]] = Rest(L, i - 1)
      BY <2>1
    <3> QED  BY <2>1, <3>1
  <2>3. N[L[j]].next = L[j + 1] /\ L[j + 1] # NoNode
    BY <1>3, <1>5, <1>6, <1>8, <2>1
  <2>4. f[L[j]] = <<L[j]>> \o Rest(L, j)
    <3>1. L[j] \in D
      BY <1>3
    <3>2. f[L[j]] = IF N[L[j]].next = NoNode THEN <<L[j]>>
                    ELSE <<L[j]>> \o f[N[L[j]].next]
      BY <1>11, <3>1
    <3> QED  BY <2>2, <2>3, <3>2
  <2>5. f[L[j]] = Rest(L, j - 1)
    BY <1>7, <2>1, <2>4
  <2> QED  BY <2>1, <2>5
<1> HIDE DEF S
<1>14. \A i \in 0 .. m : i \in S
  BY <1>12, <1>13, CountDown
<1>15. f[L[1]] = L
  <2>1. 1 \in 0 .. m /\ 1 # 0 /\ 1 - 1 = 0
    BY <1>4, SMT
  <2>2. f[L[1]] = Rest(L, 1 - 1)
    BY <1>14, <2>1 DEF S
  <2> QED  BY <1>7, <2>1, <2>2
<1> QED  BY <1>2, <1>4, <1>5, <1>10, <1>15

\* The pointers between the leaves of a B+ tree go through them in the order of the
\* tree, forward from leafHead and back, after any splits and dropped leaves: what a
\* range read relies on, and the unlinking of an empty leaf (b_tree_plus.go:81-111,
\* 185-220).
THEOREM LeavesAlwaysChained == Spec => []LeavesChained
<1>1. TInv => LeavesChained
  <2> SUFFICES ASSUME kind = "bplustree", TreeOK(index) PROVE LeavesChained
    BY DEF TInv, LeavesChained
  <2>1. PICK h, W, L : Standing(index, h, W, L)
    BY DEF TreeOK, Sound
  <2>2. PICK t : t = index
    OBVIOUS
  <2>3. /\ Tree(t.nodes, t.root, t.leafHead, h, W, L, {}) /\ Filled(t.nodes, {t.root})
    BY <2>1, <2>2 DEF Standing
  <2>4. Leaves(t) = L /\ LeafChain(t) = L
    BY <2>3, LeavesIs, LeafChainIs
  <2>5. Chained(t.nodes, t.leafHead, L)
    BY <2>3 DEF Tree
  <2>6. \A i \in DOMAIN L : t.nodes[L[i]].prev = IF i = 1 THEN NoNode ELSE L[i - 1]
    <3>1. DOMAIN L = 1 .. Len(L)
      BY <2>5, ChainParts
    <3> QED  BY <2>5, <3>1 DEF Chained
  <2> QED  BY <2>2, <2>4, <2>6 DEF LeavesChained
<1> QED  BY <1>1, TreeInvariant, PTL

-----------------------------------------------------------------------------
(* The items of the chain                                                    *)

\* f is the recursion of ChainItems.
ItemsBy(t, f) ==
    f = [n \in DOMAIN t.nodes |->
            t.nodes[n].items \o IF t.nodes[n].next = NoNode THEN <<>> ELSE f[t.nodes[n].next]]

LEMMA ChainItemsBy ==
    ASSUME NEW t, \E f : ItemsBy(t, f)
    PROVE  \E f : ItemsBy(t, f) /\ ChainItems(t) = f[t.leafHead]
<1> DEFINE from == CHOOSE f : ItemsBy(t, f)
<1>1. ItemsBy(t, from)
  OBVIOUS
<1>2. ChainItems(t) = from[t.leafHead]
  BY Zenon DEF ChainItems, ItemsBy
<1> QED  BY <1>1, <1>2

\* The items of the leaves of L from the i-th on.
HeldFrom(N, L, i) == {y \in AnyItem : \E j \in 1 .. Len(L) : i <= j /\ y \in Nodes(N[L[j]].items)}

\* Sequences g of the items of the leaves of L from each of them on.
Onward(N, L, m, g, k) ==
    \A j \in 1 .. m : j > k =>
        g[j] = N[L[j]].items \o IF j = m THEN <<>> ELSE g[j + 1]

LEMMA OnwardExists ==
    ASSUME NEW N, NEW L, NEW m \in Nat
    PROVE  \E g : Onward(N, L, m, g, 0)
<1> DEFINE S == {k \in 0 .. m : \E g : Onward(N, L, m, g, k)}
<1>1. m \in S
  <2>1. m \in 0 .. m /\ \A j \in 1 .. m : ~ (j > m)
    BY SMT
  <2> QED  BY <2>1 DEF Onward
<1>2. ASSUME NEW k \in 0 .. m, k > 0, k \in S PROVE k - 1 \in S
  <2>1. PICK f : Onward(N, L, m, f, k)
    BY <1>2
  <2>2. PICK g : g = [j \in 1 .. m |-> IF j = k THEN N[L[k]].items \o IF k = m THEN <<>> ELSE f[k + 1]
                                       ELSE f[j]]
    OBVIOUS
  <2>3. ASSUME NEW j \in 1 .. m, j > k - 1
        PROVE  g[j] = N[L[j]].items \o IF j = m THEN <<>> ELSE g[j + 1]
    <3>1. CASE j = k /\ j = m
      BY <2>2, <3>1
    <3>2. CASE j = k /\ j # m
      <4>1. j + 1 \in 1 .. m /\ j + 1 # k /\ k + 1 = j + 1
        BY <3>2, SMT
      <4>2. g[j + 1] = f[k + 1]
        BY <2>2, <4>1
      <4> QED  BY <2>2, <3>2, <4>2
    <3>3. CASE j # k /\ j = m
      <4>1. j > k
        BY <1>2, <2>3, <3>3, SMT
      <4> QED  BY <2>1, <2>2, <3>3, <4>1 DEF Onward
    <3>4. CASE j # k /\ j # m
      <4>1. j > k /\ j + 1 \in 1 .. m /\ j + 1 # k
        BY <1>2, <2>3, <3>4, SMT
      <4>2. g[j] = f[j] /\ g[j + 1] = f[j + 1]
        BY <2>2, <3>4, <4>1
      <4> QED  BY <2>1, <3>4, <4>1, <4>2 DEF Onward
    <3> QED  BY <3>1, <3>2, <3>3, <3>4
  <2>4. Onward(N, L, m, g, k - 1)
    BY <2>3 DEF Onward
  <2>5. k - 1 \in 0 .. m
    BY <1>2, SMT
  <2> QED  BY <2>4, <2>5
<1> HIDE DEF S
<1>3. \A k \in 0 .. m : k \in S
  BY <1>1, <1>2, CountDown
<1>4. 0 \in 0 .. m
  BY SMT
<1> QED  BY <1>3, <1>4 DEF S

\* The items along the chain, from its end to its start.
LEMMA ItemsExists ==
    ASSUME NEW t, NEW h, NEW W, NEW L, Tree(t.nodes, t.root, t.leafHead, h, W, L, {})
    PROVE  \E f : ItemsBy(t, f)
<1> DEFINE N == t.nodes
           D == DOMAIN N
           place(n) == CHOOSE i \in 1 .. Len(L) : n = L[i]
<1>1. /\ Nest(N, t.root, h, W, {}) /\ Chained(N, t.leafHead, L) /\ Sized(N)
  BY DEF Tree
<1>2. PICK m \in Nat : m = Len(L)
  BY <1>1, ChainParts
<1>3. /\ \A i \in 1 .. m : L[i] \in D /\ N[L[i]].isLeaf
      /\ \A n \in Leafs(N) : \E i \in 1 .. m : L[i] = n
  BY <1>1, <1>2, ChainParts
<1>4. /\ \A i, j \in 1 .. m : L[i] = L[j] => i = j
      /\ \A i \in 1 .. m : N[L[i]].next = IF i = m THEN NoNode ELSE L[i + 1]
  BY <1>1, <1>2 DEF Chained
<1>5. \A n \in D : n # NoNode /\ (~ N[n].isLeaf => N[n].next = NoNode)
  <2>1. D \in SUBSET Nat
    BY <1>1 DEF Nest, Typed
  <2> QED  BY <1>1, <2>1, BPlusTreeAssumption DEF Sized
<1>6. PICK g : Onward(N, L, m, g, 0)
  BY OnwardExists
<1>7. \A i \in 1 .. m : i > 0 /\ (i # m => i + 1 \in 1 .. m)
  BY SMT
<1>8. PICK f : f = [n \in D |-> IF N[n].isLeaf THEN g[place(n)] ELSE N[n].items \o <<>>]
  OBVIOUS
<1>9. \A i \in 1 .. m : place(L[i]) = i
  BY <1>2, <1>4
<1>10. \A i \in 1 .. m : f[L[i]] = g[i]
  BY <1>3, <1>8, <1>9
<1>11. ASSUME NEW n \in D
       PROVE  f[n] = N[n].items \o IF N[n].next = NoNode THEN <<>> ELSE f[N[n].next]
  <2>1. CASE ~ N[n].isLeaf
    BY <1>5, <1>8, <2>1
  <2>2. CASE N[n].isLeaf
    <3>1. PICK i \in 1 .. m : L[i] = n
      BY <1>3, <2>2 DEF Leafs
    <3>2. f[n] = N[n].items \o IF i = m THEN <<>> ELSE g[i + 1]
      BY <1>6, <1>7, <1>10, <3>1 DEF Onward
    <3>3. CASE i = m
      BY <1>4, <3>1, <3>2, <3>3
    <3>4. CASE i # m
      <4>1. i + 1 \in 1 .. m /\ N[n].next = L[i + 1]
        BY <1>4, <1>7, <3>1, <3>4
      <4>2. N[n].next # NoNode /\ f[N[n].next] = g[i + 1]
        BY <1>3, <1>5, <1>10, <4>1
      <4> QED  BY <3>2, <3>4, <4>2
    <3> QED  BY <3>3, <3>4
  <2> QED  BY <2>1, <2>2
<1>12. ItemsBy(t, f)
  BY <1>8, <1>11 DEF ItemsBy
<1> QED  BY <1>12

\* Each item stands for itself: the map by which a sorted list is lined up.
Itself == [x \in AnyItem |-> x]

LEMMA SortedLined ==
    ASSUME NEW list
    PROVE  /\ Sorted(list) => Lined(AnyItem, Itself, list, Nodes(list))
           /\ \A S \in SUBSET AnyItem : Lined(AnyItem, Itself, list, S) => Sorted(list) /\ Nodes(list) = S
<1>1. \A x \in AnyItem : Itself[x] = x
  BY DEF Itself
<1>2. list \in Seq(AnyItem) => Len(list) \in Nat /\ \A i \in 1 .. Len(list) : list[i] \in AnyItem
  OBVIOUS
<1>3. Sorted(list) => Lined(AnyItem, Itself, list, Nodes(list))
  BY <1>1, <1>2 DEF Sorted, Lined, Nodes
<1>4. ASSUME NEW S \in SUBSET AnyItem, Lined(AnyItem, Itself, list, S)
      PROVE  Sorted(list) /\ Nodes(list) = S
  <2>1. /\ list \in Seq(AnyItem)
        /\ \A d \in AnyItem : d \in S <=> \E i \in 1 .. Len(list) : list[i] = d
        /\ \A i, j \in 1 .. Len(list) : i < j => less(Itself[list[i]], Itself[list[j]])
    BY <1>1, <1>4 DEF Lined
  <2>2. \A i \in 1 .. Len(list) : Itself[list[i]] = list[i]
    BY <1>1, <1>2, <2>1
  <2>3. Sorted(list)
    BY <2>1, <2>2 DEF Sorted
  <2>4. Nodes(list) = S
    BY <1>2, <2>1 DEF Nodes
  <2> QED  BY <2>3, <2>4
<1> QED  BY <1>3, <1>4

\* What a read of the chain collects from each leaf on.
LEMMA ItemsListed ==
    ASSUME NEW t, NEW h, NEW W, NEW L, Tree(t.nodes, t.root, t.leafHead, h, W, L, {}),
           NEW f, ItemsBy(t, f), NEW m \in Nat, m = Len(L)
    PROVE  \A i \in 1 .. m : Lined(AnyItem, Itself, f[L[i]], HeldFrom(t.nodes, L, i))
<1> DEFINE N == t.nodes
           D == DOMAIN N
<1>1. /\ Nest(N, t.root, h, W, {}) /\ Chained(N, t.leafHead, L) /\ InOrder(W, L)
  BY DEF Tree
<1>2. \A i \in 1 .. m : L[i] \in D /\ Sorted(N[L[i]].items) /\ Nodes(N[L[i]].items) \subseteq W[L[i]]
                        /\ W[L[i]] \in SUBSET AnyItem
  <2>1. \A i \in 1 .. m : L[i] \in D
    BY <1>1, ChainParts
  <2> QED  BY <1>1, <2>1 DEF Nest, Routed, Shaped
<1>3. D \in SUBSET Nat /\ NoNode \notin D
  BY <1>1, BPlusTreeAssumption DEF Nest, Typed
<1>4. \A i \in 1 .. m : N[L[i]].next = IF i = m THEN NoNode ELSE L[i + 1]
  BY <1>1 DEF Chained
<1>5. \A n \in D : f[n] = N[n].items \o IF N[n].next = NoNode THEN <<>> ELSE f[N[n].next]
  BY DEF ItemsBy
<1> DEFINE Right(i) == i # 0 => Lined(AnyItem, Itself, f[L[i]], HeldFrom(N, L, i))
           S == {i \in 0 .. m : Right(i)}
<1>6. \A i \in 1 .. m : Lined(AnyItem, Itself, N[L[i]].items, Nodes(N[L[i]].items))
  BY <1>2, SortedLined
<1>7. m \in S
  <2> SUFFICES ASSUME m # 0 PROVE Lined(AnyItem, Itself, f[L[m]], HeldFrom(N, L, m))
    <3>1. m \in 0 .. m
      BY SMT
    <3> QED  BY <3>1
  <2>1. m \in 1 .. m /\ m <= m /\ \A j \in 1 .. m : m <= j => j = m
    BY SMT
  <2>2. f[L[m]] = N[L[m]].items
    <3>1. N[L[m]].next = NoNode
      BY <1>4, <2>1
    <3>2. f[L[m]] = N[L[m]].items \o <<>>
      BY <1>2, <1>5, <2>1, <3>1
    <3>3. N[L[m]].items \in Seq(AnyItem)
      BY <1>2, <2>1 DEF Sorted
    <3> QED  BY <3>2, <3>3
  <2>3. HeldFrom(N, L, m) = Nodes(N[L[m]].items)
    BY <1>2, <2>1 DEF HeldFrom
  <2> QED  BY <1>6, <2>1, <2>2, <2>3
<1>8. ASSUME NEW i \in 0 .. m, i > 0, i \in S PROVE i - 1 \in S
  <2> SUFFICES ASSUME i - 1 # 0
               PROVE  Lined(AnyItem, Itself, f[L[i - 1]], HeldFrom(N, L, i - 1))
    <3>1. i - 1 \in 0 .. m
      BY <1>8, SMT
    <3> QED  BY <3>1
  <2>1. PICK j \in 1 .. m : j = i - 1
    <3>1. i - 1 \in 1 .. m
      BY <1>8, SMT
    <3> QED  BY <3>1
  <2>2. /\ i \in 1 .. m /\ j # m /\ j + 1 = i /\ j < i /\ j <= j /\ i # 0
        /\ \A k \in 1 .. m : (j <= k <=> k = j \/ i <= k) /\ (i <= k => j < k)
    BY <1>8, <2>1, SMT
  <2>3. N[L[j]].next = L[i] /\ L[i] # NoNode
    BY <1>2, <1>3, <1>4, <2>2
  <2>4. PICK a : a = N[L[j]].items
    OBVIOUS
  <2>5. PICK b : b = f[L[i]]
    OBVIOUS
  <2>6. f[L[j]] = a \o b
    BY <1>2, <1>5, <2>3, <2>4, <2>5
  <2>7. PICK X : X = Nodes(a)
    OBVIOUS
  <2>8. PICK Y : Y = HeldFrom(N, L, i)
    OBVIOUS
  <2>9. Lined(AnyItem, Itself, a, X) /\ Lined(AnyItem, Itself, b, Y)
    BY <1>6, <1>8, <2>2, <2>4, <2>5, <2>7, <2>8
  <2>10. Below(X, Y)
    <3>1. ASSUME NEW x \in X, NEW y \in Y PROVE less(x, y)
      <4>1. PICK k \in 1 .. m : i <= k /\ y \in Nodes(N[L[k]].items)
        BY <2>8 DEF HeldFrom
      <4>2. j < k
        BY <2>2, <4>1
      <4>3. Below(W[L[j]], W[L[k]])
        BY <1>1, <4>2 DEF InOrder
      <4>4. x \in W[L[j]] /\ y \in W[L[k]]
        BY <1>2, <2>4, <2>7, <4>1
      <4> QED  BY <4>3, <4>4 DEF Below
    <3> QED  BY <3>1 DEF Below
  <2>11. Lined(AnyItem, Itself, a \o b, X \union Y)
    BY <2>9, <2>10, LinedConcat
  <2>12. HeldFrom(N, L, j) = X \union Y
    <3>1. X \subseteq AnyItem
      BY <1>2, <2>4, <2>7
    <3> QED  BY <2>2, <2>4, <2>7, <2>8, <3>1 DEF HeldFrom
  <2> QED  BY <2>1, <2>6, <2>11, <2>12
<1> HIDE DEF S
<1>9. \A i \in 0 .. m : i \in S
  BY <1>7, <1>8, CountDown
<1>10. \A i \in 1 .. m : i \in 0 .. m /\ i # 0
  BY SMT
<1> QED  BY <1>9, <1>10 DEF S

\* The chain has the items of the tree, in order.
LEMMA ChainItemsAre ==
    ASSUME NEW t, NEW h, NEW W, NEW L, Tree(t.nodes, t.root, t.leafHead, h, W, L, {})
    PROVE  Sorted(ChainItems(t)) /\ Nodes(ChainItems(t)) = Everything(t.nodes)
<1> DEFINE N == t.nodes
<1>1. PICK m \in Nat : m = Len(L) /\ m # 0 /\ t.leafHead = L[1]
  <2>1. Len(L) \in Nat \ {0} /\ t.leafHead = L[1]
    BY LeafChainIs
  <2> QED  BY <2>1, SMT
<1>2. PICK f : ItemsBy(t, f) /\ ChainItems(t) = f[t.leafHead]
  BY ItemsExists, ChainItemsBy
<1>3. 1 \in 1 .. m /\ \A j \in 1 .. m : 1 <= j
  BY <1>1, SMT
<1>4. Lined(AnyItem, Itself, f[L[1]], HeldFrom(N, L, 1))
  BY <1>1, <1>2, <1>3, ItemsListed
<1>5. HeldFrom(N, L, 1) = Everything(N)
  <2>1. Nest(N, t.root, h, W, {}) /\ Chained(N, t.leafHead, L)
    BY DEF Tree
  <2>2. \A j \in 1 .. m : L[j] \in DOMAIN N
    BY <1>1, <2>1, ChainParts
  <2>3. ASSUME NEW n \in DOMAIN N, NEW y \in Nodes(N[n].items)
        PROVE  \E j \in 1 .. m : L[j] = n
    <3>1. N[n].isLeaf
      <4>1. ~ N[n].isLeaf => N[n].items = <<>>
        BY <2>1 DEF Nest, Shaped
      <4>2. Nodes(<<>>) = {}
        BY DEF Nodes
      <4> QED  BY <2>3, <4>1, <4>2
    <3>2. n \in Leafs(N)
      BY <3>1 DEF Leafs
    <3> QED  BY <1>1, <2>1, <3>2, ChainParts
  <2>4. ASSUME NEW y PROVE y \in HeldFrom(N, L, 1) <=> y \in Everything(N)
    <3>1. y \in HeldFrom(N, L, 1) <=> y \in AnyItem /\ \E j \in 1 .. m : y \in Nodes(N[L[j]].items)
      BY <1>1, <1>3 DEF HeldFrom
    <3>2. y \in Everything(N) <=> y \in AnyItem /\ \E n \in DOMAIN N : y \in Nodes(N[n].items)
      BY DEF Everything, Holds
    <3> QED  BY <2>2, <2>3, <3>1, <3>2
  <2> QED  BY <2>4
<1>6. HeldFrom(N, L, 1) \in SUBSET AnyItem
  BY DEF HeldFrom
<1> QED  BY <1>1, <1>2, <1>4, <1>5, <1>6, SortedLined

-----------------------------------------------------------------------------
(* The rank of an item in the tree                                           *)

LEMMA BelowInList ==
    ASSUME NEW list, Sorted(list), NEW x \in AnyItem, x \in Nodes(list)
    PROVE  \E p \in Nat : /\ p + 1 \in 1 .. Len(list) /\ list[p + 1] = x /\ Place(list, x) = p + 1
                          /\ Cardinality({y \in Nodes(list) : less(y, x)}) = p
<1>1. PICK p \in Nat : /\ p + 1 \in 1 .. Len(list) /\ list[p + 1] = x /\ Place(list, x) = p + 1
                       /\ Before(list, x, p)
  BY ItemPlace
<1>2. PICK n \in Nat : n = Len(list)
  BY ListParts
<1>3. PICK one : one = 1
  OBVIOUS
<1>4. PICK part : part = Part(list, one, p)
  OBVIOUS
<1>5. Taken(list, one, p, part)
  <2>1. one \in Nat \ {0} /\ p <= n /\ one <= p + 1
    BY <1>1, <1>2, <1>3, SMT
  <2> QED  BY <1>2, <1>4, <2>1 DEF Taken
<1>6. Sorted(part) /\ Len(part) = p - one + 1 /\ Nodes(part) = {list[i] : i \in one .. p}
  BY <1>5, PartOf
<1>7. p - one + 1 = p
  BY <1>3, SMT
<1>8. Cardinality(Nodes(part)) = p
  BY <1>6, <1>7, ListSize
<1>9. \A i : i \in 1 .. p <=> i \in 1 .. n /\ i <= p
  BY <1>1, <1>2, SMT
<1>10. \A i \in 1 .. n : less(list[i], x) <=> i <= p
  BY <1>1, <1>2 DEF Before
<1>11. {y \in Nodes(list) : less(y, x)} = {list[i] : i \in 1 .. p}
  BY <1>2, <1>9, <1>10 DEF Nodes
<1> QED  BY <1>1, <1>3, <1>6, <1>8, <1>11

\* The place of an item that is not in a list holds another.
LEMMA OtherPlace ==
    ASSUME NEW list, Sorted(list), NEW x \in AnyItem, x \notin Nodes(list)
    PROVE  ~ (Place(list, x) <= Len(list) /\ list[Place(list, x)] = x)
<1>1. PICK n \in Nat : n = Len(list)
  BY ListParts
<1>2. PICK p : p = Cut(list, x)
  OBVIOUS
<1>3. Before(list, x, p)
  BY <1>2, CutIs
<1>4. p \in 0 .. n
  BY <1>1, <1>3 DEF Before
<1>5. Place(list, x) = p + 1
  BY <1>3, PlaceIs
<1>6. p + 1 <= n => p + 1 \in 1 .. n
  BY <1>4, SMT
<1> QED  BY <1>1, <1>5, <1>6 DEF Nodes

\* What n holds below x, and what rank returns at n for x.
Beneath(N, W, n, x) == {y \in Held(N, W, n) : less(y, x)}
RankFrom(N, W, n, x) == IF x \in Held(N, W, n) THEN Cardinality(Beneath(N, W, n, x)) ELSE NoRank

\* One step of the recursion of bRank.
RankStep(N, x, f, n) ==
    LET node == N[n] IN
    IF node.isLeaf
    THEN LET i == Place(node.items, x) IN
         IF i <= Len(node.items) /\ node.items[i] = x THEN i - 1 ELSE NoRank
    ELSE LET i == Branch(node.keys, x)
             below == f[node.children[i]]
         IN IF below = NoRank THEN NoRank
            ELSE below + Total([j \in 1 .. i - 1 |-> N[node.children[j]].count])

\* The rank at a leaf, and at an inner node given the rank in the child.
LEMMA RankLeaf ==
    ASSUME NEW N, NEW root, NEW h, NEW W, Nest(N, root, h, W, {}), NEW x \in AnyItem,
           NEW n \in DOMAIN N, N[n].isLeaf, NEW f
    PROVE  RankStep(N, x, f, n) = RankFrom(N, W, n, x)
<1>1. PICK items : items = N[n].items
  OBVIOUS
<1>2. Sorted(items)
  BY <1>1 DEF Nest, Shaped
<1>3. Held(N, W, n) = Nodes(items)
  BY <1>1, HeldLeaf
<1>4. PICK i : i = Place(items, x)
  OBVIOUS
<1>5. RankStep(N, x, f, n) = IF i <= Len(items) /\ items[i] = x THEN i - 1 ELSE NoRank
  BY <1>1, <1>4 DEF RankStep
<1>6. CASE x \in Nodes(items)
  <2>1. PICK p \in Nat : /\ p + 1 \in 1 .. Len(items) /\ items[p + 1] = x /\ Place(items, x) = p + 1
                         /\ Cardinality({y \in Nodes(items) : less(y, x)}) = p
    BY <1>2, <1>6, BelowInList
  <2>2. i <= Len(items) /\ items[i] = x /\ i - 1 = p
    <3>1. Len(items) \in Nat
      BY <1>2, ListParts
    <3>2. i <= Len(items) /\ i - 1 = p
      BY <1>4, <2>1, <3>1, SMT
    <3> QED  BY <1>4, <2>1, <3>2
  <2>3. RankFrom(N, W, n, x) = p
    BY <1>3, <1>6, <2>1 DEF RankFrom, Beneath
  <2> QED  BY <1>5, <2>2, <2>3
<1>7. CASE x \notin Nodes(items)
  <2>1. ~ (i <= Len(items) /\ items[i] = x)
    BY <1>2, <1>4, <1>7, OtherPlace
  <2> QED  BY <1>3, <1>5, <1>7, <2>1 DEF RankFrom
<1> QED  BY <1>6, <1>7

\* What the first k children of n hold.
FirstHeld(N, W, n, k) == UNION {Held(N, W, N[n].children[j]) : j \in 1 .. k}

\* What the children of n before the i-th hold, and what is below x in the i-th, is
\* what is below x in n.
LEMMA BelowInNode ==
    ASSUME NEW N, NEW root, NEW h, NEW W, Nest(N, root, h, W, {}), NEW x \in AnyItem,
           NEW n \in DOMAIN N, ~ N[n].isLeaf, NEW i, NEW c, Child(N, n, i, c), Leads(N[n].keys, x, i),
           NEW all, all = FirstHeld(N, W, n, i - 1)
    PROVE  /\ x \in Held(N, W, n) <=> x \in Held(N, W, c)
           /\ Beneath(N, W, n, x) = Beneath(N, W, c, x) \union all
           /\ Beneath(N, W, c, x) \cap all = {}
<1>1. PICK keys : keys = N[n].keys
  OBVIOUS
<1>2. keys \in Seq(AnyItem)
  BY <1>1, NodeParts DEF Nest
<1>3. PICK l \in Nat : l = Len(keys)
  BY <1>2
<1>4. /\ \A y : y \in Held(N, W, n) <=> \E j, d : Child(N, n, j, d) /\ y \in Held(N, W, d)
      /\ \A j, k, d, e : Child(N, n, j, d) /\ Child(N, n, k, e) /\ j # k
                            => Held(N, W, d) \cap Held(N, W, e) = {}
  BY HeldInner
<1>5. ASSUME NEW j, NEW d, Child(N, n, j, d), NEW y \in Held(N, W, d)
      PROVE  y \in AnyItem /\ Leads(keys, y, j) /\ d = N[n].children[j]
  <2>1. d \in DOMAIN N /\ d = N[n].children[j]
    BY <1>5 DEF Nest, Ranked, Child
  <2>2. y \in W[d] /\ W[d] \in SUBSET AnyItem
    BY <2>1 DEF Held, Nest, Routed
  <2>3. Leads(keys, y, j)
    BY <1>1, <1>5, <2>2 DEF Nest, Routed
  <2> QED  BY <2>1, <2>2, <2>3
<1>6. x \in Held(N, W, n) <=> x \in Held(N, W, c)
  <2>1. ASSUME NEW j, NEW d, Child(N, n, j, d), x \in Held(N, W, d) PROVE d = c
    <3>1. Leads(keys, x, j)
      BY <1>5, <2>1
    <3>2. j = i
      BY <1>1, <1>2, <3>1, BranchIs
    <3> QED  BY <2>1, <3>2 DEF Child
  <2> QED  BY <1>4, <2>1
<1>7. i \in 1 .. l + 1 /\ (\A j \in 1 .. i - 1 : ~ less(x, keys[j])) /\ (i <= l => less(x, keys[i]))
  BY <1>1, <1>3 DEF Leads
<1>8. \A j \in 1 .. l : keys[j] \in AnyItem
  BY <1>2, <1>3
<1>9. ASSUME NEW j, NEW d, Child(N, n, j, d), NEW y \in Held(N, W, d), j # i
      PROVE  j \in 1 .. i - 1 <=> less(y, x)
  <2>1. y \in AnyItem /\ Leads(keys, y, j)
    BY <1>5, <1>9
  <2>2. j \in 1 .. l + 1 /\ (\A k \in 1 .. j - 1 : ~ less(y, keys[k])) /\ (j <= l => less(y, keys[j]))
    BY <1>3, <2>1 DEF Leads
  <2>3. CASE j < i
    <3>1. j \in 1 .. i - 1 /\ j \in 1 .. l /\ j <= l
      BY <1>7, <2>2, <2>3, SMT
    <3>2. less(y, keys[j]) /\ ~ less(x, keys[j]) /\ keys[j] \in AnyItem
      BY <1>7, <1>8, <2>2, <3>1
    <3>3. less(y, x)
      BY <2>1, <3>2, LessOrder
    <3> QED  BY <3>1, <3>3
  <2>4. CASE i < j
    <3>1. ~ (j \in 1 .. i - 1) /\ i \in 1 .. j - 1 /\ i \in 1 .. l /\ i <= l
      BY <1>7, <2>2, <2>4, SMT
    <3>2. less(x, keys[i]) /\ ~ less(y, keys[i]) /\ keys[i] \in AnyItem
      BY <1>7, <1>8, <2>2, <3>1
    <3>3. ~ less(y, x)
      BY <2>1, <3>2, LessOrder
    <3> QED  BY <3>1, <3>3
  <2>5. j < i \/ i < j
    BY <1>7, <1>9, <2>2, SMT
  <2> QED  BY <2>3, <2>4, <2>5
<1>10. \A j \in 1 .. i - 1 : j # i /\ Child(N, n, j, N[n].children[j])
  <2>1. i \in 1 .. Len(N[n].children) /\ Len(N[n].children) \in Nat
    BY NodeParts DEF Nest, Child
  <2>2. \A j \in 1 .. i - 1 : j # i /\ j \in 1 .. Len(N[n].children)
    BY <2>1, SMT
  <2> QED  BY <2>2 DEF Child
<1>11. ASSUME NEW y PROVE y \in Held(N, W, n) /\ less(y, x) <=> (y \in Held(N, W, c) /\ less(y, x)) \/ y \in all
  <2>1. ASSUME y \in Held(N, W, n), less(y, x), y \notin Held(N, W, c) PROVE y \in all
    <3>1. PICK j, d : Child(N, n, j, d) /\ y \in Held(N, W, d)
      BY <1>4, <2>1
    <3>2. j # i
      BY <2>1, <3>1 DEF Child
    <3>3. j \in 1 .. i - 1 /\ d = N[n].children[j]
      BY <1>5, <1>9, <2>1, <3>1, <3>2
    <3> QED  BY <3>1, <3>3 DEF FirstHeld
  <2>2. ASSUME y \in all PROVE y \in Held(N, W, n) /\ less(y, x)
    <3>1. PICK j \in 1 .. i - 1 : y \in Held(N, W, N[n].children[j])
      BY <2>2 DEF FirstHeld
    <3> QED  BY <1>4, <1>9, <1>10, <3>1
  <2>3. ASSUME y \in Held(N, W, c) PROVE y \in Held(N, W, n)
    BY <1>4, <2>3
  <2> QED  BY <2>1, <2>2, <2>3
<1>12. ASSUME NEW y, y \in Held(N, W, c), y \in all PROVE FALSE
  <2>1. PICK j \in 1 .. i - 1 : y \in Held(N, W, N[n].children[j])
    BY <1>12 DEF FirstHeld
  <2> QED  BY <1>4, <1>10, <1>12, <2>1
<1> QED  BY <1>6, <1>11, <1>12 DEF Beneath

LEMMA RankInner ==
    ASSUME NEW t, NEW h, NEW W, NEW L, Sound(t, h, W, L), NEW x \in AnyItem,
           NEW n \in DOMAIN t.nodes, ~ t.nodes[n].isLeaf,
           NEW f, \A i, c : Child(t.nodes, n, i, c) => f[c] = RankFrom(t.nodes, W, c, x)
    PROVE  RankStep(t.nodes, x, f, n) = RankFrom(t.nodes, W, n, x)
<1>1. PICK N : N = t.nodes
  OBVIOUS
<1>2. /\ Nest(N, t.root, h, W, {}) /\ Sized(N) /\ IsFiniteSet(Everything(N))
      /\ \A m \in DOMAIN N : N[m].count = Cardinality(Held(N, W, m))
  BY <1>1 DEF Sound, Standing, Tree, Kept
<1>3. N[n].children # <<>>
  BY <1>1, <1>2 DEF Sized
<1>4. PICK i, c : i = Branch(N[n].keys, x) /\ c = Toward(N, x, n)
  OBVIOUS
<1>5. Child(N, n, i, c) /\ Leads(N[n].keys, x, i) /\ c \in DOMAIN N
  BY <1>1, <1>2, <1>3, <1>4, TowardChild
<1>6. PICK all : all = FirstHeld(N, W, n, i - 1)
  OBVIOUS
<1>7. PICK A : A = Beneath(N, W, c, x)
  OBVIOUS
<1>8. /\ x \in Held(N, W, n) <=> x \in Held(N, W, c)
      /\ Beneath(N, W, n, x) = A \union all
      /\ A \cap all = {}
  <2>1. Nest(N, t.root, h, W, {}) /\ n \in DOMAIN N /\ ~ N[n].isLeaf
    BY <1>1, <1>2
  <2> QED  BY <1>5, <1>6, <1>7, <2>1, BelowInNode
<1>9. PICK numbers : numbers = [j \in 1 .. i - 1 |-> N[N[n].children[j]].count]
  OBVIOUS
<1>10. HeldFirst(N, W, n, i - 1, numbers, all)
  <2>1. i \in 1 .. Len(N[n].children) /\ Len(N[n].children) \in Nat
    BY <1>1, <1>2, <1>5, NodeParts DEF Nest, Child
  <2>2. i - 1 \in 0 .. Len(N[n].children) /\ \A j \in 1 .. i - 1 : j \in 1 .. Len(N[n].children)
    BY <2>1, SMT
  <2>3. \A j \in 1 .. i - 1 : N[n].children[j] \in DOMAIN N
    BY <1>1, <1>2, <2>2 DEF Nest, Ranked, Child
  <2>4. numbers = [j \in 1 .. i - 1 |-> Cardinality(Held(N, W, N[n].children[j]))]
    BY <1>2, <1>9, <2>3
  <2> QED  BY <1>6, <2>2, <2>4 DEF HeldFirst, FirstHeld
<1>11. Total(numbers) = Cardinality(all) /\ IsFiniteSet(all)
  BY <1>1, <1>2, <1>10, HeldTotal
<1>12. IsFiniteSet(A)
  <2>1. IsFiniteSet(Held(N, W, c)) /\ A \in SUBSET Held(N, W, c)
    BY <1>2, <1>5, <1>7, HeldFinite DEF Beneath
  <2> QED  BY <2>1, FS_Subset
<1>13. Cardinality(A \union all) = Cardinality(A) + Cardinality(all) /\ Cardinality(A) \in Nat
  <2>1. Cardinality(A) \in Nat /\ Cardinality(all) \in Nat
    BY <1>11, <1>12, FS_CardinalityType
  <2>2. Cardinality(A \union all) = Cardinality(A) + Cardinality(all) - Cardinality(A \cap all)
    BY <1>11, <1>12, FS_Union
  <2>3. Cardinality(A \cap all) = 0
    BY <1>8, FS_EmptySet
  <2>4. Cardinality(A) + Cardinality(all) - 0 = Cardinality(A) + Cardinality(all)
    BY <2>1, SMT
  <2> QED  BY <2>1, <2>2, <2>3, <2>4
<1>14. f[c] = RankFrom(N, W, c, x)
  BY <1>1, <1>5
<1>15. RankStep(N, x, f, n) = IF f[c] = NoRank THEN NoRank ELSE f[c] + Total(numbers)
  <2> USE <1>1
  <2>1. N[n].children[i] = c
    BY <1>5 DEF Child
  <2>2. RankStep(N, x, f, n)
           = IF f[N[n].children[i]] = NoRank THEN NoRank
             ELSE f[N[n].children[i]] + Total([j \in 1 .. i - 1 |-> N[N[n].children[j]].count])
    BY <1>4 DEF RankStep
  <2> QED  BY <1>9, <2>1, <2>2
<1>16. CASE x \in Held(N, W, c)
  <2>1. f[c] = Cardinality(A)
    BY <1>7, <1>14, <1>16 DEF RankFrom
  <2>2. f[c] # NoRank
    BY <1>13, <2>1 DEF NoRank
  <2>3. RankFrom(N, W, n, x) = Cardinality(A \union all)
    BY <1>8, <1>16 DEF RankFrom
  <2> QED  BY <1>1, <1>11, <1>13, <1>15, <2>1, <2>2, <2>3
<1>17. CASE x \notin Held(N, W, c)
  BY <1>1, <1>8, <1>14, <1>15, <1>17 DEF RankFrom
<1> QED  BY <1>16, <1>17

\* f is the recursion of bRank.
RankBy(t, x, f) == f = [n \in DOMAIN t.nodes |-> RankStep(t.nodes, x, f, n)]

LEMMA BRankBy ==
    ASSUME NEW t, NEW m, NEW x, x = Item(m, t.members[m]), \E f : RankBy(t, x, f)
    PROVE  \E f : RankBy(t, x, f) /\ bRank(t, m) = IF m \in DOMAIN t.members THEN f[t.root] ELSE NoRank
<1> DEFINE f == CHOOSE g : RankBy(t, Item(m, t.members[m]), g)
<1>1. RankBy(t, Item(m, t.members[m]), f)
  OBVIOUS
<1>2. bRank(t, m) = IF m \in DOMAIN t.members THEN f[t.root] ELSE NoRank
  BY Zenon DEF bRank, bIsMember, RankBy, RankStep
<1> HIDE DEF f
<1> QED  BY <1>1, <1>2

LEMMA RanksAre ==
    ASSUME NEW t, NEW h, NEW W, NEW L, Sound(t, h, W, L), NEW x \in AnyItem
    PROVE  /\ \E f : RankBy(t, x, f)
           /\ \A f : RankBy(t, x, f) => \A n \in DOMAIN t.nodes : f[n] = RankFrom(t.nodes, W, n, x)
<1> DEFINE N == t.nodes
<1>1. Nest(N, t.root, h, W, {})
  BY DEF Sound, Standing, Tree
<1>2. ASSUME NEW n \in DOMAIN N, NEW f, \A i, c : Child(N, n, i, c) => f[c] = RankFrom(N, W, c, x)
      PROVE  RankStep(N, x, f, n) = RankFrom(N, W, n, x)
  <2>1. CASE N[n].isLeaf
    BY <1>1, <2>1, RankLeaf
  <2>2. CASE ~ N[n].isLeaf
    BY <1>2, <2>2, RankInner
  <2> QED  BY <2>1, <2>2
<1>3. \E f : RankBy(t, x, f)
  <2>1. PICK f : f = [n \in DOMAIN N |-> RankFrom(N, W, n, x)]
    OBVIOUS
  <2>2. \A n \in DOMAIN N : \A i, c : Child(N, n, i, c) => f[c] = RankFrom(N, W, c, x)
    BY <1>1, <2>1 DEF Child, Nest, Ranked
  <2>3. \A n \in DOMAIN N : f[n] = RankStep(N, x, f, n)
    BY <1>2, <2>1, <2>2
  <2>4. f = [n \in DOMAIN N |-> RankStep(N, x, f, n)]
    BY <2>1, <2>3
  <2> QED  BY <2>4 DEF RankBy
<1>4. ASSUME NEW f, RankBy(t, x, f) PROVE \A n \in DOMAIN N : f[n] = RankFrom(N, W, n, x)
  <2> DEFINE S == {n \in DOMAIN N : f[n] = RankFrom(N, W, n, x)}
  <2>1. \A n \in DOMAIN N : f[n] = RankStep(N, x, f, n)
    BY <1>4 DEF RankBy
  <2>2. ASSUME NEW n \in DOMAIN N, \A i, c : Child(N, n, i, c) => c \in S PROVE n \in S
    BY <1>2, <2>1, <2>2
  <2>3. \A n \in DOMAIN N : n \in S
    <3> HIDE DEF S
    <3> QED  BY <1>1, <2>2, ByHeight
  <2> QED  BY <2>3
<1> QED  BY <1>3, <1>4

-----------------------------------------------------------------------------
(* What the tree answers                                                     *)

\* The member table of a tree, with items in place of scores.
TableOf(t) == [members |-> [m \in DOMAIN t.members |-> Item(m, t.members[m])], length |-> t.length]

\* The chain of leaves lists what the table says.
LEMMA TreeList ==
    ASSUME NEW t, TreeOK(t)
    PROVE  ListOf(TableOf(t), ChainItems(t)) /\ ScoresOf(TableOf(t)) = t.members
<1>1. PICK h, W, L : Sound(t, h, W, L)
  BY DEF TreeOK
<1>2. PICK N : N = t.nodes
  OBVIOUS
<1>3. PICK list : list = ChainItems(t)
  OBVIOUS
<1>4. Sorted(list) /\ Nodes(list) = Everything(N)
  BY <1>1, <1>2, <1>3, ChainItemsAre DEF Sound, Standing
<1>5. Kept(N, t.members, t.length)
  BY <1>1, <1>2 DEF Sound, Standing
<1>6. PICK s : s = TableOf(t)
  OBVIOUS
<1>7. /\ s.members = [m \in DOMAIN t.members |-> Item(m, t.members[m])] /\ s.length = t.length
      /\ DOMAIN s.members = DOMAIN t.members
      /\ \A m \in DOMAIN t.members : s.members[m] = Item(m, t.members[m])
  BY <1>6 DEF TableOf
<1>8. \A m \in DOMAIN t.members : s.members[m].member = m /\ s.members[m].score = t.members[m]
  BY <1>7 DEF Item
<1>9. Table(s, list)
  <2>1. s.members = [m \in DOMAIN s.members |-> s.members[m]]
    BY <1>7
  <2>2. \A m \in DOMAIN s.members : s.members[m] \in Nodes(list) /\ s.members[m].member = m
    <3>1. /\ \A m \in DOMAIN t.members : Holds(N, Item(m, t.members[m]))
          /\ \A y : y \in Everything(N) <=> Holds(N, y)
      BY <1>5, KeptItems
    <3> QED  BY <1>4, <1>7, <1>8, <3>1
  <2>3. \A x \in Nodes(list) : x.member \in DOMAIN s.members /\ s.members[x.member] = x
    <3> TAKE x \in Nodes(list)
    <3>1. x \in AnyItem /\ x.member \in DOMAIN t.members /\ t.members[x.member] = x.score
      BY <1>4, <1>5, KeptItems
    <3>2. Item(x.member, x.score) = x
      BY <3>1 DEF Item, AnyItem
    <3> QED  BY <1>7, <3>1, <3>2
  <2>4. s.length = Len(list)
    <3>1. Cardinality(Nodes(list)) = Len(list)
      BY <1>4, ListSize
    <3> QED  BY <1>4, <1>5, <1>7, <3>1 DEF Kept
  <2> QED  BY <2>1, <2>2, <2>3, <2>4 DEF Table
<1>10. ScoresOf(s) = t.members
  <2>1. \A m \in DOMAIN t.members : slScore(s, m) = t.members[m]
    BY <1>8 DEF slScore
  <2>2. ScoresOf(s) = [m \in DOMAIN t.members |-> t.members[m]]
    BY <1>7, <2>1 DEF ScoresOf
  <2> QED  BY <1>5, <2>2 DEF Kept
<1> QED  BY <1>3, <1>4, <1>6, <1>9, <1>10 DEF ListOf

\* A rank is the place in the chain (b_tree_plus.go:84-107).
LEMMA BRankIs ==
    ASSUME NEW t, TreeOK(t), NEW m
    PROVE  bRank(t, m) = IF m \in DOMAIN t.members THEN Rank(t.members, m) ELSE NoRank
<1>1. PICK h, W, L : Sound(t, h, W, L)
  BY DEF TreeOK
<1>2. PICK N : N = t.nodes
  OBVIOUS
<1>3. PICK list, s : list = ChainItems(t) /\ s = TableOf(t)
  OBVIOUS
<1>4. ListOf(s, list) /\ ScoresOf(s) = t.members
  BY <1>3, TreeList
<1>5. Sorted(list) /\ Nodes(list) = Everything(N)
  BY <1>1, <1>2, <1>3, ChainItemsAre DEF Sound, Standing
<1>6. Kept(N, t.members, t.length) /\ Nest(N, t.root, h, W, {})
  BY <1>1, <1>2 DEF Sound, Standing, Tree
<1>7. PICK x : x = Item(m, t.members[m])
  OBVIOUS
<1>8. CASE m \in DOMAIN t.members
  <2>1. x \in AnyItem /\ x.member = m /\ x \in Nodes(list)
    <3>1. x \in AnyItem /\ x.member = m
      BY <1>6, <1>7, <1>8, Items DEF Kept
    <3> QED  BY <1>5, <1>6, <1>7, <1>8, <3>1, KeptItems
  <2>2. PICK f : RankBy(t, x, f) /\ bRank(t, m) = f[t.root]
    <3>1. \E f : RankBy(t, x, f)
      BY <1>1, <2>1, RanksAre
    <3> QED  BY <1>7, <1>8, <3>1, BRankBy
  <2>3. bRank(t, m) = RankFrom(N, W, t.root, x)
    <3>1. t.root \in DOMAIN N
      BY <1>6 DEF Nest, Rooted
    <3> QED  BY <1>1, <1>2, <2>1, <2>2, <3>1, RanksAre
  <2>4. Held(N, W, t.root) = Nodes(list)
    BY <1>5, <1>6, HeldRoot
  <2>5. PICK p \in Nat : /\ p + 1 \in 1 .. Len(list) /\ list[p + 1] = x
                         /\ Cardinality({y \in Nodes(list) : less(y, x)}) = p
    BY <1>5, <2>1, BelowInList
  <2>6. bRank(t, m) = p
    BY <2>1, <2>3, <2>4, <2>5 DEF RankFrom, Beneath
  <2>7. PICK i \in 1 .. Len(list) : i = p + 1
    BY <2>5
  <2>8. Rank(t.members, m) = i - 1
    BY <1>4, <2>1, <2>5, <2>7, RankIs
  <2>9. i - 1 = p
    BY <2>5, <2>7, SMT
  <2> QED  BY <1>8, <2>6, <2>8, <2>9
<1>9. CASE m \notin DOMAIN t.members
  BY <1>9 DEF bRank, bIsMember
<1> QED  BY <1>8, <1>9

\* The items along the chain are the sorted list of the table.
LEMMA TreeShows ==
    ASSUME kind = "bplustree", TreeOK(index)
    PROVE  \E s, list : Shows(s, list)
<1>1. PICK list, s : list = ChainItems(index) /\ s = TableOf(index)
  OBVIOUS
<1>2. ListOf(s, list) /\ ScoresOf(s) = index.members
  BY <1>1, TreeList
<1>3. Listed = list /\ index.length = Len(list)
  BY <1>1, <1>2 DEF Listed, ListOf, Table, TableOf
<1>4. [m \in DOMAIN index.members |-> getMemberScore(m)] = ScoresOf(s)
  <2>1. ScoresOf(s) = [m \in DOMAIN ScoresOf(s) |-> ScoresOf(s)[m]]
    BY DEF ScoresOf
  <2>2. \A m : getMemberScore(m) = index.members[m]
    BY DEF getMemberScore
  <2> QED  BY <1>2, <2>1, <2>2
<1>5. \A m : getRank(m) = IF m \in DOMAIN ScoresOf(s) THEN Rank(ScoresOf(s), m) ELSE NoRank
  <2> TAKE m
  <2>1. getRank(m) = bRank(index, m)
    BY DEF getRank
  <2> QED  BY <1>2, <2>1, BRankIs
<1>6. ASSUME NEW start \in Int, NEW stop \in Int
      PROVE  getRange(start, stop) = Chosen(list, index.length, start, stop)
  <2>1. getRange(start, stop) = bRange(index, start, stop)
    BY DEF getRange
  <2>2. bRange(index, start, stop) = Chosen(ChainItems(index), index.length, start, stop)
    BY Zenon DEF bRange, Chosen
  <2> QED  BY <1>1, <2>1, <2>2
<1> QED  BY <1>2, <1>3, <1>4, <1>5, <1>6 DEF Shows

-----------------------------------------------------------------------------
(* Either kind                                                               *)

\* An index x of kind k is sound, and what its lists and its table then say.
Consistent(k, x) == \/ k = "skiplist" /\ SkipOK(x)
                    \/ k = "bplustree" /\ TreeOK(x)
\* The list that an index of kind k shows, and the map of scores it keeps.
ListIn(k, x) == IF k = "skiplist" THEN Chain(x, 1) ELSE ChainItems(x)
MapOf(k, x) == IF k = "skiplist" THEN ScoresOf(x) ELSE x.members

\* The list of an index has the scores of its map.
LEMMA ListedMap ==
    ASSUME NEW k, NEW x, Consistent(k, x)
    PROVE  ScoresIn(ListIn(k, x)) = MapOf(k, x)
<1>1. CASE k = "skiplist" /\ SkipOK(x)
  <2>1. PICK list : ListOf(x, list) /\ Chain(x, 1) = list
    BY <1>1, LowestList
  <2>2. ScoresIn(list) = ScoresOf(x)
    BY <2>1, ScoresListed
  <2> QED  BY <1>1, <2>1, <2>2 DEF ListIn, MapOf
<1>2. CASE k = "bplustree" /\ TreeOK(x)
  <2>1. ListOf(TableOf(x), ChainItems(x)) /\ ScoresOf(TableOf(x)) = x.members
    BY <1>2, TreeList
  <2>2. ScoresIn(ChainItems(x)) = x.members
    BY <2>1, ScoresListed
  <2> QED  BY <1>2, <2>2 DEF ListIn, MapOf
<1> QED  BY <1>1, <1>2 DEF Consistent

\* A step keeps the index sound and is one of the map, or none.
LEMMA IndexSteps ==
    ASSUME Consistent(kind, index), [Next]_vars
    PROVE  /\ Consistent(kind', index')
           /\ \/ MapOf(kind', index') = MapOf(kind, index)
              \/ \E m \in Members : MapOf(kind', index') = Unscored(MapOf(kind, index), m)
              \/ \E m \in Members : \E score \in Scores[m] :
                    MapOf(kind', index') = Scored(MapOf(kind, index), m, score)
<1>1. CASE kind = "skiplist" /\ SkipOK(index)
  <2>1. /\ kind' = "skiplist" /\ SkipOK(index')
        /\ \/ index'.members = index.members
           \/ \E m \in Members : index'.members = Unscored(index.members, m)
           \/ \E m \in Members : \E score \in Scores[m] :
                 index'.members = Scored(index.members, m, Item(m, score))
    BY <1>1, SkipSteps
  <2>2. \/ ScoresOf(index') = ScoresOf(index)
        \/ \E m \in Members : ScoresOf(index') = Unscored(ScoresOf(index), m)
        \/ \E m \in Members : \E score \in Scores[m] :
              ScoresOf(index') = Scored(ScoresOf(index), m, score)
    <3>1. CASE index'.members = index.members
      BY <3>1, ScoresAfter
    <3>2. ASSUME NEW m \in Members, index'.members = Unscored(index.members, m)
          PROVE  ScoresOf(index') = Unscored(ScoresOf(index), m)
      BY <3>2, ScoresAfter
    <3>3. ASSUME NEW m \in Members, NEW score \in Scores[m],
                 index'.members = Scored(index.members, m, Item(m, score))
          PROVE  ScoresOf(index') = Scored(ScoresOf(index), m, score)
      BY <3>3, ScoresAfter
    <3> QED  BY <2>1, <3>1, <3>2, <3>3
  <2>3. MapOf(kind, index) = ScoresOf(index) /\ MapOf(kind', index') = ScoresOf(index')
    BY <1>1, <2>1 DEF MapOf
  <2> QED  BY <2>1, <2>2, <2>3 DEF Consistent
<1>2. CASE kind = "bplustree" /\ TreeOK(index)
  <2>1. /\ kind' = "bplustree" /\ TreeOK(index')
        /\ \/ index'.members = index.members
           \/ \E m \in Members : index'.members = Unscored(index.members, m)
           \/ \E m \in Members : \E score \in Scores[m] :
                 index'.members = Scored(index.members, m, score)
    BY <1>2, TreeSteps
  <2> QED  BY <1>2, <2>1 DEF Consistent, MapOf
<1> QED  BY <1>1, <1>2 DEF Consistent

\* A sorted set is its map of scores under any calls, whichever index it keeps: the
\* list that ranges are read from loses, doubles and leaves behind no member
\* (skip_list.go:26-74, b_tree_plus.go:57-183).
THEOREM IndexIsScoreMap == Spec => ImplementsScoreMap
<1>0. /\ ListedScores = ScoresIn(ListIn(kind, index))
      /\ ListedScores' = ScoresIn(ListIn(kind', index'))
  BY DEF ListedScores, ScoresIn, Listed, ListIn
<1>1. Init => Consistent(kind, index) /\ Abstract!Init
  <2> SUFFICES ASSUME Init PROVE Consistent(kind, index) /\ Abstract!Init
    OBVIOUS
  <2>1. Consistent(kind, index) /\ index.members = <<>>
    <3>1. kind \in {"skiplist", "bplustree"} /\ index = IF kind = "skiplist" THEN NewSkipList ELSE NewBPlusTree
      BY DEF Init
    <3>2. CASE kind = "skiplist"
      BY <3>1, <3>2, NewSkip DEF Consistent, NoScores
    <3>3. CASE kind = "bplustree"
      BY <3>1, <3>3, NewTree DEF Consistent, NoScores
    <3> QED  BY <3>1, <3>2, <3>3
  <2>2. ScoresOf(index) = <<>>
    BY <2>1 DEF ScoresOf
  <2>3. MapOf(kind, index) = <<>>
    BY <2>1, <2>2 DEF MapOf
  <2>4. ListedScores = <<>>
    BY <1>0, <2>1, <2>3, ListedMap
  <2> QED  BY <2>1, <2>4 DEF Abstract!Init, Abstract!NoScores
<1>2. Consistent(kind, index) /\ [Next]_vars
         => Consistent(kind, index)' /\ [Abstract!Next]_ListedScores
  <2> SUFFICES ASSUME Consistent(kind, index), [Next]_vars
               PROVE  Consistent(kind', index') /\ [Abstract!Next]_ListedScores
    OBVIOUS
  <2>1. Consistent(kind', index')
    BY IndexSteps
  <2>2. ListedScores = MapOf(kind, index) /\ ListedScores' = MapOf(kind', index')
    BY <1>0, <2>1, ListedMap
  <2>3. \/ ListedScores' = ListedScores
        \/ \E m \in Members : ListedScores' = Unscored(ListedScores, m)
        \/ \E m \in Members : \E score \in Scores[m] : ListedScores' = Scored(ListedScores, m, score)
    BY <2>2, IndexSteps
  <2>4. ASSUME NEW m \in Members, ListedScores' = Unscored(ListedScores, m)
        PROVE  Abstract!Next
    <3>1. Abstract!Remove(m)
      BY <2>4 DEF Abstract!Remove, Abstract!Unscored, Unscored
    <3> QED  BY <3>1 DEF Abstract!Next
  <2>5. ASSUME NEW m \in Members, NEW score \in Scores[m], ListedScores' = Scored(ListedScores, m, score)
        PROVE  Abstract!Next
    <3>1. Abstract!Put(m, score)
      BY <2>5 DEF Abstract!Put, Abstract!Scored, Scored
    <3> QED  BY <3>1 DEF Abstract!Next
  <2> QED  BY <2>1, <2>3, <2>4, <2>5
<1> QED  BY <1>1, <1>2, PTL DEF Spec, ImplementsScoreMap, Abstract!Spec

\* Either index answers rank and range as the sorted scores do, for any start and
\* stop, and its list, its table and its length agree (skip_list.go:84-130,
\* b_tree_plus.go:238-306).
THEOREM IndexAnswers == Spec => []QueriesAgree
<1>1. IInv /\ TInv => QueriesAgree
  <2> SUFFICES ASSUME IInv, TInv PROVE QueriesAgree
    OBVIOUS
  <2>1. PICK s, list : Shows(s, list)
    BY SkipShows, TreeShows DEF IInv, TInv
  <2> QED  BY <2>1, ShownAgrees
<1> QED  BY <1>1, Invariant, TreeInvariant, PTL
=============================================================================
