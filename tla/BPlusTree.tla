------------------------------ MODULE BPlusTree ------------------------------
(***************************************************************************)
(* b_tree_plus.go. `nodes` is the heap: nodes by address, as the pointers   *)
(* between leaves make the tree no tree of values. A new node gets the      *)
(* lowest free address; a node off the tree is garbage and leaves the heap. *)
(* Positions count from 1.                                                  *)
(***************************************************************************)
EXTENDS ScoreOrder, FiniteSetsExt

Seqs == INSTANCE SequencesExt

CONSTANTS
    Order,     \* NewBPlusTreeWithOrder: a leaf is split at Order items
    NoNode     \* the nil pointer

ASSUME BPlusTreeAssumption == Order \in Nat /\ Order >= 3 /\ NoNode \notin Nat

Leaf(items, next, prev) ==
    [isLeaf |-> TRUE, items |-> items, keys |-> <<>>, children |-> <<>>,
     count |-> Len(items), next |-> next, prev |-> prev]
Inner(keys, children) ==
    [isLeaf |-> FALSE, items |-> <<>>, keys |-> keys, children |-> children,
     count |-> 0, next |-> NoNode, prev |-> NoNode]

NewBPlusTree == [nodes |-> [n \in {1} |-> Leaf(<<>>, NoNode, NoNode)],
                 root |-> 1, leafHead |-> 1, members |-> NoScores, length |-> 0]

Fresh(t) == Min((1 .. Cardinality(DOMAIN t.nodes) + 1) \ DOMAIN t.nodes)
Allocate(t, n, node) == [t EXCEPT !.nodes = [x \in DOMAIN @ \union {n} |->
                                                IF x = n THEN node ELSE @[x]]]

\* sort.Search: the first position of a sorted sequence at which P holds.
Search(seq, P(_)) == Min({i \in DOMAIN seq : P(seq[i])} \union {Len(seq) + 1})

\* The place of an item in a leaf, and of the child that holds it.
Place(items, item) == Search(items, LAMBDA x : ~ less(x, item))
Branch(keys, item) == Search(keys, LAMBDA key : less(item, key))

-----------------------------------------------------------------------------
(* Insertion. A step of it returns the tree, and after a split the key it    *)
(* promotes and the new right sibling.                                       *)

Unsplit(t) == [tree |-> t, split |-> FALSE]
Split(t, key, right) == [tree |-> t, split |-> TRUE, promoted |-> key, child |-> right]

\* Leaf n keeps its first items, a new leaf after it gets those from i on.
Halves(t, n, i) ==
    LET node == t.nodes[n] IN
    [Allocate(t, Fresh(t), Leaf(SubSeq(node.items, i, Len(node.items)), node.next, n))
     EXCEPT !.nodes[n].items = SubSeq(@, 1, Len(@) \div 2), !.nodes[n].next = Fresh(t)]

PointBack(t, n, to) == IF n = NoNode THEN t ELSE [t EXCEPT !.nodes[n].prev = to]

\* Faulty forms of the next definition: the promoted item leaves the leaves; the
\* right neighbour still points back at the left half.
SplitLeafPromoting(t, n) ==
    LET node == t.nodes[n]
        mid == Len(node.items) \div 2
    IN Split(PointBack(Halves(t, n, mid + 2), node.next, Fresh(t)),
             node.items[mid + 1], Fresh(t))
SplitLeafHalfLinked(t, n) ==
    LET node == t.nodes[n]
        mid == Len(node.items) \div 2
    IN Split(Halves(t, n, mid + 1), node.items[mid + 1], Fresh(t))

SplitLeaf(t, n) ==
    LET node == t.nodes[n]
        mid == Len(node.items) \div 2
    IN Split(PointBack(Halves(t, n, mid + 1), node.next, Fresh(t)),
             node.items[mid + 1], Fresh(t))

\* Inner node n is cut after child i; the right half gets the keys from j on.
CutInner(t, n, i, j) ==
    LET node == t.nodes[n] IN
    [Allocate(t, Fresh(t), Inner(SubSeq(node.keys, j, Len(node.keys)),
                                 SubSeq(node.children, i + 1, Len(node.children))))
     EXCEPT !.nodes[n].keys = SubSeq(@, 1, i - 1), !.nodes[n].children = SubSeq(@, 1, i)]

\* Faulty: the promoted key is kept in the right half too, as in a leaf.
SplitInnerLikeLeaf(t, n) ==
    LET i == (Len(t.nodes[n].keys) \div 2) + 1
    IN Split(CutInner(t, n, i, i), t.nodes[n].keys[i], Fresh(t))

SplitInner(t, n) ==
    LET i == (Len(t.nodes[n].keys) \div 2) + 1
    IN Split(CutInner(t, n, i, i + 1), t.nodes[n].keys[i], Fresh(t))

insertInternal(t, item) ==
    LET insert[n \in DOMAIN t.nodes] ==
            LET node == t.nodes[n] IN
            IF node.isLeaf
            THEN LET s == [t EXCEPT !.nodes[n].items = Seqs!InsertAt(@, Place(@, item), item)]
                 IN IF Len(s.nodes[n].items) >= Order THEN SplitLeaf(s, n) ELSE Unsplit(s)
            ELSE LET i == Branch(node.keys, item)
                     below == insert[node.children[i]]
                     s == [below.tree EXCEPT
                              !.nodes[n].keys = Seqs!InsertAt(@, i, below.promoted),
                              !.nodes[n].children = Seqs!InsertAt(@, i + 1, below.child)]
                 IN IF ~ below.split THEN below
                    ELSE IF Len(s.nodes[n].children) > Order THEN SplitInner(s, n)
                    ELSE Unsplit(s)
    IN insert[t.root]

Total(numbers) == MapThenSumSet(LAMBDA i : numbers[i], DOMAIN numbers)

refreshCounts(t) ==
    LET count[n \in DOMAIN t.nodes] ==
            LET node == t.nodes[n] IN
            IF node.isLeaf THEN Len(node.items)
            ELSE Total([i \in DOMAIN node.children |-> count[node.children[i]]])
    IN [t EXCEPT !.nodes = [n \in DOMAIN @ |-> [@[n] EXCEPT !.count = count[n]]]]

GrowRoot(grown) ==
    LET t == grown.tree
        root == Fresh(t)
    IN IF ~ grown.split THEN t
       ELSE [Allocate(t, root, Inner(<<grown.promoted>>, <<t.root, grown.child>>))
             EXCEPT !.root = root]

\* Faulty: the counts stay as they were.
InsertItemUncounted(t, m, score) ==
    [GrowRoot(insertInternal(t, Item(m, score))) EXCEPT
        !.members = Scored(@, m, score), !.length = @ + 1]

InsertItem(t, m, score) ==
    refreshCounts([GrowRoot(insertInternal(t, Item(m, score))) EXCEPT
                      !.members = Scored(@, m, score), !.length = @ + 1])

-----------------------------------------------------------------------------
(* Deletion. Nodes are never merged: a leaf that is empty and an inner node  *)
(* without children are dropped.                                             *)

Free(t, n) == [t EXCEPT !.nodes = [x \in DOMAIN @ \ {n} |-> @[x]]]

Unchain(t, leaf) ==
    LET left == t.nodes[leaf].prev
        right == t.nodes[leaf].next
        back == IF left = NoNode THEN [t EXCEPT !.leafHead = right]
                ELSE [t EXCEPT !.nodes[left].next = right]
    IN PointBack(back, right, left)

DropChild(t, n, i) ==
    LET node == t.nodes[n] IN
    [t EXCEPT !.nodes[n].children = Seqs!RemoveAt(@, i),
              !.nodes[n].keys = IF i <= Len(@) THEN Seqs!RemoveAt(@, i)
                                ELSE SubSeq(@, 1, Len(@) - 1)]

IsEmpty(node) == IF node.isLeaf THEN node.items = <<>> ELSE node.children = <<>>

deleteItem(t, item) ==
    LET delete[n \in DOMAIN t.nodes] ==
            LET node == t.nodes[n] IN
            IF node.isLeaf
            THEN LET i == Place(node.items, item) IN
                 IF i <= Len(node.items) /\ node.items[i] = item
                 THEN [tree |-> [t EXCEPT !.nodes[n].items = Seqs!RemoveAt(@, i)], removed |-> TRUE]
                 ELSE [tree |-> t, removed |-> FALSE]
            ELSE LET i == Branch(node.keys, item)
                     child == node.children[i]
                     below == delete[child]
                     s == below.tree
                 IN IF ~ below.removed \/ ~ IsEmpty(s.nodes[child]) THEN below
                    ELSE [below EXCEPT !.tree =
                             Free(DropChild(IF s.nodes[child].isLeaf THEN Unchain(s, child) ELSE s,
                                            n, i), child)]
    IN delete[t.root].tree

\* A root with one child gives way to it, again and again: at most once per node.
LowerRoot(t) ==
    LET root == t.nodes[t.root]
    IN IF root.isLeaf \/ Len(root.children) # 1 THEN t
       ELSE Free([t EXCEPT !.root = root.children[1]], t.root)

CollapseRoot(t) ==
    LET lowered[k \in 0 .. Cardinality(DOMAIN t.nodes)] ==
            IF k = 0 THEN t ELSE LowerRoot(lowered[k - 1])
    IN lowered[Cardinality(DOMAIN t.nodes)]

bIsMember(t, m) == m \in DOMAIN t.members

bRemove(t, m) ==
    IF ~ bIsMember(t, m) THEN t
    ELSE LET s == [deleteItem(t, Item(m, t.members[m])) EXCEPT
                      !.members = Unscored(@, m), !.length = @ - 1]
         IN IF s.length = 0 THEN NewBPlusTree ELSE refreshCounts(CollapseRoot(s))

bUpdate(t, m, score) ==
    IF ~ bIsMember(t, m) \/ t.members[m] = score THEN t
    ELSE InsertItem(bRemove(t, m), m, score)

bAdd(t, m, score) ==
    IF bIsMember(t, m) THEN bUpdate(t, m, score) ELSE InsertItem(t, m, score)

-----------------------------------------------------------------------------
(* Queries                                                                   *)

bRank(t, m) ==
    LET item == Item(m, t.members[m])
        rank[n \in DOMAIN t.nodes] ==
            LET node == t.nodes[n] IN
            IF node.isLeaf
            THEN LET i == Place(node.items, item) IN
                 IF i <= Len(node.items) /\ node.items[i] = item THEN i - 1 ELSE NoRank
            ELSE LET i == Branch(node.keys, item)
                     below == rank[node.children[i]]
                 IN IF below = NoRank THEN NoRank
                    ELSE below + Total([j \in 1 .. i - 1 |-> t.nodes[node.children[j]].count])
    IN IF bIsMember(t, m) THEN rank[t.root] ELSE NoRank

\* The leaves from leafHead on.
LeafChain(t) ==
    LET after[n \in DOMAIN t.nodes] ==
            IF t.nodes[n].next = NoNode THEN <<n>> ELSE <<n>> \o after[t.nodes[n].next]
    IN after[t.leafHead]

ChainItems(t) ==
    LET from[n \in DOMAIN t.nodes] ==
            LET leaf == t.nodes[n]
            IN leaf.items \o IF leaf.next = NoNode THEN <<>> ELSE from[leaf.next]
    IN from[t.leafHead]

bRange(t, start, stop) ==
    LET items == ChainItems(t)
        r == Selected(start, stop, t.length)
    IN [i \in 1 .. r.last - r.first + 1 |-> items[r.first + i].member]

-----------------------------------------------------------------------------
(* Views of the tree that its properties are about                           *)

\* The leaves in the order of the tree, and the nodes under n.
Leaves(t) ==
    LET under[n \in DOMAIN t.nodes] ==
            IF t.nodes[n].isLeaf THEN <<n>>
            ELSE Seqs!FlattenSeq([i \in DOMAIN t.nodes[n].children |-> under[t.nodes[n].children[i]]])
    IN under[t.root]

ItemsUnder(t) ==
    LET under[n \in DOMAIN t.nodes] ==
            LET node == t.nodes[n] IN
            IF node.isLeaf THEN Seqs!ToSet(node.items)
            ELSE UNION {under[node.children[i]] : i \in DOMAIN node.children}
    IN under

DepthOf(t) ==
    LET depth[n \in DOMAIN t.nodes] ==
            LET node == t.nodes[n] IN
            IF node.isLeaf THEN {0}
            ELSE {d + 1 : d \in UNION {depth[node.children[i]] : i \in DOMAIN node.children}}
    IN depth[t.root]
=============================================================================
