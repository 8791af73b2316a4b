---------------------------- MODULE OrderedIndex ----------------------------
(***************************************************************************)
(* A sortedSetIndex of either kind under any sequence of its calls, and     *)
(* what makes it one: it implements ScoreMap, answers rank and range as the *)
(* sorted scores do, and its pointers and separators are what the searches  *)
(* rely on.                                                                 *)
(***************************************************************************)
EXTENDS SkipList, BPlusTree

CONSTANTS
    Members,
    Scores    \* the scores each member may be given

ASSUME OrderedIndexAssumption == Members \subseteq Int /\ Scores \in [Members -> SUBSET Int]

VARIABLES
    kind,    \* which implementation NewSortedSet was asked for
    index    \* its value

vars == <<kind, index>>

Init == /\ kind \in {"skiplist", "bplustree"}
        /\ index = IF kind = "skiplist" THEN NewSkipList ELSE NewBPlusTree

Add(m, s) ==
    /\ \/ kind = "skiplist" /\ \E h \in Levels : index' = slAdd(index, m, s, h)
       \/ kind = "bplustree" /\ index' = bAdd(index, m, s)
    /\ UNCHANGED kind

Update(m, s) ==
    /\ \/ kind = "skiplist" /\ \E h \in Levels : index' = slUpdate(index, m, s, h)
       \/ kind = "bplustree" /\ index' = bUpdate(index, m, s)
    /\ UNCHANGED kind

Remove(m) ==
    /\ index' = IF kind = "skiplist" THEN slRemove(index, m) ELSE bRemove(index, m)
    /\ UNCHANGED kind

Next == \E m \in Members :
            \/ \E s \in Scores[m] : Add(m, s) \/ Update(m, s)
            \/ Remove(m)

Spec == Init /\ [][Next]_vars

-----------------------------------------------------------------------------
(* The abstract value and the queries of either kind                         *)

getMemberScore(m) == IF kind = "skiplist" THEN slScore(index, m) ELSE index.members[m]
getRank(m) == IF kind = "skiplist" THEN slRank(index, m) ELSE bRank(index, m)
getRange(start, stop) == IF kind = "skiplist" THEN slRange(index, start, stop)
                                              ELSE bRange(index, start, stop)

\* The items the lists of the index really hold, in their order.
Listed == IF kind = "skiplist" THEN Chain(index, 1) ELSE ChainItems(index)

ListedScores ==
    LET list == Listed
        place(m) == CHOOSE i \in DOMAIN list : list[i].member = m
    IN [m \in {list[i].member : i \in DOMAIN list} |-> list[place(m)].score]

-----------------------------------------------------------------------------
(* Properties                                                                *)

\* The list that ranges are read from holds what a map of scores would, and
\* every call answers as that map does: no member is lost, doubled or left
\* under an old score by a split, a dropped node or a changed score.
Abstract == INSTANCE ScoreMap WITH scores <- ListedScores
ImplementsScoreMap == Abstract!Spec

\* The list holds what the member table says, each member once. getRank agrees
\* with that order, and getRange gives the members whose rank, counted from the
\* front or from the end as start and stop are, lies between them.
QueriesAgree ==
    LET scores == [m \in DOMAIN index.members |-> getMemberScore(m)]
        ascending == Ascending(scores)
        n == Len(ascending)
        Counted(r, bound) == IF bound < 0 THEN r - n ELSE r
        Between(start, stop) ==
            {r \in 0 .. n - 1 : Counted(r, start) >= start /\ Counted(r, stop) <= stop}
    IN /\ index.length = n /\ Len(Listed) = n /\ ListedScores = scores
       /\ \A m \in Members :
             getRank(m) = IF m \in DOMAIN scores THEN Rank(scores, m) ELSE NoRank
       /\ \A start \in {-n - 1, -2, 0, 1}, stop \in {-n - 1, -1, n - 2, n} :
             LET ranks == Between(start, stop)
                 range == getRange(start, stop)
             IN /\ Len(range) = Cardinality(ranks)
                /\ \A r \in ranks : range[r - Min(ranks) + 1] = ascending[r + 1]

\* A level of the skip list is sorted and leaves out some nodes of the level
\* below, never has one of its own.
LevelsNested ==
    kind = "skiplist" => \A level \in Levels :
        LET chain == Chain(index, level) IN
        /\ \A i \in 1 .. Len(chain) - 1 : less(chain[i], chain[i + 1])
        /\ level > 1 => Seqs!ToSet(chain) \subseteq Seqs!ToSet(Chain(index, level - 1))

\* The leaves are chained in the order of the tree, forward from leafHead and
\* back, which deletion relies on when it takes a leaf off the chain.
LeavesChained ==
    kind = "bplustree" =>
        LET leaves == Leaves(index) IN
        /\ LeafChain(index) = leaves
        /\ \A i \in DOMAIN leaves :
              index.nodes[leaves[i]].prev = IF i = 1 THEN NoNode ELSE leaves[i - 1]

\* The separators of an inner node divide what its children hold, every leaf is
\* as deep as any, no node but an empty tree's root is empty and none is over
\* its size.
SeparatorsDivide ==
    kind = "bplustree" =>
        /\ Cardinality(DepthOf(index)) = 1
        /\ \A n \in DOMAIN index.nodes :
              LET node == index.nodes[n]
                  under == ItemsUnder(index)
              IN IF node.isLeaf
                 THEN /\ Len(node.items) < Order
                      /\ node.items = <<>> => index.length = 0
                 ELSE /\ Len(node.children) = Len(node.keys) + 1
                      /\ Len(node.children) <= Order
                      /\ \A i \in DOMAIN node.keys :
                            /\ \A x \in under[node.children[i]] : less(x, node.keys[i])
                            /\ \A x \in under[node.children[i + 1]] : ~ less(x, node.keys[i])
=============================================================================
