------------------------------ MODULE SkipList ------------------------------
(***************************************************************************)
(* skip_list.go: a linked list per level, threaded through the same nodes.  *)
(* A node is identified by its item, for a member has one node at a time.   *)
(* `next` has a node's pointers of all levels; a node that is unlinked is   *)
(* garbage and leaves its domain. A new node's height is any: the code      *)
(* draws a new one before each level it links.                              *)
(***************************************************************************)
EXTENDS ScoreOrder

CONSTANTS
    MaxHeight,  \* maxSkipListHeight
    HeadNode, Nil

ASSUME SkipListAssumption ==
    /\ MaxHeight \in Nat \ {0}
    /\ HeadNode # Nil /\ HeadNode \notin AnyItem /\ Nil \notin AnyItem

Levels == 1 .. MaxHeight

NewSkipList == [next |-> [n \in {HeadNode} |-> [level \in Levels |-> Nil]],
                members |-> NoScores, length |-> 0]

\* The nodes of a level in the order of its list.
Chain(s, level) ==
    LET after[n \in DOMAIN s.next] ==
            IF s.next[n][level] = Nil THEN <<>>
            ELSE <<s.next[n][level]>> \o after[s.next[n][level]]
    IN after[HeadNode]

\* From each node, the last one of the level before an item.
lastBefore(s, item, level) ==
    LET walk[n \in DOMAIN s.next] ==
            LET next == s.next[n][level]
            IN IF next # Nil /\ less(next, item) THEN walk[next] ELSE n
    IN walk

\* The last node of each level before an item: the search goes down a level
\* where it cannot go on.
predecessors(s, item) ==
    LET update[level \in Levels] ==
            lastBefore(s, item, level)[IF level = MaxHeight THEN HeadNode ELSE update[level + 1]]
    IN update

Link(s, node, height) ==
    LET update == predecessors(s, node)
        pointer(n, level) ==
            IF n = node THEN IF level <= height THEN s.next[update[level]][level] ELSE Nil
            ELSE IF level <= height /\ n = update[level] THEN node
            ELSE s.next[n][level]
    IN [next |-> [n \in DOMAIN s.next \union {node} |->
                     [level \in Levels |-> pointer(n, level)]],
        members |-> Scored(s.members, node.member, node),
        length |-> s.length + 1]

Unlink(s, node) ==
    LET update == predecessors(s, node)
        pointer(n, level) ==
            IF n = update[level] /\ s.next[n][level] = node THEN s.next[node][level]
            ELSE s.next[n][level]
    IN [next |-> [n \in DOMAIN s.next \ {node} |->
                     [level \in Levels |-> pointer(n, level)]],
        members |-> Unscored(s.members, node.member),
        length |-> s.length - 1]

slIsMember(s, m) == m \in DOMAIN s.members
slScore(s, m) == s.members[m].score

slRemove(s, m) == IF slIsMember(s, m) THEN Unlink(s, s.members[m]) ELSE s

\* Faulty: the score is changed in the node, which stays where it is.
slUpdateInPlace(s, m, score, height) ==
    IF ~ slIsMember(s, m) THEN s
    ELSE LET old == s.members[m]
             now(n) == IF n = old THEN Item(m, score) ELSE n
         IN [s EXCEPT !.members[m].score = score,
                      !.next = [n \in {now(x) : x \in DOMAIN s.next} |->
                          LET was == IF n = now(old) THEN old ELSE n
                          IN [level \in Levels |-> now(s.next[was][level])]]]

slUpdate(s, m, score, height) ==
    IF ~ slIsMember(s, m) \/ slScore(s, m) = score THEN s
    ELSE Link(slRemove(s, m), Item(m, score), height)

slAdd(s, m, score, height) ==
    IF slIsMember(s, m) THEN slUpdate(s, m, score, height)
    ELSE Link(s, Item(m, score), height)

slRank(s, m) ==
    LET nodes == Chain(s, 1)
        found == {i \in DOMAIN nodes : nodes[i].member = m}
    IN IF found = {} THEN NoRank ELSE (CHOOSE i \in found : \A j \in found : i <= j) - 1

slRange(s, start, stop) ==
    LET nodes == Chain(s, 1)
        r == Selected(start, stop, s.length)
    IN [i \in 1 .. r.last - r.first + 1 |-> nodes[r.first + i].member]
=============================================================================
