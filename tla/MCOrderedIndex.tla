--------------------------- MODULE MCOrderedIndex ---------------------------
(* Six members make a B+ tree of order 3 with three inner nodes under its    *)
(* root; every other one has two scores to change between.                   *)
EXTENDS OrderedIndex

MCScores == [m \in Members |-> IF m \in {1, 3, 5} THEN {1, 2} ELSE {1}]

\* The addresses of a tree do not matter: TLC takes two trees for one when they are
\* the same once their nodes are numbered in the order of the tree.
Renumbered(t) ==
    LET under[n \in DOMAIN t.nodes] ==
            <<n>> \o Seqs!FlattenSeq([i \in DOMAIN t.nodes[n].children |->
                                    under[t.nodes[n].children[i]]])
        order == under[t.root]
        number == [n \in Seqs!ToSet(order) |-> CHOOSE i \in DOMAIN order : order[i] = n]
        to(n) == IF n = NoNode THEN NoNode ELSE number[n]
        moved(node) == [node EXCEPT !.next = to(@), !.prev = to(@),
                                    !.children = [i \in DOMAIN @ |-> number[@[i]]]]
    IN [t EXCEPT !.nodes = [i \in DOMAIN order |-> moved(@[order[i]])],
                 !.root = 1, !.leafHead = to(@)]

View == <<kind, IF kind = "bplustree" THEN Renumbered(index) ELSE index>>
=============================================================================
