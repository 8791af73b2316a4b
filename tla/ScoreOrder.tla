----------------------------- MODULE ScoreOrder -----------------------------
(***************************************************************************)
(* A map of members to scores and the order both ordered indexes keep its   *)
(* entries in: by score, then by member. Members and scores are integers of *)
(* which only the order matters.                                            *)
(***************************************************************************)
EXTENDS Integers, FiniteSets, Sequences

Item(member, score) == [member |-> member, score |-> score]
AnyItem == [member : Int, score : Int]

less(a, b) == a.score < b.score \/ (a.score = b.score /\ a.member < b.member)

NoScores == <<>>

Scored(scores, m, s) ==
    [x \in DOMAIN scores \union {m} |-> IF x = m THEN s ELSE scores[x]]

Unscored(scores, m) == [x \in DOMAIN scores \ {m} |-> scores[x]]

\* How many entries come before m: its rank.
Rank(scores, m) ==
    Cardinality({x \in DOMAIN scores : less(Item(x, scores[x]), Item(m, scores[m]))})

\* The members in order.
Ascending(scores) ==
    [i \in 1 .. Cardinality(DOMAIN scores) |->
        CHOOSE m \in DOMAIN scores : Rank(scores, m) = i - 1]

\* The answer of getRank for a member that is not there.
NoRank == -1

\* The entries first..last (from zero) that start and stop select out of n:
\* negative numbers count from the end, what is out of range is cut off, and
\* first > last when nothing is left.
Selected(start, stop, n) ==
    LET fromEnd(i) == IF i < 0 THEN i + n ELSE i
        first == IF fromEnd(start) < 0 THEN 0 ELSE fromEnd(start)
        last  == IF fromEnd(stop) >= n THEN n - 1 ELSE fromEnd(stop)
    IN [first |-> first, last |-> last]
=============================================================================
