------------------------------ MODULE ScoreMap ------------------------------
(***************************************************************************)
(* What an ordered index promises: it is a map of members to scores.        *)
(***************************************************************************)
EXTENDS ScoreOrder

CONSTANTS Members, Scores

VARIABLE scores

Init == scores = NoScores

\* add, and update of a member that is there.
Put(m, s) == scores' = Scored(scores, m, s)

Remove(m) == scores' = Unscored(scores, m)

Next == \E m \in Members : (\E s \in Scores[m] : Put(m, s)) \/ Remove(m)

Spec == Init /\ [][Next]_scores
=============================================================================
