\* Six members, some of them with two scores, nodes of three children.
SPECIFICATION Spec
VIEW View
CONSTANTS
    Members = {1, 2, 3, 4, 5, 6}
    Scores <- MCScores
    MaxHeight = 2
    HeadNode = HeadNode
    Nil = Nil
    Order = 3
    NoNode = NoNode
INVARIANTS QueriesAgree LevelsNested LeavesChained SeparatorsDivide
PROPERTIES ImplementsScoreMap
CHECK_DEADLOCK FALSE
