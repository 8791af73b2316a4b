\* Two keys and room for two sketches of four counters, for one of eight, not
\* for one of nine.
SPECIFICATION Spec
CONSTANTS
    Ka = Ka
    Kb = Kb
    NotANumber = NotANumber
    Absent = Absent
    Keys = {Ka, Kb}
    KeyLen <- MCKeyLen
    Strings <- MCStrings
    StrLen <- MCStrLen
    MaxInt = 0
    ParseInt <- MCParseInt
    FormatInt <- MCFormatInt
    Members = {1, 2}
    MemberLen <- MCMemberLen
    SampleSize = 5
    MaxEntries = 0
    MaxMemory = 66
    Items = {"x", "y"}
    MaxRow = 3
    Hash <- MCHashOf
    MaxUint = 4
    Policies = {"lru", "random"}
    Dims <- MCDims
    Increments <- MCIncrements
    Sources <- MCSources
    Sizes <- MCSizes
    DefaultSize <- MCDefaultSize
    ItemLists <- MCItemLists
    ScoreLists <- MCScoreLists
    Text = "0"
    MaxOps = 6
INVARIANTS MemoryExact PolicyTracksData WithinCapacity NeverUnderestimates RowsSumToCount NoFalseNegative NoEmptySortedSet
CHECK_DEADLOCK FALSE
