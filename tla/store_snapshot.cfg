\* Stats reads its counters after it released the lock.
SPECIFICATION Spec
CONSTANTS
    Ka = Ka
    Kb = Kb
    NotANumber = NotANumber
    Absent = Absent
    Sweeper = sweeper
    NoProc = NoProc
    NoKey = NoKey
    Keys = {Ka}
    KeyLen <- MCKeyLenOne
    Strings <- MCStrings
    StrLen <- MCStrLen
    MaxInt = 0
    ParseInt <- MCParseInt
    FormatInt <- MCFormatInt
    Members = {}
    MemberLen <- MCNoLens
    Policies = {"none"}
    SampleSize = 5
    Clients = {c1, c2}
    MaxEntries = 0
    MaxMemory = 0
    TTLs <- MCTTLsShort
    KeyLists <- MCKeyListsOne
    TimeUnit = 1
    Commands = {"SET", "STATS"}
    MaxOps = 2
    MaxTime = 0
INVARIANTS StatsIsSnapshot
