\* Progress: calls end, expired records go.
SPECIFICATION FairSpec
CONSTANTS
    Ka = Ka
    Kb = Kb
    NotANumber = NotANumber
    Absent = Absent
    Sweeper = sweeper
    NoProc = NoProc
    NoKey = NoKey
    Keys = {Ka, Kb}
    KeyLen <- MCKeyLen
    Strings <- MCStrings
    StrLen <- MCStrLen
    MaxInt = 0
    ParseInt <- MCParseInt
    FormatInt <- MCFormatInt
    Members = {}
    MemberLen <- MCNoLens
    Policies = {"lru"}
    SampleSize = 5
    Clients = {c1, c2}
    MaxEntries = 1
    MaxMemory = 0
    TTLs <- MCTTLsOne
    KeyLists <- MCKeyLists
    TimeUnit = 1
    Commands = {"SET", "GET", "EXPIRE", "TTL"}
    MaxOps = 3
    MaxTime = 2
PROPERTIES CallsComplete ExpiredRemoved
