\* One key, no limits: every command against the map the callers see.
SPECIFICATION Spec
CONSTANTS
    Ka = Ka
    Kb = Kb
    NotANumber = NotANumber
    Absent = Absent
    Sweeper = sweeper
    NoProc = NoProc
    NoKey = NoKey
    Keys = {Ka}
    KeyLen <- MCKeyLenOne
    Strings <- MCStrings
    StrLen <- MCStrLen
    MaxInt = 0
    ParseInt <- MCParseInt
    FormatInt <- MCFormatInt
    Members <- MCMembers
    MemberLen <- MCMemberLen
    Policies = {"lru"}
    SampleSize = 5
    Clients = {c1, c2}
    MaxEntries = 0
    MaxMemory = 0
    TTLs <- MCTTLsNeg
    KeyLists <- MCKeyListsOne
    TimeUnit = 1
    Commands = {"SET", "GET", "INCR", "EXPIRE", "TTL", "DEL", "EXISTS",
                "SADD", "SREM", "SISMEMBER", "SMEMBERS"}
    MaxOps = 4
    MaxTime = 2
SYMMETRY MCSymmetry
INVARIANTS TypeOK GetsCounted
PROPERTIES ImplementsMap
