\* Two keys under a memory limit, LRU and random: bookkeeping and eviction.
SPECIFICATION Spec
CONSTANTS
    Ka = Ka
    Kb = Kb
    NotANumber = NotANumber
    Absent = Absent
    Sweeper = sweeper
    NoProc = NoProc
    NoKey = NoKey
    Keys = {Ka, Kb}
    KeyLen <- MCKeyLen
    Strings <- MCStrings
    StrLen <- MCStrLen
    MaxInt = 0
    ParseInt <- MCParseInt
    FormatInt <- MCFormatInt
    Members = {"m"}
    MemberLen <- MCMemberLenOne
    Policies = {"lru", "random"}
    SampleSize = 5
    Clients = {c1, c2}
    MaxEntries = 0
    MaxMemory = 5
    TTLs <- MCTTLsOne
    KeyLists <- MCKeyLists
    TimeUnit = 1
    Commands = {"SET", "GET", "EXPIRE", "DEL", "SADD", "SREM", "EVICT", "STATS"}
    MaxOps = 4
    MaxTime = 2
SYMMETRY MCSymmetry
INVARIANTS LockOK MemoryExact PolicyTracksData WithinCapacity LRUKeepsWrittenKey
PROPERTIES NoSilentLoss
