\* The comment on WithMaxEntries counts live keys; the code counts all.
SPECIFICATION Spec
CONSTANTS
    Ka = Ka
    Kb = Kb
    NotANumber = NotANumber
    Absent = Absent
    Sweeper = sweeper
    NoProc = NoProc
    NoKey = NoKey
    Keys = {Ka, Kb}
    KeyLen <- MCKeyLen
    Strings <- MCStrings
    StrLen <- MCStrLen
    MaxInt = 0
    ParseInt <- MCParseInt
    FormatInt <- MCFormatInt
    Members = {}
    MemberLen <- MCNoLens
    Policies = {"lru"}
    SampleSize = 5
    Clients = {c1, c2}
    MaxEntries = 1
    MaxMemory = 0
    TTLs <- MCTTLsShort
    KeyLists <- MCKeyLists
    TimeUnit = 1
    Commands = {"SET"}
    MaxOps = 2
    MaxTime = 2
PROPERTIES EvictsAboveLiveLimit
