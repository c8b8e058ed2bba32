SPECIFICATION FairSpec
CONSTANTS
    a1 = a1
    a2 = a2
    v1 = v1
    v2 = v2
    r1 = r1
    Addr = {a1, a2}
    Object = {v1, v2}
    Value = {v1, v2}
    Reader = {r1}
    NoAccount = NoAccount
    NoEntry = NoEntry
    CacheSizeLimit = 1
    MaxFrames = 2
    MayFail = TRUE
INVARIANTS
    TypeOK
    StaleOnlyByLateAnswer
    CacheWithinLimit
PROPERTIES
    ImplementsStore
    CommitFinishes
