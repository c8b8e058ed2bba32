SPECIFICATION CallSpec
CONSTANTS
    a1 = a1
    a2 = a2
    v1 = v1
    v2 = v2
    r1 = r1
    c1 = c1
    c2 = c2
    Addr = {a1}
    Object = {v1, v2}
    Value = {v1, v2}
    Reader = {r1}
    Caller = {c1, c2}
    NoAccount = NoAccount
    NoEntry = NoEntry
    CacheSizeLimit = 1
    MaxFrames = 1
    MayFail = TRUE
SYMMETRY CallSymmetry
INVARIANTS
    CallsLeaveNothing
    CallsInTurnAreIsolated
