SPECIFICATION ContractSpec
CONSTANTS
    a1 = a1
    a2 = a2
    x = x
    y = y
    r1 = r1
    Addr = {a1, a2}
    Object <- MCValue
    Value <- MCValue
    Reader = {r1}
    NoAccount = NoAccount
    NoEntry = NoEntry
    NoCode = NoCode
    CacheSizeLimit = 1
    MaxFrames = 2
    MayFail = FALSE
    Code = {x, y}
    Slot = {1}
SYMMETRY ContractSymmetry
INVARIANTS
    CodeHashesResolve
    DeployedCodeIsFound
    StorageIsKept
