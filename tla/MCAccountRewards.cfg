SPECIFICATION Spec
CONSTANTS
    a1 = a1
    a2 = a2
    p = p
    q1 = q1
    q2 = q2
    Addr = {a1, a2}
    Object <- MCObject
    Value <- MCValue
    Reader <- Task
    Producer = p
    Api = {}
    NoAccount = NoAccount
    NoEntry = NoEntry
    CacheSizeLimit = 2
    MaxBalance = 2
    MaxAccounts = 6
    Modes <- MCRewards
PROPERTY CommitSavesWhatIsOwed
