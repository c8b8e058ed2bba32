SPECIFICATION Spec
CONSTANTS
    a1 = a1
    a2 = a2
    c1 = c1
    code = code
    input = input
    t1 = t1
    t2 = t2
    t3 = t3
    t4 = t4
    Acct = {a1, a2}
    Proposer = a1
    Reverting <- MCReverting
    Batches <- MCBatches
    MayFail = FALSE
    MaxMade = 3
    MaxCrashes = 2
    None = None
    LeadingNumber <- MCLeadingNumber
INVARIANTS
    LatestRootIsOfTheState
