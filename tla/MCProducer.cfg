SPECIFICATION FairConsensusSpec
CONSTANTS
    l1 = l1
    l2 = l2
    Loop = {l1, l2}
    SlotLength = 2
    MaxAttempts = 2
    MaxTime = 8
    None = None
    Validators <- MCValidators
    COMMITTEE_SIZE = 3
    GenerateSeed <- MCSeed
    Multiplier = 5
    Modulus = 31
    PROPOSER_REWARD = 20
    COMMITTEE_REWARD_POOL = 10
CHECK_DEADLOCK FALSE
INVARIANTS
    TypeOK
    ContextIsItsOwnUntilStopped
    RunningIsAlive
    CommitteesAreSound
    OneBlockPerSlot
PROPERTIES
    SlotsAdvance
    BlocksEnd
