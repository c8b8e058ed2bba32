SPECIFICATION FairWalletSpec
CONSTANTS
    s1 = s1
    s2 = s2
    q1 = q1
    q2 = q2
    NoTx = NoTx
    Sender = {s1}
    Tx <- MCTxSameNonce
    Client = {q1, q2}
    Modes <- MCModes
    CHAIN_ID = 999
    GasPrice = 2
INVARIANTS
    TypeOK
    PendingIsNext
    QueuedIsAhead
    OneTxPerNonceInTurn
    SuccessesAreConsecutive
    WalletsLeaveNoGap
PROPERTIES
    LeavesForABlock
    PendingIsTaken
