SPECIFICATION SendingSpec
CONSTANTS
    SlotCount = 5
    InFlight = 2
    TxSize = 2
    RxSize = 2
    NbTxd = 1
    NbRxd = 2
    NPkts = 6
    Scale = 2
    MaxWinLen = 12
    WinLimit = 5
    CwndMin = 1
    Ai = 1
    FastRecovery = 2
    Burst = 2
    ReactionTime = 2
    TimeoutTime = 3
    Gap <- MCGap
INVARIANTS
    IntactUntilSent
    CwndBounds
    AdjustCntBounded
PROPERTIES
    FirstInFirstOut
    EverySendLeaves
    CwndRecovers
CHECK_DEADLOCK FALSE
