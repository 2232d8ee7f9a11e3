SPECIFICATION Spec
CONSTANTS
    r1 = r1
    r2 = r2
    Ranks <- MCRanks
    Op <- MCOp
    NPkts = 5
    PsnSpace = 4
    AggLen = 3
    VersionSpace = 4
    UpCap = 2
    DownCap = 2
    RecircCap = 2
INVARIANTS
    UnevenSplitAllowed
CHECK_DEADLOCK FALSE
