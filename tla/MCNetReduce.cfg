SPECIFICATION Spec
CONSTANTS
    r1 = r1
    r2 = r2
    Ranks <- MCRanks
    Op <- MCOp
    NPkts = 6
    PsnSpace = 8
    AggLen = 4
    VersionSpace = 8
    UpCap = 2
    DownCap = 1
    RecircCap = 1
INVARIANTS
    IInv
    ResultCorrect
    NoTornRead
    LostResponseRecoverable
PROPERTIES
    AggregatorReuse
    ImplementsPromise
CHECK_DEADLOCK FALSE
