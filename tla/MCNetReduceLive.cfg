SPECIFICATION LiveSpec
CONSTANTS
    r1 = r1
    r2 = r2
    Ranks <- MCRanks
    Op <- MCOp
    NPkts = 6
    PsnSpace = 4
    AggLen = 2
    VersionSpace = 4
    UpCap = 1
    DownCap = 2
    RecircCap = 1
    MaxLoss = 3
PROPERTIES
    EveryPacketAnswered
    ImplementsPromise
