SPECIFICATION PartsSpec
CONSTANTS
    Groups <- MCGroups
    MaxWinLen = 4
    MaxBurst = 2
    CwndMin = 1
    PsnSpace = 5
    AggLen = 4
    NOps = 3
    MaxPkts = 3
    Ranks <- MCRanks
    Base = 8
    WordSize = 2
    PayloadSize = 4
    Data <- MCData
    MaxSize = 13
    MaxWorkers = 3
INVARIANTS
    UnackedFound
    NoStrayWrite
    CompletionInOrder
    WindowOfOneGroup
    ResultClose
    BytesRight
CHECK_DEADLOCK FALSE
