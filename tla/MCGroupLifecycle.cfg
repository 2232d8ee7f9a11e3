SPECIFICATION Spec
CONSTANTS
    Jobs <- MCJobs
    Ranks <- MCRanks
    NPkts = 2
    AggLen = 2
    UpCap = 1
    DownCap = 1
    RecircCap = 1
INVARIANTS
    NoImplicitSharing
CHECK_DEADLOCK FALSE
