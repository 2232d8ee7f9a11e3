SPECIFICATION GroupsSpec
CONSTANTS
    Jobs <- MCJobs
    Ranks <- MCRanks
    NPkts = 2
    AggLen = 2
    UpCap = 1
    DownCap = 1
    RecircCap = 1
    MaxGroupNum = 4
    MaxNodeNum = 8
    NPorts = 2
    MemSize = 6
    SegSize = 2
    GroupSizes <- MCGroupSizes
    MaxCreates = 4
    MaxFails = 1
INVARIANTS
    ResultsOwn
    SharedOnlyWithLate
    ResourcesConserved
    SwitchMatches
    NoFragmentation
PROPERTIES
    JobsReturn
CHECK_DEADLOCK FALSE
