SPECIFICATION Spec
CONSTANTS
    s1 = s1
    s2 = s2
    s3 = s3
    SwitchAddr = "switch"
    Servers <- MCServers
    Member <- MCMember
    Op <- MCOp
    Loads <- MCLoads
INVARIANTS
    NoLengthError
    RightAddressee
    OthersUntouched
PROPERTIES
    EveryRankAnswered
CHECK_DEADLOCK FALSE
