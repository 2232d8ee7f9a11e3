SPECIFICATION ServerSpec
CONSTANTS
    QueueSize = 3
    NWorkers = 2
    Segs <- MCSegs
    NCalls = 2
    Size = 24
    Segment = 6
    Calls <- WordCalls
    OpBufferSize = 5
    Ranks = {1, 2}
    NRuns = 2
    Members <- WorldGroup
INVARIANTS
    NothingDropped
    OperationsNotMixed
    WorkerSendsInput
    ResultDelivered
    BufferConsistent
    StartAndStopSafe
    ResultAsPromised
PROPERTIES
    CallsReturn
    EveryCallServed
    RanksAgree
CHECK_DEADLOCK FALSE
