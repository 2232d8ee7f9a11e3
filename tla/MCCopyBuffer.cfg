SPECIFICATION BufferSpec
CONSTANTS
    Size = 24
    Segment = 6
    Calls <- MCByteCalls
    OpBufferSize = 5
INVARIANTS
    AnySizeFreed
CHECK_DEADLOCK FALSE
