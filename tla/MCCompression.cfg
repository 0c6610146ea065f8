CONSTANTS
    WindowBits = 4
    LookaheadBits = 3
    Bytes <- MCBytes
    Inputs <- MCInputs
    SinkSizes = {}
    PollSizes = {}
SPECIFICATION CompressionSpec
INVARIANTS CountsInStep ShorterIsComplete
PROPERTY CompressionEnds
CHECK_DEADLOCK FALSE
