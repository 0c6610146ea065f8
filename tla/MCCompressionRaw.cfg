CONSTANTS
    WindowBits = 4
    LookaheadBits = 3
    Bytes <- MCBytes
    Inputs <- MCInputs
    SinkSizes = {}
    PollSizes = {}
SPECIFICATION CompressionSpec
INVARIANT CompleteOrRaw
CHECK_DEADLOCK FALSE
