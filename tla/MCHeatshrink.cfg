CONSTANTS
    WindowBits = 4
    LookaheadBits = 3
    Bytes <- MCBytes
    Inputs <- MCInputs
    SinkSizes = {9, 50}
    PollSizes = {0, 1, 50}
SPECIFICATION Spec
INVARIANTS TypeOK OutputDecodes DoneIsGreedy
PROPERTY PollReturns
