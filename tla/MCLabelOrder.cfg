SPECIFICATION Spec
CONSTANTS
    Decimation <- FirstDecimates
    NumBlocks = 2
    Source <- Chain
    ElemSize = 2
    BufSize = 4
    NumBuffers = 2
    NumTokens = 1
    MaxElements = 8
    MaxLabels = 2
    MaxEvents = 0
INVARIANTS
    OnlyConsumedPropagate
\* The chain may rest with nothing more to push.
CHECK_DEADLOCK FALSE
