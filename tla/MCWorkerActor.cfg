SPECIFICATION Spec
CONSTANTS
    Decimation <- OneToOne
    NumBlocks = 3
    Source <- Fork
    ElemSize = 2
    BufSize = 2
    NumBuffers = 1
    NumTokens = 1
    MaxElements = 2
    MaxLabels = 1
    MaxEvents = 1
INVARIANTS
    TypeOK
    NoStall
    LabelsStayWithData
    LabelsDeliveredOnce
    ResourcesConserved
PROPERTIES
    DataFlowsThrough
\* The chain may rest with nothing more to push.
CHECK_DEADLOCK FALSE
