SPECIFICATION Spec
CONSTANTS
    CountMod = 5
    LengthMod = 3
    Starts = {3}
    Window = 5
    FlowStep = 2
    Header = 1
    MaxElements = 2
    MaxBuffer = 2
    MaxLabels = 1
    MaxOpens = 2
    MaxFailures = 1
    Scratch = 2
INVARIANTS
    TypeOK
    CountsInSync
    HandshakesAgree
    NoFlowDeadlock
    StreamInOrder
    LabelsKeepTheirElement
CHECK_DEADLOCK FALSE
