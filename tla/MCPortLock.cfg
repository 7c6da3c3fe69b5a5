SPECIFICATION PortSpec
CONSTANTS
    c1 = c1
    c2 = c2
    Clients <- TwoClients
    Worker = Worker
    NoThread = NoThread
    YieldModes <- WaitingPools
    MaxOps = 1
PROPERTIES
    SpinLockReleased
CHECK_DEADLOCK FALSE
