SPECIFICATION Spec
CONSTANTS
    c1 = c1
    c2 = c2
    Clients <- TwoClients
    Worker = Worker
    NoThread = NoThread
    YieldModes <- WaitingPools
    MaxOps = 1
INVARIANTS
    TypeOK
    ExclusiveContext
    NoLostWakeup
    NoLostItem
    BoundedOvertaking
PROPERTIES
    ClientsReturn
    ImplementsActorContext
\* The program rests when the worker sleeps and no client has anything to do.
CHECK_DEADLOCK FALSE
