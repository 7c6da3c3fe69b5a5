SPECIFICATION Spec
CONSTANTS
    NumTasks = 2
    PoolSizes <- AllPools
    WaitModeEnabled = TRUE
    MaxChanges = 1
    MaxUnregister = 1
INVARIANTS
    TypeOK
    ExclusiveTask
    NoThreadLeftBehind
PROPERTIES
    ChangesServed
\* Every thread may be asleep with nothing left to flag.
CHECK_DEADLOCK FALSE
