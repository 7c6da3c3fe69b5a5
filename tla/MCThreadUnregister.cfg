SPECIFICATION Spec
CONSTANTS
    NumTasks = 2
    PoolSizes <- ThreadPerTask
    WaitModeEnabled = TRUE
    MaxChanges = 1
    MaxUnregister = 1
PROPERTIES
    UnregisterReturns
\* Every thread may be asleep with nothing left to flag.
CHECK_DEADLOCK FALSE
