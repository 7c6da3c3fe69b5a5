SPECIFICATION Spec
CONSTANTS
    Elem = {e1, e2, e3}
    Default = none
    MaxCapacity = 4
INVARIANTS
    NothingLeftBehind
PROPERTIES
    ImplementsDeque
CHECK_DEADLOCK FALSE
