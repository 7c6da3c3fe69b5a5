SPECIFICATION Spec
CONSTANTS
    Threads = {t1, t2}
    None = None
    Tid <- Hash
    MaxRequests = 4
INVARIANTS
    TypeOK
    RepliesHaveTakers
    ObjectsMatchHandles
PROPERTIES
    CallsSpec
