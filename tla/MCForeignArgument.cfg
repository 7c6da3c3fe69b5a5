SPECIFICATION Spec
CONSTANTS
    Threads = {t1, t2}
    None = None
    Tid <- Hash
    MaxRequests = 3
INVARIANTS
    ForeignArgumentsReachObjects
