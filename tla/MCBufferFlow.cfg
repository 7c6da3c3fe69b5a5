SPECIFICATION Spec
CONSTANTS
    RingLength = 6
    NumSlabs = 3
    SlabSize = 2
    PoolSize = 4
    PoolBuffers <- SmallPool
    Requirements <- OneOrThree
    MaxHeld = 1
    MaxBytes = 8
INVARIANTS
    TypeOK
    StreamIntact
    ReadersUndisturbed
    SlabsConserved
    NeverStarved
\* The stream ends after MaxBytes.
CHECK_DEADLOCK FALSE
