\* allocations succeed
SPECIFICATION Spec
CONSTANTS
    NULL = NULL
    Hashes = {0, 1, 3}
    Ids = {0, 1}
    Caps = {0, 2, 3}
    MaxPositions = 4
    INIT_BUCKET_CAP = 1
    AllocFails = FALSE
INVARIANTS
    CountsAgree
PROPERTIES
    ImplementsMultimap
    CopyFailsOnlyWhenFull
    EveryCopyEnds
CHECK_DEADLOCK FALSE
