\* any allocation may fail at any time
SPECIFICATION Spec
CONSTANTS
    NULL = NULL
    Hashes = {0, 1, 3}
    Ids = {0, 1}
    Caps = {0, 2, 3}
    MaxPositions = 3
    INIT_BUCKET_CAP = 1
    AllocFails = TRUE
INVARIANTS
    TypeOK
    EntriesInOwnSlot
    CopiedSoFar
PROPERTIES
    CopyKeepsPairs
CHECK_DEADLOCK FALSE
