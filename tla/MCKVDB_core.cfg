\* room for three entries, bucket growth, reopening: structure of index and file
SPECIFICATION Spec
CONSTANTS
    a = a
    b = b
    empty = empty
    long = long
    u = u
    w = w
    NULL = NULL
    ZeroVal = ZeroVal
    NoKey = NoKey
    Key = {a, b, empty}
    Val = {w}
    Caps = {3}
    KeyLen <- MCKeyLen
    ValLen <- MCValLen
    Hash <- MCHash
    MAX_KEY_SIZE = 2
    HEADER_SIZE = 4
    INDEX_ENTRY_SIZE = 1
    DATA_ENTRY_HEADER_SIZE = 2
    EOF_SIZE = 1
    ULONG_RANGE = 4
    INIT_BUCKET_CAP = 1
    AllocFails = FALSE
INVARIANTS
    FullInv
    TypeOK
    AppendsAtTheEnd
    IndexFullOnlyWhenDBFull
    ReopenSucceeds
    EOFMarkerIsLast
CHECK_DEADLOCK FALSE
