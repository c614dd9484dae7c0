\* two keys in one bucket, two values: the dictionary across sessions
SPECIFICATION Spec
CONSTANTS
    a = a
    b = b
    empty = empty
    long = long
    u = u
    w = w
    NULL = NULL
    ZeroVal = ZeroVal
    NoKey = NoKey
    Key = {a, b, long}
    Val = {u, w}
    Caps = {0, 2}
    KeyLen <- MCKeyLen
    ValLen <- MCValLen
    Hash <- MCHash
    MAX_KEY_SIZE = 2
    HEADER_SIZE = 4
    INDEX_ENTRY_SIZE = 1
    DATA_ENTRY_HEADER_SIZE = 2
    EOF_SIZE = 1
    ULONG_RANGE = 4
    INIT_BUCKET_CAP = 1
    AllocFails = FALSE
PROPERTIES
    EveryOpenEnds
    ImplementsStore
CHECK_DEADLOCK FALSE
