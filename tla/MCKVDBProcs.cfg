\* two processes, two keys with records of different sizes, room for two entries
SPECIFICATION Spec
CONSTANTS
    p1 = p1
    p2 = p2
    a = a
    b = b
    empty = empty
    w = w
    NULL = NULL
    NoBuf = NoBuf
    Proc = {p1, p2}
    Key = {a, b, empty}
    Val = {w}
    Caps = {2}
    Misread <- MCMisread
    KeyLen <- MCKeyLen
    ValLen <- MCValLen
    HEADER_SIZE = 4
    INDEX_ENTRY_SIZE = 1
    DATA_ENTRY_HEADER_SIZE = 2
    EOF_SIZE = 1
SYMMETRY Symmetry
CONSTRAINTS FewRemains OneMisread EmptyAlone
INVARIANTS
    IInv
    SnapshotReads
    DeletionsSeen
    CommittedRecordsSurvive
    OnlyAppendsBreakTheFile
CHECK_DEADLOCK FALSE
