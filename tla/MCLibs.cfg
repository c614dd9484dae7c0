\* an arena of up to 14 bytes with three objects; tables of up to three keys
SPECIFICATION LibsSpec
CONSTANTS
    NULL = NULL
    NIL = NIL
    k1 = k1
    k2 = k2
    k3 = k3
    kLong = kLong
    t1 = t1
    t2 = t2
    t3 = t3
    WORD = 16
    ArenaSizes = {3, 9, 14}
    Aligns = {1, 4}
    ObjSizes = {0, 1, 3, 4, 15}
    TLVIDs = {t1, t2, t3}
    ProbeKeys = {k1, k2, k3, kLong}
    LongKeys = {kLong}
    ProbeHash <- MCProbeHash
    TableSizes = {0, 3, 4}
    ChainKeys = {k1, k2, k3}
    ChainVals = {0, 1}
    ChainHash <- MCChainHash
    ChainCaps = {1, 3}
    INIT_BUCKET_CAP = 1
CONSTRAINT Sound
SYMMETRY Symmetry
INVARIANTS
    ObjectsIntact
    ArenaIInv
    UsedKeysAreFound
    ProbeIInv
    GetsOldestValue
CHECK_DEADLOCK FALSE
