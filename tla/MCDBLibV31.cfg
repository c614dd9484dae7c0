\* up to three entries, any number of sessions
SPECIFICATION V31Spec
CONSTANTS
    a = a
    b = b
    c = c
    v = v
    NULL = NULL
    Key = {a, b, c}
    Val = {v}
    KeyLen <- MCKeyLen
    ValLen <- MCValLen
    HEADER_SIZE = 4
    INDEX_ENTRY_SIZE = 2
    DATA_ENTRY_HEADER_SIZE = 2
    EOF_SIZE = 1
    ProbeKeys = {a, b, c}
    LongKeys = {}
    ProbeHash <- MCHash
    TableSizes = {}
    MaxCounts = {3}
VIEW View
CONSTRAINT FewRecounts
INVARIANTS
    RecordsKeptUntilAppended
    LookupFindsAnEntry
CHECK_DEADLOCK FALSE
