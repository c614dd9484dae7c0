\* tables of up to four lines and three columns
SPECIFICATION Spec
CONSTANTS
    Char = {" ", ",", "a", "b", "n"}
    Delim = ","
    nl = "n"
    Space = {" ", "n"}
    Texts <- MCTexts
    PKs <- MCPKs
    BUFFER_SIZE = 13
    LEN_SIZE = 4
    DB_ENTRY_CAP = 3
    MAX_KEY_SIZE = 1
    DeletedIDs = {1, 5}
INVARIANTS
    RecordsAreRows
    ImportFaultsOnlyOn
CHECK_DEADLOCK FALSE
