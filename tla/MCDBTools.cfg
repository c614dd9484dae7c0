\* three paths; texts of up to three lines, databases of up to two entries
SPECIFICATION Spec
CONSTANTS
    p = p
    q = q
    r = r
    stdout = stdout
    Path = {p, q, r}
    Char = {"a", "b", " ", "=", "#", "n", "0"}
    Space = {" ", "n"}
    Delim = "="
    nl = "n"
    Hash = "#"
    nul = "0"
    Keys <- MCKeys
    Vals <- MCVals
    InitialFiles <- MCInitialFiles
    Caps = {2, 3}
    BUFFER_SIZE = 9
    MAX_KEY_SIZE = 2
    MaxRuns = 2
SYMMETRY Symmetry
INVARIANTS
    CompactKeepsDictionary
    LoadIsLastAssignment
    LoadFaultsOnlyOn
    LoadedDatabaseOpens
    DumpLoadRoundTrip
CHECK_DEADLOCK FALSE
