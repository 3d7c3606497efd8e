SPECIFICATION Spec
CONSTANTS
    g_uTotalSize = 12
    ERASE_SEC = 4
    PAGE = 2
    Val = {"x", "y"}
    Blank = "blank"
    Writes <- MCWrites
    MaxOps = 5
INVARIANTS
    ReadsWhatWasWritten
PROPERTIES
    ImplementsMemory
