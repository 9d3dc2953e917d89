SPECIFICATION Spec
CONSTANTS
    r1 = r1
    r2 = r2
    c1 = c1
    Requests <- MCRequests
    Commands <- MCCommands
    MaxEdits = 3
INVARIANTS
    KeptWhenAlone
    MemoryOnceWritten
SYMMETRY Symmetry
CHECK_DEADLOCK FALSE
