SPECIFICATION Spec
CONSTANTS
    Size = 5
    Lengths = {1, 2, 3}
    MaxPuts = 6
    Procs = {p1, p2}
    Params <- EqualParams
    Forced = TRUE
    Failures = TRUE
    MaxInodes = 4
    MaxUnits = 5
    NoProc = NoProc
INVARIANTS
    RingIsFifo
    OnlyFullArchived
    ArchivesInOrder
    
SYMMETRY ProcSymmetry
CHECK_DEADLOCK FALSE
