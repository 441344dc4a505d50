SPECIFICATION Spec
CONSTANTS
    Threads = {t1, t2}
    NumRings = 2
    RingCap = 1
    ThruCap = 1
    Programs <- AllPrograms
    Kinds = {"thru", "flush", "ring", "verbose"}
    Balanced = TRUE
    Failures = TRUE
    MaxMessages <- MessageBounds
    MaxStarts = 2
    MaxForks = 1
INVARIANTS
    RingsConserved
    FlushedNotLost
    InOrder
    NoDangling
    
PROPERTIES
    SyncMeansWritten
SYMMETRY ThreadSymmetry
CHECK_DEADLOCK FALSE
