SPECIFICATION Spec
CONSTANTS
    Conns = {c1, c2}
    Paths = {p1}
    Values = {1, 2}
    Attr <- AttrMin
    InitFile <- File1
    USERSPACE = 9
    Root = {c1}
    ResourceManager = {c1}
    Permitted = {c1, c2}
    ReqTypes = {"AUTH", "SET"}
    MaxClientSockets = 2
    RestartFlag = FALSE
    MaxReqs = 2
    MaxSignals = 1
    MaxBoots = 2
    MaxCrashes = 1
    ClientsDie = FALSE
    Faults = FALSE
    ClockTies = FALSE
    NULL = NULL
    NAMED = NAMED
INVARIANTS
    CleanMeansPersistent
PROPERTY Arbitrates
CHECK_DEADLOCK FALSE
