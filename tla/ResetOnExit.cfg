SPECIFICATION Spec
CONSTANTS
    Conns = {c1}
    Paths = {p1}
    Values = {1, 2, 3}
    Attr <- AttrMax
    InitFile <- File2
    USERSPACE = 9
    Root = {}
    ResourceManager = {}
    Permitted = {c1}
    ReqTypes = {"AUTH", "SET"}
    MaxClientSockets = 2
    RestartFlag = FALSE
    MaxReqs = 3
    MaxSignals = 1
    MaxBoots = 1
    MaxCrashes = 0
    ClientsDie = FALSE
    Faults = FALSE
    ClockTies = FALSE
    NULL = NULL
    NAMED = NAMED
INVARIANTS
    ResetOnExit
CHECK_DEADLOCK FALSE
