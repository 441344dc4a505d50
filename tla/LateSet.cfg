SPECIFICATION Spec
CONSTANTS
    Conns = {c1}
    Paths = {p1}
    Values = {1, 2, 3}
    Attr <- AttrMax
    InitFile <- File2
    USERSPACE = 9
    Root = {}
    ResourceManager = {}
    Permitted = {c1}
    ReqTypes = {"AUTH", "SET"}
    MaxClientSockets = 2
    RestartFlag = FALSE
    MaxReqs = 3
    MaxSignals = 0
    MaxBoots = 1
    MaxCrashes = 0
    ClientsDie = TRUE
    Faults = FALSE
    ClockTies = FALSE
    NULL = NULL
    NAMED = NAMED
INVARIANTS
    RolledBackWhenAlone
CHECK_DEADLOCK FALSE
