SPECIFICATION FairSpec
CONSTANTS
    Conns = {c1, c2}
    Paths = {p1}
    Values = {1}
    Attr <- AttrMax
    InitFile <- File1
    USERSPACE = 9
    Root = {c1}
    ResourceManager = {}
    Permitted = {c1, c2}
    ReqTypes = {"AUTH", "SET", "LOGLVL", "DUMP", "BAD"}
    MaxClientSockets = 1
    RestartFlag = FALSE
    MaxReqs = 2
    MaxSignals = 1
    MaxBoots = 1
    MaxCrashes = 0
    ClientsDie = TRUE
    Faults = FALSE
    ClockTies = FALSE
    NULL = NULL
    NAMED = NAMED
INVARIANTS
    ClientsCounted
    OneAnswerEach
PROPERTIES
    AnsweredWhileRunning
    StopsWhenTold
CHECK_DEADLOCK FALSE
