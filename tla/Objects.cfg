SPECIFICATION Spec
CONSTANTS
    Children <- Tree
    Values = {10, 25}
    Sensor = 3
    One = 10
    Milli = 2
    Knl = TRUE
    TimeUnit = 1
    Errors = {"FAILURE", "OP_NO_PERM"}
    MaxFailed = 2
    Programs <- Apps
    Lists <- Listings
    MinWindow = 4
    Requests <- Windows
    USec = 3
    TimeMod = 64
    EnergyMod = 16
INVARIANTS
    OutputOrError
    
    Enumerable

    
