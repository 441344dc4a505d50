SPECIFICATION Spec
CONSTANTS
    Children <- Tree
    Root = "n"
    Type <- Kinds
    Orders <- Heaps
    Starts <- AllStarts
    Lines <- SomeLines
    MaxCommands = 3
    MaxFailed = 1
INVARIANTS
    
    SuccessMeansAll
    SlotsExplained
    HierarchyShown
CHECK_DEADLOCK FALSE
