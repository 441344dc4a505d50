SPECIFICATION Spec
CONSTANTS
    Ctxs = {c1}
    NoCtx = NoCtx
    Machine <- Dense
    Overlap = FALSE
    MaxFaults = 2
    MaxCalls = 2
    Turbo = 30
INVARIANTS
    
    OnlineCpusOnly
    
    
CHECK_DEADLOCK FALSE
