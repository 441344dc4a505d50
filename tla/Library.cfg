SPECIFICATION Spec
CONSTANTS
    c1 = c1  c2 = c2  g1 = g1  g2 = g2  g3 = g3
    s1 = s1  s2 = s2  t1 = t1  h1 = h1  h2 = h2
    None = None
    Ctxs <- MCCtxs
    Grps <- MCGrps
    Stats <- MCStats
    Statuses <- MCStatuses
    Hints <- MCHints
    Traversal <- MCTraversal
    Parent <- MCParent
    Type <- MCType
    Names <- MCNames
    Programs <- AllPrograms
    LogPath = TRUE
    MaxUnique = 2
    Careful = TRUE
INVARIANTS
    ListsAgree
    SamplersOwned
    MinimumSinceStart
    GroupsAreSets
    
PROPERTIES
    CallsReturn
CHECK_DEADLOCK FALSE
