SPECIFICATION Spec
CONSTANTS
    T1 = T1
    T2 = T2
    T3 = T3
    Ghost = Ghost
    f1 = f1
    f2 = f2
    f3 = f3
    None = None
    Id <- Ids
    File <- Files
    Known <- Dirs
    MaxRounds = 2
    MaxRuns = 4
    Worlds <- AllWorlds
INVARIANTS
    GateAgrees
    StartedInOrder
    NoChangeIsBacked
    OuterCommitIsOwned
    
CHECK_DEADLOCK FALSE
