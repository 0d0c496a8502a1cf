SPECIFICATION FairSpec
CONSTANTS
    t1 = t1
    t2 = t2
    s1 = s1
    s2 = s2
    NoTask = NoTask
    Tasks <- OneTask
    Slots <- TwoSlots
    MaxRounds = 2
    MaxRuns = 3
    MaxHeads = 1
    MaxInvocations = 2
    MaxFaults = 1
    Faults <- AllFaults
    Flags <- AllFlags
    External <- Anywhere
    NoopAsError = TRUE
INVARIANTS
    TypeOK
    RoundIsTheChilds
    ApprovalIsEarned
    ApprovalIsBacked
PROPERTIES
    EveryCommandEnds
    ApprovalIsReported
