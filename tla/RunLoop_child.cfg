SPECIFICATION Spec
CONSTANTS
    t1 = t1
    t2 = t2
    s1 = s1
    s2 = s2
    NoTask = NoTask
    Tasks <- TwoTasks
    Slots <- OneSlot
    MaxRounds = 2
    MaxRuns = 2
    MaxHeads = 2
    MaxInvocations = 2
    MaxFaults = 2
    Faults <- ChildFaults
    Flags <- AllFlags
    External <- Anywhere
    NoopAsError = TRUE
INVARIANTS
    FilesAgree
    ApprovedHeadWasReviewed
