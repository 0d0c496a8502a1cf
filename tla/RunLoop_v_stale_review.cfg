SPECIFICATION Spec
CONSTANTS
    t1 = t1
    t2 = t2
    s1 = s1
    s2 = s2
    NoTask = NoTask
    Tasks <- OneTask
    Slots <- OneSlot
    MaxRounds = 1
    MaxRuns = 2
    MaxHeads = 2
    MaxInvocations = 2
    MaxFaults = 1
    Faults <- HostFault
    Flags <- AllFlags
    External <- OnlyOutside
    NoopAsError = TRUE
INVARIANTS
    ApprovedHeadWasReviewed
