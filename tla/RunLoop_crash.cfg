SPECIFICATION Spec
CONSTANTS
    t1 = t1
    t2 = t2
    s1 = s1
    s2 = s2
    NoTask = NoTask
    Tasks <- OneTask
    Slots <- OneSlot
    MaxRounds = 2
    MaxRuns = 3
    MaxHeads = 2
    MaxInvocations = 3
    MaxFaults = 2
    Faults <- HostFault
    Flags <- AllFlags
    External <- OnlyOutside
    NoopAsError = TRUE
INVARIANTS
    ExitZeroIsSuccess
    AuditTrailIsWhole
    FixListIsThere
PROPERTIES
    RoundNeverRewinds
    SuccessIsFinal
    FollowsProtocol
