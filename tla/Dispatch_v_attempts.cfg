SPECIFICATION Spec
CONSTANTS
    b1 = b1
    b2 = b2
    NoSession = NoSession
    Backends <- TwoBackends
    Retries = 1
    MaxSessionRounds = 2
    MaxRounds = 3
    MaxClock = 1
    MaxHeads = 1
    MaxRuns = 2
    MaxFaults = 1
INVARIANTS
    AttemptsAreBounded
