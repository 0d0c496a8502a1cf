SPECIFICATION Spec
CONSTANTS
    l1 = l1
    l2 = l2
    l3 = l3
    Nobody = Nobody
    Lane <- ThreeLanes
    Declared <- InOrder
    Cards <- OneCard
    MaxRounds = 2
    MaxFaults = 0
    MaxWorkers = 2
    MaxCommits <- OneOrTwo
INVARIANTS
    LaterRoundsMerge
