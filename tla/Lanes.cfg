SPECIFICATION FairSpec
CONSTANTS
    l1 = l1
    l2 = l2
    l3 = l3
    Nobody = Nobody
    Lane <- ThreeLanes
    Declared <- InOrder
    Cards <- FewCards
    MaxRounds = 2
    MaxFaults = 1
    MaxWorkers = 2
    MaxCommits <- OneOrTwo
INVARIANTS
    TypeOK
    DependenciesCompleteFirst
    TreesAreFresh
    OnlyWholeRoundsMerge
    OrderIsDeterministic
    MergedIsWhole
    NoTreeIsLeft
PROPERTIES
    ResetLosesNothing
    EveryRoundEnds
