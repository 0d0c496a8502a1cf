SPECIFICATION Spec
CONSTANTS
    p1 = p1
    p2 = p2
    p3 = p3
    r1 = r1
    d1 = d1
    d2 = d2
    i1 = i1
    i2 = i2
    i3 = i3
    i4 = i4
    None = None
    Pids <- ThreePids
    Roots <- OneRoot
    Dirs <- TwoDirs
    Places <- InOneTree
    Inodes <- FourInodes
INVARIANTS
    OneLoopPerTree
    RunLockInPlace
    NoLockLeaks
SYMMETRY PidsAndInodes
