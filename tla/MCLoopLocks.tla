---------------------------- MODULE MCLoopLocks ----------------------------
(* Instances of LoopLocks for TLC. *)
EXTENDS LoopLocks, TLC

CONSTANTS p1, p2, p3, r1, d1, d2, i1, i2, i3, i4

ThreePids == {p1, p2, p3}
OneRoot == {r1}
TwoDirs == {d1, d2}
InOneTree == [root : {r1}, dir : {d1, d2}]
FourInodes == {i1, i2, i3, i4}

PidsAndInodes == Permutations(ThreePids) \cup Permutations(FourInodes)
                 \cup Permutations(TwoDirs)
=============================================================================
