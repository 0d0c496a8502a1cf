---------------------------- MODULE MCStateStore ----------------------------
(* Instances of StateStore for TLC. *)
EXTENDS StateStore

CONSTANTS k1, k2, k3

ThreeKeys == {k1, k2, k3}
Progress == {0, 1}
=============================================================================
