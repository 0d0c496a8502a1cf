----------------------------- MODULE MCDispatch -----------------------------
(* Instances of Dispatch for TLC. *)
EXTENDS Dispatch

CONSTANTS b1, b2

TwoBackends == {b1, b2}
=============================================================================
