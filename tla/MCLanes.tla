------------------------------ MODULE MCLanes ------------------------------
(* Instances of Lanes for TLC. *)
EXTENDS Lanes

CONSTANTS l1, l2, l3

ThreeLanes == {l1, l2, l3}
InOrder    == <<l1, l2, l3>>

OneOrTwo   == [l \in Lane |-> IF l = l3 THEN 2 ELSE 1]

Free  == [l \in Lane |-> {}]
Fork  == [l \in Lane |-> IF l = l1 THEN {l3} ELSE {}]

\* Free: one stage of three lanes, for two workers.  Fork: l1 waits for l3, and
\* the stages are <<l2, l3>> and <<l1>>.
FewCards ==
    {[deps |-> Free, policy |-> "fail_fast",  review |-> FALSE, preserve |-> FALSE],
     [deps |-> Fork, policy |-> "defer_lane", review |-> FALSE, preserve |-> TRUE],
     [deps |-> Fork, policy |-> "skip_lane",  review |-> TRUE,  preserve |-> FALSE]}
OneCard == {[deps |-> Free, policy |-> "fail_fast", review |-> FALSE, preserve |-> TRUE]}
=============================================================================
