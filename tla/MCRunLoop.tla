----------------------------- MODULE MCRunLoop -----------------------------
(* Instances of RunLoop for TLC. *)
EXTENDS RunLoop, TLC

CONSTANTS t1, t2, s1, s2

OneTask == {t1}
TwoTasks == {t1, t2}
OneSlot == {s1}
TwoSlots == {s1, s2}

Plain   == [resume |-> FALSE, reset |-> FALSE, clean |-> FALSE]
Again   == [Plain EXCEPT !.resume = TRUE]
Reset   == [Plain EXCEPT !.reset = TRUE]
Cleanly == [Plain EXCEPT !.clean = TRUE]
Anew    == [Reset EXCEPT !.resume = TRUE]

AllFlags == {Plain, Again, Reset, Cleanly, Anew}

OnlyOutside == {TRUE}
OnlyInside  == {FALSE}
Anywhere    == BOOLEAN

NoFaults == {}
HostFault == {"host"}
ParentFault == {"parent"}
ChildFaults == {"child", "interrupt"}
AllFaults == {"host", "parent", "child", "interrupt"}

SlotSymmetry == Permutations(Slots)
=============================================================================
