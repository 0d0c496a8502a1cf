----------------------------- MODULE LaneMerge -----------------------------
(***************************************************************************)
(* The integration lane: replaying the commits of the lanes of one round   *)
(* onto the integration head (_cherry_pick_lane_reports), from the state   *)
(* the lanes have left in `order` and `chain`.                             *)
(*                                                                         *)
(* The integration head is the sequence of the commits it has beyond the   *)
(* base commit of the run.  git itself is modelled by what decides here: a *)
(* pick of a change that is already there fails (it would be empty), a     *)
(* chain applies to the tree it was made on, and anything else may or may  *)
(* not conflict.                                                           *)
(***************************************************************************)
EXTENDS Integers, Sequences, FiniteSets

CONSTANTS Lane,          \* lane ids
          Cards,         \* the task cards a run may be about
          MaxRounds,     \* config.max_rounds
          MaxFaults      \* bound: faults in a behaviour

CONSTANT Nobody          \* the lane of a commit no lane made

Policies == {"fail_fast", "skip_lane", "defer_lane"}
Attempts == 0..(MaxRounds * (MaxFaults + 1))

\* The n-th commit that a lane made in one attempt at a round.
Commits == [lane : Lane \cup {Nobody}, try : Attempts, n : 1..2]
\* A commit on the integration head: the object itself, or a replay of it.
Picks == [of : Commits, own : BOOLEAN]

RecordStates == {"pending", "noop", "already_integrated", "applied", "skipped_conflict",
                 "deferred_pending_retry", "deferred_conflict", "applied_after_defer"}
MergeSteps == {"off", "gate", "first", "second", "end", "raised"}

VARIABLES card,          \* the task card: deps, policy, reviews, preserve
          order,         \* lane_execution_order
          chain,         \* each lane's commits, base..lane_head
          head,          \* what the integration head has beyond the base
          record,        \* each lane's LaneMergeRecord status
          merge          \* the local state of _cherry_pick_lane_reports

mergeVars == <<head, record, merge>>

MergeTypeOK ==
    /\ card \in Cards
    /\ order \in Seq(Lane)
    /\ chain \in [Lane -> Seq(Commits)]
    /\ head \in Seq(Picks)
    /\ record \in [Lane -> RecordStates]
    /\ merge \in [step : MergeSteps, at : Nat, nth : Nat, current : Seq(Picks),
                  deferred : Seq(Lane), lost : SUBSET Lane, applied : SUBSET Lane,
                  why : {"none", "moved", "conflict", "deferred", "git"}]

NoMerge == [step |-> "off", at |-> 0, nth |-> 0, current |-> <<>>, deferred |-> <<>>,
            lost |-> {}, applied |-> {}, why |-> "none"]

-----------------------------------------------------------------------------
Replayed(c) == [of |-> c, own |-> FALSE]
Original(c) == [of |-> c, own |-> TRUE]

\* _git_is_ancestor(c, "HEAD"): the commit itself is there, not a replay.
IsAncestor(c) == \E i \in DOMAIN head : head[i] = Original(c)

\* The change is there, under whatever commit.
Present(c) == \E i \in DOMAIN head : head[i].of = c

\* A lane that reports the base commit, or no head, has nothing to merge.
HasWork(l) == chain[l] # <<>>
LaneHead(l) == chain[l][Len(chain[l])]
Integrated(l) == HasWork(l) /\ IsAncestor(LaneHead(l))

\* git: the commit's own history is all the head has beyond the base, so the
\* pick starts from the tree the commit was made on.
OnItsOwnTree(l, n) ==
    /\ Len(head) = n - 1
    /\ \A i \in 1..(n - 1) : head[i].of = chain[l][i]

\* Pairs of lanes that share commits, as _preflight_lane_merge_conflicts finds.
SharedCommits ==
    {p \in (DOMAIN order) \X (DOMAIN order) :
        /\ p[1] < p[2]
        /\ \E i \in DOMAIN chain[order[p[1]]], j \in DOMAIN chain[order[p[2]]] :
                chain[order[p[1]]][i] = chain[order[p[2]]][j]}

-----------------------------------------------------------------------------
StartMerge ==
    /\ merge' = [NoMerge EXCEPT !.step = "gate", !.current = head]
    /\ record' = [l \in Lane |-> "pending"]
    /\ head' = head

Raise(why) == merge' = [merge EXCEPT !.step = "raised", !.why = why]

\* Mutant of Gate: a head that has moved is good enough.
OpenGate ==
    /\ merge.step = "gate"
    /\ merge' = [merge EXCEPT !.step = "first", !.at = 1, !.nth = 1]
    /\ UNCHANGED <<head, record>>

\* The head must be the base, unless every lane's work is already on it.
\* ("allow_head_mismatch" is a key no caller ever sets.)
Gate ==
    /\ merge.step = "gate"
    /\ IF head = <<>> \/ \A i \in DOMAIN order : HasWork(order[i]) => Integrated(order[i])
       THEN merge' = [merge EXCEPT !.step = "first", !.at = 1, !.nth = 1]
       ELSE Raise("moved")
    /\ UNCHANGED <<head, record>>

\* The lane being replayed: in the first pass the lanes in execution order, in
\* the second the deferred ones.
Passing == merge.step \in {"first", "second"}
Todo == IF merge.step = "first" THEN order ELSE merge.deferred
Replaying == Passing /\ merge.at <= Len(Todo)
Current == Todo[merge.at]

NextLane(m) == [m EXCEPT !.at = @ + 1, !.nth = 1]

\* A lane the first pass has nothing to replay for.
PassOver ==
    /\ merge.step = "first" /\ Replaying /\ merge.nth = 1
    /\ \/ ~HasWork(Current) /\ record' = [record EXCEPT ![Current] = "noop"]
       \/ /\ Integrated(Current)
          /\ record' = [record EXCEPT ![Current] = "already_integrated"]
    /\ merge' = NextLane(merge)
    /\ UNCHANGED head

InChain ==
    /\ Replaying /\ HasWork(Current) /\ merge.nth <= Len(chain[Current])
    /\ merge.step = "first" /\ merge.nth = 1 => ~Integrated(Current)

\* A commit of the chain that is itself on the head is not picked.
SkipAncestor ==
    /\ InChain
    /\ IsAncestor(chain[Current][merge.nth])
    /\ merge' = [merge EXCEPT !.nth = @ + 1]
    /\ UNCHANGED <<head, record>>

PickApplies ==
    /\ InChain
    /\ LET c == chain[Current][merge.nth]
       IN  /\ ~Present(c)
           /\ head' = Append(head, Replayed(c))
    /\ merge' = [merge EXCEPT !.nth = @ + 1, !.applied = @ \cup {Current}]
    /\ UNCHANGED record

\* The pick stops and is aborted.  What the chain's earlier commits left on the
\* head stays there.
PickFails ==
    /\ InChain
    /\ LET c == chain[Current][merge.nth]
       IN  ~IsAncestor(c) /\ (Present(c) \/ ~OnItsOwnTree(Current, merge.nth))

SkipLane ==
    /\ merge.step = "first" /\ PickFails /\ card.policy = "skip_lane"
    /\ record' = [record EXCEPT ![Current] = "skipped_conflict"]
    /\ merge' = NextLane(merge)
    /\ UNCHANGED head

DeferLane ==
    /\ merge.step = "first" /\ PickFails /\ card.policy = "defer_lane"
    /\ record' = [record EXCEPT ![Current] = "deferred_pending_retry"]
    /\ merge' = NextLane([merge EXCEPT !.deferred = Append(@, Current)])
    /\ UNCHANGED head

\* fail_fast: _restore_merge_head_after_failure, which may fail in turn.
FailFast ==
    /\ merge.step = "first" /\ PickFails /\ card.policy = "fail_fast"
    /\ \/ head' = <<>> /\ Raise("conflict")
       \/ head' = head /\ Raise("git")
    /\ UNCHANGED record

\* The end of a lane's chain.  Only here does the first pass note the new head.
LaneReplayed ==
    /\ merge.step = "first" /\ Replaying /\ HasWork(Current)
    /\ merge.nth = Len(chain[Current]) + 1
    /\ record' = [record EXCEPT ![Current] = IF Current \in merge.applied THEN "applied"
                                             ELSE "already_integrated"]
    /\ merge' = NextLane([merge EXCEPT !.current = head])
    /\ UNCHANGED head

FirstPassEnds ==
    /\ merge.step = "first" /\ merge.at > Len(order)
    /\ merge' = IF merge.deferred = <<>>
                THEN [merge EXCEPT !.step = "end"]
                ELSE [merge EXCEPT !.step = "second", !.at = 1, !.nth = 1]
    /\ UNCHANGED <<head, record>>

\* Mutant of DeferredConflict: the lane is only recorded, not counted.
DeferredConflictForgotten ==
    /\ merge.step = "second" /\ PickFails
    /\ record' = [record EXCEPT ![Current] = "deferred_conflict"]
    /\ merge' = NextLane([merge EXCEPT !.current = head])
    /\ UNCHANGED head

\* The second pass notes the head after every deferred lane, conflict or not.
DeferredConflict ==
    /\ merge.step = "second" /\ PickFails
    /\ record' = [record EXCEPT ![Current] = "deferred_conflict"]
    /\ merge' = NextLane([merge EXCEPT !.lost = @ \cup {Current}, !.current = head])
    /\ UNCHANGED head

DeferredReplayed ==
    /\ merge.step = "second" /\ Replaying /\ merge.nth = Len(chain[Current]) + 1
    /\ record' = [record EXCEPT ![Current] = IF Current \in merge.applied
                                             THEN "applied_after_defer"
                                             ELSE "already_integrated"]
    /\ merge' = NextLane([merge EXCEPT !.current = head])
    /\ UNCHANGED head

SecondPassEnds ==
    /\ merge.step = "second" /\ merge.at > Len(merge.deferred)
    /\ IF merge.lost = {} THEN merge' = [merge EXCEPT !.step = "end"] ELSE Raise("deferred")
    /\ UNCHANGED <<head, record>>

\* A git query fails (a timeout, a lock): the exception leaves what is there.
GitBreaks ==
    /\ merge.step = "gate" \/ Replaying
    /\ Raise("git")
    /\ UNCHANGED <<head, record>>

MergeStep ==
    \/ Gate \/ PassOver \/ SkipAncestor \/ PickApplies \/ SkipLane \/ DeferLane
    \/ FailFast \/ LaneReplayed \/ FirstPassEnds \/ DeferredConflict
    \/ DeferredReplayed \/ SecondPassEnds \/ GitBreaks
=============================================================================
