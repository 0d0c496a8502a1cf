------------------------------- MODULE Lanes -------------------------------
(***************************************************************************)
(* A round with lanes: the single-round child prepares one git worktree    *)
(* for each lane, sends the lanes of a stage to a pool of threads that     *)
(* each drive one worker, collects what they report, sends the lanes to    *)
(* their reviewers if the card says so, and merges (module LaneMerge).     *)
(*                                                                         *)
(* A step is what the child's main thread does between two points where a  *)
(* pool thread, a crash or another git user can matter, or what one pool   *)
(* thread does.  The parent is here only as far as it starts, spawns the   *)
(* child of the next round, and stops on a failed one.                     *)
(*                                                                         *)
(* state["lanes"] never reaches the disk by itself (_save_state does not   *)
(* compare it), so nothing a lane did outlives a crash but the worktrees   *)
(* and the integration head.  Nobody else moves that head while a merge is *)
(* running; before it the operator may.                                    *)
(***************************************************************************)
EXTENDS LaneMerge, SequencesExt

CONSTANTS Declared,      \* the lanes in the order the card declares them
          MaxWorkers,    \* config.max_parallel_workers
          MaxCommits     \* bound: the commits a worker makes in each lane

ASSUME LaneAssumption == MaxRounds \in Nat \ {0} /\ MaxFaults \in Nat
ASSUME PoolAssumption == MaxWorkers \in Nat \ {0, 1}
ASSUME CommitsAssumption == MaxCommits \in [Lane -> 1..2]
ASSUME DeclaredAssumption ==
    /\ Declared \in Seq(Lane) /\ ToSet(Declared) = Lane
    /\ \A i, j \in DOMAIN Declared : Declared[i] = Declared[j] => i = j
ASSUME NobodyAssumption == Nobody \notin Lane

\* _plan_lane_execution_stages: what is left when the stages run out is a cycle.
Acyclic(deps) == \A rest \in SUBSET Lane : rest # {} => \E l \in rest : deps[l] \cap rest = {}

ASSUME CardAssumption ==
    /\ Cards \subseteq [deps : [Lane -> SUBSET Lane], policy : Policies,
                        review : BOOLEAN, preserve : BOOLEAN]
    /\ \A c \in Cards : Acyclic(c.deps)

VARIABLES pc,            \* where the child's main thread is, or the parent
          round,
          try,           \* how many children have been spawned
          at,            \* the lane the main thread prepares a tree for
          ahead,         \* the lanes of the stages still to come
          waiting,       \* the lanes submitted whose results are not in
          tree,          \* the worktree of each round and lane
          lane,          \* lane_state[l]["status"]
          job,           \* the thread that dispatches the lane's worker
          verdict,       \* the thread that dispatches the lane's reviewer
          outcome,       \* how the run ended
          faults,        \* faults so far
          trouble        \* history: a removal of worktrees failed or was cut short

mainVars  == <<pc, round, try, at, ahead, waiting>>
laneVars  == <<lane, job, verdict, order, chain>>
faultVars == <<faults, trouble>>
vars == <<card, mergeVars, mainVars, laneVars, tree, outcome, faultVars>>

Rounds == 1..MaxRounds

\* `at` is the attempt that made the tree; git may list it without its directory.
Tree == [at : Attempts, dir : BOOLEAN, listed : BOOLEAN]
NoTree == [at |-> 0, dir |-> FALSE, listed |-> FALSE]
NewTree(k) == [at |-> k, dir |-> TRUE, listed |-> TRUE]

JobStates == {"none", "queued", "working", "done", "failed"}
Outcomes == {"none", "lane_worktree_setup_failed", "lane_dispatch_failed",
             "lane_review_rejected", "lane_merge_failed", "integration_checks_failed",
             "died", "approved", "max_rounds_exhausted"}

TypeOK ==
    /\ MergeTypeOK
    /\ pc \in {"stopped", "idle", "prepare", "stage", "collect", "reviews", "merge",
               "merged", "over"}
    /\ round \in Rounds
    /\ try \in Attempts
    /\ at \in Nat
    /\ ahead \subseteq Lane /\ waiting \subseteq Lane
    /\ tree \in [Rounds -> [Lane -> Tree]]
    /\ lane \in [Lane -> {"pending", "blocked", "running", "completed", "failed"}]
    /\ job \in [Lane -> JobStates]
    /\ verdict \in [Lane -> {"none", "queued", "running", "approve", "changes_required",
                             "failed"}]
    /\ outcome \in Outcomes
    /\ faults \in 0..MaxFaults /\ trouble \in BOOLEAN

EachLane(v) == [l \in Lane |-> v]

Init ==
    /\ card \in Cards
    /\ pc = "stopped" /\ round = 1 /\ try = 0 /\ at = 1
    /\ ahead = Lane /\ waiting = {}
    /\ tree = [r \in Rounds |-> EachLane(NoTree)]
    /\ lane = EachLane("pending") /\ job = EachLane("none") /\ verdict = EachLane("none")
    /\ order = <<>> /\ chain = EachLane(<<>>)
    /\ head = <<>> /\ record = EachLane("pending") /\ merge = NoMerge
    /\ outcome = "none" /\ faults = 0 /\ trouble = FALSE

-----------------------------------------------------------------------------
(* Stages: Kahn's algorithm over depends_on, each stage in declared order. *)

\* The lanes that depend on none of the lanes that are left.
NextStage(deps, left) == {l \in left : deps[l] \cap left = {}}

\* The sort key of a stage.
Before(k, l) == \E i, j \in DOMAIN Declared : i < j /\ Declared[i] = k /\ Declared[j] = l

-----------------------------------------------------------------------------
(* Worktrees.                                                              *)

Fault == faults < MaxFaults /\ faults' = faults + 1

\* What _cleanup_lane_worktrees_for_round leaves of a tree when `git worktree
\* remove` or rmtree fails: it logs or ignores that and goes on.
Remains(t) == {u \in Tree : /\ u.at = t.at /\ u.dir \in {t.dir, FALSE}
                            /\ u.listed \in {t.listed, FALSE} /\ (u.dir \/ u.listed)}

CleanTrees(ls) ==
    \/ /\ tree' = [tree EXCEPT ![round] = [l \in Lane |-> IF l \in ls THEN NoTree ELSE @[l]]]
       /\ UNCHANGED faultVars
    \/ /\ Fault /\ trouble' = TRUE
       /\ \E l \in ls : \E t \in Remains(tree[round][l]) :
             tree' = [tree EXCEPT ![round] = [m \in Lane |-> IF m = l THEN t
                                              ELSE IF m \in ls THEN NoTree ELSE @[m]]]

\* _prune_stale_worktrees: git forgets the trees that have no directory; then
\* every directory directly under .loop/worktrees that is not itself a listed
\* tree is removed.  Those are the directories of the tasks.
Pruned(t) == IF t.dir /\ t.listed THEN [t EXCEPT !.dir = FALSE] ELSE NoTree

\* Mutant of Cleanup: only a round that failed cleans up.
CleanupOfFailures ==
    IF card.preserve \/ pc = "merged" THEN UNCHANGED <<tree, faultVars>> ELSE CleanTrees(Lane)

\* _cleanup_lane_worktrees: a card that preserves trees keeps them in any case.
Cleanup == IF card.preserve THEN UNCHANGED <<tree, faultVars>> ELSE CleanTrees(Lane)

\* The end of the child's last round; the parent stops after it.
EndRun(o) ==
    /\ pc' = "over" /\ outcome' = o
    /\ Cleanup
    /\ UNCHANGED <<card, round, try, at, ahead, waiting, laneVars>>

-----------------------------------------------------------------------------
(* The parent.                                                             *)

ParentStarts ==
    /\ pc = "stopped"
    /\ pc' = "idle"
    /\ tree' = [r \in Rounds |-> [l \in Lane |-> Pruned(tree[r][l])]]
    /\ UNCHANGED <<card, mergeVars, round, try, at, ahead, waiting, laneVars, outcome, faultVars>>

Spawn ==
    /\ pc = "idle"
    /\ pc' = "prepare" /\ try' = try + 1 /\ at' = 1 /\ ahead' = Lane /\ waiting' = {}
    /\ lane' = EachLane("pending") /\ job' = EachLane("none") /\ verdict' = EachLane("none")
    /\ order' = <<>> /\ chain' = EachLane(<<>>)
    /\ merge' = NoMerge /\ record' = EachLane("pending")
    /\ UNCHANGED <<card, head, round, tree, outcome, faultVars>>

-----------------------------------------------------------------------------
(* The child prepares the trees.                                           *)

\* Mutant of MadeTree: a tree git still lists is used again.
ReusedTree(l) == IF tree[round][l].listed THEN tree[round][l] ELSE NewTree(try)

\* _create_lane_worktree: what there was is removed first.
MadeTree(l) == NewTree(try)

PrepareTree ==
    /\ pc = "prepare" /\ at <= Len(Declared)
    /\ tree' = [tree EXCEPT ![round][Declared[at]] = MadeTree(Declared[at])]
    /\ at' = at + 1
    /\ UNCHANGED <<card, mergeVars, pc, round, try, ahead, waiting, laneVars, outcome,
                   faultVars>>

\* `git worktree add` or the checkout fails, or what the removal left is in the
\* way: the trees made so far are removed, whatever the card says.
PrepareFails ==
    /\ pc = "prepare" /\ at <= Len(Declared)
    /\ Fault
    /\ pc' = "over" /\ outcome' = "lane_worktree_setup_failed"
    /\ \/ /\ tree' = [tree EXCEPT ![round] = [l \in Lane |->
                        IF l \in ToSet(SubSeq(Declared, 1, at)) THEN NoTree ELSE @[l]]]
          /\ UNCHANGED trouble
       \/ /\ trouble' = TRUE
          /\ \E t \in Remains(tree[round][Declared[at]]) :
                tree' = [tree EXCEPT ![round] = [l \in Lane |->
                           IF l = Declared[at] THEN t
                           ELSE IF l \in ToSet(SubSeq(Declared, 1, at)) THEN NoTree
                           ELSE @[l]]]
    /\ UNCHANGED <<card, mergeVars, round, try, at, ahead, waiting, laneVars>>

Prepared ==
    /\ pc = "prepare" /\ at > Len(Declared)
    /\ pc' = "stage"
    /\ UNCHANGED <<card, mergeVars, round, try, at, ahead, waiting, laneVars, tree, outcome,
                   faultVars>>

-----------------------------------------------------------------------------
(* Stages of lanes and the pool.                                           *)

\* Mutant of Blocked: a dependency that failed does not block.
BlockedByTheUnfinished(l) == \E d \in card.deps[l] : lane[d] \notin {"completed", "failed"}

\* _lane_dependency_blockers
Blocked(l) == \E d \in card.deps[l] : lane[d] # "completed"

Stage ==
    /\ pc = "stage" /\ ahead # {}
    /\ LET here == NextStage(card.deps, ahead)
           free == {l \in here : ~Blocked(l)}
       IN  /\ ahead' = ahead \ here /\ waiting' = free
           /\ lane' = [l \in Lane |-> IF l \in free THEN "running"
                                      ELSE IF l \in here THEN "blocked" ELSE lane[l]]
           /\ job' = [l \in Lane |-> IF l \in free THEN "queued" ELSE job[l]]
    /\ pc' = "collect"
    /\ UNCHANGED <<card, mergeVars, round, try, at, verdict, order, chain, tree, outcome,
                   faultVars>>

\* A pool may have fewer threads when it has fewer lanes, and then needs no more.
Busy(state) == Cardinality({l \in Lane : state[l] \in {"working", "running"}})

\* A thread of the pool takes the lane that was submitted first.
TakeJob(l) ==
    /\ job[l] = "queued"
    /\ Busy(job) < MaxWorkers
    /\ \A k \in Lane : job[k] = "queued" => ~Before(k, l)
    /\ job' = [job EXCEPT ![l] = "working"]
    /\ UNCHANGED <<card, mergeVars, mainVars, lane, verdict, order, chain, tree, outcome,
                   faultVars>>

OwnCommits(l) ==
    {[i \in 1..k |-> [lane |-> l, try |-> tree[round][l].at, n |-> i]] : k \in 0..MaxCommits[l]}

\* What the worker may leave on the lane's branch: a few commits of its own
\* (or one made for it by the outer commit), on the base or on what a lane it
\* depends on has reported.
Chains(l) == OwnCommits(l)
             \cup {chain[d] \o own : d \in card.deps[l], own \in OwnCommits(l)}

\* _dispatch_lane returns a report that names the head of the lane.
WorkerDone(l) ==
    /\ job[l] = "working"
    /\ job' = [job EXCEPT ![l] = "done"]
    /\ \E c \in Chains(l) : chain' = [chain EXCEPT ![l] = c]
    /\ UNCHANGED <<card, mergeVars, mainVars, lane, verdict, order, tree, outcome, faultVars>>

\* _dispatch_lane raises: the dispatch, the report or its commit was no good.
WorkerFails(l) ==
    /\ job[l] = "working"
    /\ job' = [job EXCEPT ![l] = "failed"]
    /\ UNCHANGED <<card, mergeVars, mainVars, lane, verdict, order, chain, tree, outcome,
                   faultVars>>

Finished(l) == job[l] \in {"done", "failed"}

\* Mutants of NextResult: results are taken as they come; a failed lane's future
\* is never done.
AnyResult == {l \in waiting : Finished(l)}
NextReport == {l \in waiting : job[l] = "done" /\ \A k \in waiting : ~Before(k, l)}

\* The main thread waits for the futures in the order it submitted them.
NextResult == {l \in waiting : Finished(l) /\ \A k \in waiting : ~Before(k, l)}

Collect ==
    /\ pc = "collect"
    /\ \E l \in NextResult :
           /\ lane' = [lane EXCEPT ![l] = IF job[l] = "done" THEN "completed" ELSE "failed"]
           /\ order' = IF job[l] = "done" THEN Append(order, l) ELSE order
           /\ waiting' = waiting \ {l}
    /\ UNCHANGED <<card, mergeVars, pc, round, try, at, ahead, job, verdict, chain, tree, outcome,
                   faultVars>>

StageEnds ==
    /\ pc = "collect" /\ waiting = {}
    /\ pc' = "stage"
    /\ UNCHANGED <<card, mergeVars, round, try, at, ahead, waiting, laneVars, tree, outcome,
                   faultVars>>

StagesDone == pc = "stage" /\ ahead = {}

LanesFailed ==
    /\ StagesDone
    /\ \E l \in Lane : lane[l] = "failed"
    /\ EndRun("lane_dispatch_failed")
    /\ UNCHANGED mergeVars

LanesDone == StagesDone /\ \A l \in Lane : lane[l] # "failed"

-----------------------------------------------------------------------------
(* Lane reviews.                                                           *)

FanOut ==
    /\ LanesDone /\ card.review /\ order # <<>>
    /\ pc' = "reviews"
    /\ verdict' = [l \in Lane |-> IF l \in ToSet(order) THEN "queued" ELSE verdict[l]]
    /\ UNCHANGED <<card, mergeVars, round, try, at, ahead, waiting, lane, job, order, chain, tree,
                   outcome, faultVars>>

TakeReview(l) ==
    /\ verdict[l] = "queued"
    /\ Busy(verdict) < MaxWorkers
    /\ \A i, j \in DOMAIN order : order[j] = l /\ i < j => verdict[order[i]] # "queued"
    /\ verdict' = [verdict EXCEPT ![l] = "running"]
    /\ UNCHANGED <<card, mergeVars, mainVars, lane, job, order, chain, tree, outcome,
                   faultVars>>

Reviewed(l) ==
    /\ verdict[l] = "running"
    /\ \E v \in {"approve", "changes_required", "failed"} :
          verdict' = [verdict EXCEPT ![l] = v]
    /\ UNCHANGED <<card, mergeVars, mainVars, lane, job, order, chain, tree, outcome,
                   faultVars>>

ReviewsIn == /\ pc = "reviews"
             /\ \A i \in DOMAIN order :
                    verdict[order[i]] \in {"approve", "changes_required", "failed"}

\* Mutant of ReviewsApprove: a review that failed rejects nothing.
NoReviewRejects == \A i \in DOMAIN order : verdict[order[i]] # "changes_required"

\* The gate is the list of failures: a failed review is one as much as a decision.
ReviewsApprove == \A i \in DOMAIN order : verdict[order[i]] = "approve"

LanesRejected ==
    /\ ReviewsIn /\ ~ReviewsApprove
    /\ EndRun("lane_review_rejected")
    /\ UNCHANGED mergeVars

-----------------------------------------------------------------------------
(* The merge and the acceptance checks.                                    *)

BeginMerge ==
    /\ \/ LanesDone /\ ~(card.review /\ order # <<>>)
       \/ ReviewsIn /\ ReviewsApprove
    /\ StartMerge
    /\ pc' = "merge"
    /\ UNCHANGED <<card, round, try, at, ahead, waiting, laneVars, tree, outcome, faultVars>>

Merging ==
    /\ pc = "merge"
    /\ MergeStep
    /\ UNCHANGED <<card, mainVars, laneVars, tree, outcome, faultVars>>

MergeRaised ==
    /\ pc = "merge" /\ merge.step = "raised"
    /\ EndRun("lane_merge_failed")
    /\ UNCHANGED mergeVars

\* _run_integration_acceptance_checks, of which only the first can be false of
\* what the merge returned.
HeadMatches == head = merge.current

ChecksFail ==
    /\ pc = "merge" /\ merge.step = "end" /\ ~HeadMatches
    /\ EndRun("integration_checks_failed")
    /\ UNCHANGED mergeVars

\* git fails while the head is read: nothing catches that RuntimeError.
ChecksBreak ==
    /\ pc = "merge" /\ merge.step = "end"
    /\ Fault /\ trouble' = TRUE
    /\ pc' = "over" /\ outcome' = "died"
    /\ UNCHANGED <<card, mergeVars, round, try, at, ahead, waiting, laneVars, tree>>

\* The merged report is written; the trees go when the round's review is done.
ChecksPass ==
    /\ pc = "merge" /\ merge.step = "end" /\ HeadMatches
    /\ pc' = "merged"
    /\ UNCHANGED <<card, mergeVars, round, try, at, ahead, waiting, laneVars, tree, outcome,
                   faultVars>>

\* The round's own review, for which see RunLoop.
Approve ==
    /\ pc = "merged"
    /\ EndRun("approved")
    /\ UNCHANGED mergeVars

\* Mutant of RoundsLeft: one round too many.
RoundsAndOneLeft == round < MaxRounds + 1

RoundsLeft == round < MaxRounds

AskAgain ==
    /\ pc = "merged"
    /\ Cleanup
    /\ IF RoundsLeft THEN pc' = "idle" /\ round' = round + 1 /\ UNCHANGED outcome
       ELSE pc' = "over" /\ outcome' = "max_rounds_exhausted" /\ UNCHANGED round
    /\ UNCHANGED <<card, mergeVars, try, at, ahead, waiting, laneVars>>

-----------------------------------------------------------------------------
(* Faults.                                                                 *)

\* The host goes down between two steps; --resume then runs the round again.
Crash ==
    /\ pc \notin {"stopped", "over"}
    /\ Fault
    /\ pc' = "stopped"
    /\ trouble' = trouble
    /\ lane' = EachLane("pending") /\ job' = EachLane("none") /\ verdict' = EachLane("none")
    /\ order' = <<>> /\ chain' = EachLane(<<>>)
    /\ merge' = NoMerge /\ record' = EachLane("pending")
    /\ at' = 1 /\ ahead' = Lane /\ waiting' = {}
    /\ UNCHANGED <<card, head, round, try, tree, outcome>>

\* The operator commits on the integration branch, or merges a finished lane.
MoveHead ==
    /\ pc \in {"collect", "reviews"}
    /\ Fault /\ UNCHANGED trouble
    /\ \/ head' = Append(head, Original([lane |-> Nobody, try |-> try, n |-> 1]))
       \/ \E l \in Lane :
             /\ lane[l] = "completed" /\ head = <<>> /\ HasWork(l)
             /\ head' = [i \in DOMAIN chain[l] |-> Original(chain[l][i])]
    /\ UNCHANGED <<card, record, merge, mainVars, laneVars, tree, outcome>>

\* The same card is run again: its base is the head as it is now.
RunAgain ==
    /\ pc = "over" /\ Fault
    /\ pc' = "stopped" /\ round' = 1
    /\ head' = <<>> /\ merge' = NoMerge /\ record' = EachLane("pending")
    /\ outcome' = "none"
    /\ UNCHANGED <<card, try, at, ahead, waiting, laneVars, tree, trouble>>

Over == pc = "over" /\ UNCHANGED vars

Pool(l) ==
    \/ TakeJob(l) \/ WorkerDone(l) \/ WorkerFails(l) \/ TakeReview(l) \/ Reviewed(l)

Main ==
    \/ ParentStarts \/ Spawn \/ PrepareTree \/ PrepareFails \/ Prepared
    \/ Stage \/ Collect \/ StageEnds \/ LanesFailed
    \/ FanOut \/ LanesRejected
    \/ BeginMerge \/ Merging \/ MergeRaised \/ ChecksFail \/ ChecksBreak \/ ChecksPass
    \/ Approve \/ AskAgain

Next == Main \/ (\E l \in Lane : Pool(l)) \/ Crash \/ MoveHead \/ RunAgain \/ Over

Spec == Init /\ [][Next]_vars

\* The child runs, and every dispatch ends: there is a dispatch_timeout (the default
\* is none) and agents obey SIGTERM, so that one that does not answer has failed.
Fairness == WF_vars(Main) /\ \A l \in Lane : WF_vars(Pool(l))

FairSpec == Spec /\ Fairness
-----------------------------------------------------------------------------
(* Properties.                                                             *)

\* A lane's worker is not sent before every lane it depends on has completed:
\* what it may build on is there (_lane_dependency_blockers and the stages).
DependenciesCompleteFirst ==
    \A l \in Lane : job[l] # "none" => \A d \in card.deps[l] : lane[d] = "completed"

\* A worker runs in a tree that its own attempt has made, never in one that a
\* crash, an earlier run or a failed removal has left (_create_lane_worktree).
TreesAreFresh ==
    \A l \in Lane : job[l] = "working" => tree[round][l] = NewTree(try)

\* No part of a round is merged: every lane of the card has completed and, where
\* the card asks for lane reviews, every one approved (the lane_failures and
\* lane_review_failures gates).
OnlyWholeRoundsMerge ==
    pc = "merge" => \A l \in Lane : /\ lane[l] = "completed"
                                    /\ card.review => verdict[l] = "approve"

\* A numbering of stages that is right for a lane: the first if it depends on
\* none, else the one after the last of those it depends on.
RightStage(stage, l) ==
    /\ \A d \in card.deps[l] : stage[d] < stage[l]
    /\ stage[l] = 1 \/ \E d \in card.deps[l] : stage[d] = stage[l] - 1

\* Earlier in lane_execution_order: an earlier stage, or the same and declared first.
Precedes(stage, k, l) == stage[k] < stage[l] \/ (stage[k] = stage[l] /\ Before(k, l))

\* lane_execution_order has the completed lanes in the order of the stages and in
\* each in the declared one, however their workers finish: the card and the set
\* of lanes that complete determine it.
OrderIsDeterministic ==
    /\ ToSet(order) = {l \in Lane : lane[l] = "completed"}
    /\ \E stage \in [Lane -> 1..Cardinality(Lane)] :
          /\ \A l \in ToSet(order) : RightStage(stage, l)
          /\ \A i, j \in DOMAIN order : i < j => Precedes(stage, order[i], order[j])

\* A round goes to its reviewer with all the commits of every lane that is not
\* recorded as skipped, and with none of a lane that found nothing to do.
MergedIsWhole ==
    pc = "merged" => \A l \in Lane :
        /\ record[l] \notin {"pending", "deferred_pending_retry", "deferred_conflict"}
        /\ record[l] # "skipped_conflict" => \A i \in DOMAIN chain[l] : Present(chain[l][i])

\* What a failed replay resets away, the replay itself had put there: a commit
\* of the operator's, of an earlier round or of an earlier attempt is never lost
\* (_restore_merge_head_after_failure behind the head check of the merge).
ResetLosesNothing ==
    [][\A i \in DOMAIN head :
          ~(i \in DOMAIN head' /\ head'[i] = head[i]) /\ pc = "merge"
              => ~head[i].own /\ head[i].of.try = try]_vars

\* A card that does not preserve its worktrees leaves none behind in any round,
\* unless their removal failed or the round could not even prepare them
\* (_cleanup_lane_worktrees, on every way out).
NoTreeIsLeft ==
    pc = "over" /\ ~card.preserve /\ ~trouble /\ outcome # "lane_worktree_setup_failed"
        => \A r \in Rounds, l \in Lane : tree[r][l] = NoTree

\* With a dispatch_timeout above 0 every round ends, whatever its lanes and reviewers
\* answer: the main thread waits for every future, and every future has a result.
EveryRoundEnds == (pc = "idle") ~> (pc \in {"over", "stopped"})

\* README.md:81: "If changes are needed, the loop repeats (up to
\* `--max-rounds`)".  A merge is refused for the place of the head only when
\* somebody else has moved it.
LaterRoundsMerge ==
    outcome = "lane_merge_failed" /\ faults = 0 => merge.why # "moved"
=============================================================================
