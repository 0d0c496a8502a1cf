---------------------------- MODULE StateMachine ----------------------------
(***************************************************************************)
(* The round state machine of loop_kit: the contract kept in state.json    *)
(* and the table of transitions every write of it goes through             *)
(* (STATE_TRANSITIONS, _apply_state_transition, _save_state).              *)
(*                                                                         *)
(* The module has no variables.  RunLoop applies these operators to the    *)
(* copies of the contract its processes hold in memory and to the file.    *)
(*                                                                         *)
(* Data abstraction.  A run id is a number, 0 is "no run_id"; base_sha is  *)
(* written only together with a new run_id and is left out; a commit is a  *)
(* number, 0 is "no head_sha, or base_sha"; round_details is the function  *)
(* from rounds to the decision recorded for them.  A missing state.json    *)
(* reads as Blank, which is what _load_state returns for it.               *)
(***************************************************************************)
EXTENDS Integers

CONSTANTS
    Tasks,      \* task ids
    NoTask,     \* state["task_id"] is None
    MaxRounds,  \* config.max_rounds
    MaxRuns,    \* bound: run ids generated in a behaviour
    MaxHeads    \* bound: distinct commits the worker can report

ASSUME RoundsAssumption == MaxRounds \in Nat \ {0}
ASSUME RunsAssumption   == MaxRuns \in Nat
ASSUME HeadsAssumption  == MaxHeads \in Nat
ASSUME TaskAssumption   == NoTask \notin Tasks

Phases == {"idle", "awaiting_work", "awaiting_review", "done"}

SuccessOutcomes == {"approved", "no_change_success"}

(* What the code tells apart further is folded: worker_ and                 *)
(* reviewer_dispatch_failed are dispatch_failed; invalid_work_ and          *)
(* invalid_review_report are invalid_report; git_compare_failed and a ref   *)
(* that does not resolve are validation_failure; dependency_cycle and       *)
(* invalid_task_dependencies are blocked_dependencies.                      *)
FailureOutcomes ==
    {"worker_timeout", "reviewer_timeout", "max_rounds_exhausted",
     "dispatch_failed", "invalid_report", "validation_failure",
     "state_task_mismatch", "blocked_dependencies", "single_round_failed",
     "state_contract_mismatch", "invalid_state_transition",
     "invalid_resume_state", "interrupted"}

Outcomes == {"none"} \cup SuccessOutcomes \cup FailureOutcomes

Decisions == {"none", "approve", "changes_required", "no_change"}

Rounds == 0 .. MaxRounds + 1     \* 0 is the round of a default state
Runs   == 0 .. MaxRuns
Heads  == 0 .. MaxHeads

NoDetails == [n \in Rounds |-> "none"]

(* The contract of one loop directory. *)
Contract ==
    [phase   : Phases,
     round   : Rounds,
     task    : Tasks \cup {NoTask},
     run     : Runs,
     outcome : Outcomes,
     head    : Heads,
     details : [Rounds -> Decisions]]

(* _default_state, and what _load_state returns when there is no file. *)
Blank ==
    [phase |-> "idle", round |-> 0, task |-> NoTask, run |-> 0,
     outcome |-> "none", head |-> 0, details |-> NoDetails]

-----------------------------------------------------------------------------
(* One row of STATE_TRANSITIONS: the phases it may leave, the phase it      *)
(* enters, the rounds it advances, whether it clears the stale keys         *)
(* (outcome, failed_at, error, head_sha, round_details), and its default    *)
(* outcome.                                                                 *)
Rule(from, to, delta, clears, outcome) ==
    [from |-> from, to |-> to, delta |-> delta, clears |-> clears,
     outcome |-> outcome]

Transitions ==
    [bootstrap |->
        Rule(Phases, "awaiting_work", 0, TRUE, "none"),
     prepare_round |->
        Rule(Phases, "awaiting_work", 0, TRUE, "none"),
     worker_completed |->
        Rule({"awaiting_work"}, "awaiting_review", 0, FALSE, "none"),
     worker_no_change_success |->
        Rule({"awaiting_work"}, "done", 0, FALSE, "no_change_success"),
     worker_timeout |->
        Rule({"awaiting_work"}, "done", 0, FALSE, "worker_timeout"),
     reviewer_approved |->
        Rule({"awaiting_review"}, "done", 0, FALSE, "approved"),
     reviewer_changes_required |->
        Rule({"awaiting_review"}, "awaiting_work", 1, TRUE, "none"),
     reviewer_timeout |->
        Rule({"awaiting_review"}, "done", 0, FALSE, "reviewer_timeout"),
     max_rounds_exhausted |->
        Rule({"awaiting_work", "awaiting_review"}, "done", 0, FALSE,
             "max_rounds_exhausted"),
     terminal_error |->
        Rule(Phases, "done", 0, FALSE, "none")]

(* The guard of _apply_state_transition: anything else is a StateError. *)
Allowed(s, trigger) == s.phase \in Transitions[trigger].from

(* The contract in memory after the row has been applied; the caller's      *)
(* `updates` are written over the result.                                   *)
Moved(s, trigger) ==
    LET row == Transitions[trigger]
    IN  [s EXCEPT !.phase   = row.to,
                  !.round   = s.round + row.delta,
                  !.outcome = IF row.outcome # "none" THEN row.outcome
                              ELSE IF row.clears THEN "none" ELSE s.outcome,
                  !.head    = IF row.clears THEN 0 ELSE s.head,
                  !.details = IF row.clears THEN NoDetails ELSE s.details]

(* Mutant of Bootstrapped: the run id of the run before is kept. *)
BootstrappedKeepingRun(s, task, run) ==
    [Moved(s, "bootstrap") EXCEPT !.round = 1, !.task = task]

(* The updates the callers pass. *)
Bootstrapped(s, task, run) ==
    [Moved(s, "bootstrap") EXCEPT !.round = 1, !.task = task, !.run = run]

(* Mutant of Prepared: the round restarts from 1. *)
PreparedFromOne(s, run, round) ==
    [Moved(s, "prepare_round") EXCEPT
        !.round = 1, !.run = run, !.head = s.head, !.details = s.details]

Prepared(s, run, round) ==
    [Moved(s, "prepare_round") EXCEPT
        !.round = round, !.run = run,
        !.head = s.head, !.details = s.details]

(* Mutant of Submitted: head_sha is not among the updates. *)
SubmittedWithoutHead(s, head) == Moved(s, "worker_completed")

Submitted(s, head) == [Moved(s, "worker_completed") EXCEPT !.head = head]

NoChange(s) ==      \* head_sha becomes base_sha, which is commit 0
    [Moved(s, "worker_no_change_success") EXCEPT !.head = 0]

Approved(s) == Moved(s, "reviewer_approved")

(* Mutant of Retried: round_details is not carried over. *)
RetriedWithoutDetails(s) ==
    [Moved(s, "reviewer_changes_required") EXCEPT !.head = s.head]

Retried(s) ==
    [Moved(s, "reviewer_changes_required") EXCEPT
        !.head = s.head, !.details = s.details]

Failed(s, outcome) == [Moved(s, "terminal_error") EXCEPT !.outcome = outcome]

(* round_details with this round's entry replaced. *)
Recorded(s, decision) == [s EXCEPT !.details[s.round] = decision]

(* _save_state writes nothing when the keys it compares are unchanged;      *)
(* round_details, error and the timestamps are not among them.              *)
SameContract(s, t) ==
    /\ s.phase = t.phase
    /\ s.round = t.round
    /\ s.outcome = t.outcome
    /\ s.task = t.task
    /\ s.run = t.run
    /\ s.head = t.head

Saved(file, s) == IF SameContract(file, s) THEN file ELSE s

(* Mutants of TerminalSuccess: any end is a success; only one outcome is. *)
TerminalAtAll(s) == s.phase = "done"

TerminalNoChange(s) == s.phase = "done" /\ s.outcome = "no_change_success"

(* _is_post_round_terminal_success, _is_post_round_awaiting_next. *)
TerminalSuccess(s) == s.phase = "done" /\ s.outcome \in SuccessOutcomes

AwaitingNext(s, round) == s.phase = "awaiting_work" /\ s.round = round + 1
=============================================================================
