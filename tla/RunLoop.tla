------------------------------ MODULE RunLoop ------------------------------
(***************************************************************************)
(* `loop run`: the parent loop (cmd_run, _run_multi_round_via_subprocess), *)
(* the single-round child it spawns for every round (_run_single_round and *)
(* its phase handlers), and the worker and reviewer agents that answer     *)
(* through files, all working on one loop directory.                       *)
(*                                                                         *)
(* Parent and child never talk: the child gets its round on the command    *)
(* line, both read and write state.json, task_card.json, the bus files and *)
(* summary.json, and the parent learns an exit code.  A step of this       *)
(* module is what a process does between two points where another process  *)
(* or a crash can matter; the crash actions may fall between any two.      *)
(*                                                                         *)
(* The repo lock keeps two parents apart (module LoopLocks); a child holds *)
(* no lock, so one whose parent was killed may still be running when the   *)
(* next parent starts.  _log flushes a line into the pipe the parent       *)
(* reads, so such an orphan dies at its next _log: the actions that log    *)
(* before they write require Piped.                                        *)
(*                                                                         *)
(* The child's own attempt to archive state.json (_archive_single_round_   *)
(* state) is left out: the parent has archived the round when it spawned   *)
(* the child (SpawnRound), so the child finds the archive and returns.     *)
(*                                                                         *)
(* Scope: manual or serial dispatch of one card at a time (no lanes), no   *)
(* session budget, no backend sessions; the dependency snapshot, the       *)
(* no-change evidence and the git checks after the worker are choices.     *)
(***************************************************************************)
EXTENDS StateMachine, FiniteSets

CONSTANTS
    Slots,           \* child processes that can exist at once: one and orphans
    MaxInvocations,  \* bound: `loop run` commands in a behaviour
    MaxFaults,       \* bound: crashes, kills and interrupts in a behaviour
    Faults,          \* the kinds of fault that may happen
    Flags,           \* the (resume, reset, clean_stale) flags operators use
    External,        \* BOOLEAN values of "--task names a card outside .loop"
    NoopAsError      \* config.worker_noop_as_error

ASSUME LimitsAssumption == MaxInvocations \in Nat /\ MaxFaults \in Nat
ASSUME FaultsAssumption ==
    Faults \subseteq {"host", "parent", "child", "interrupt"}
ASSUME FlagsAssumption ==
    Flags \subseteq [resume : BOOLEAN, reset : BOOLEAN, clean : BOOLEAN]
ASSUME SwitchAssumption == External \subseteq BOOLEAN /\ NoopAsError \in BOOLEAN

VARIABLES
    st,      \* state.json
    card,    \* .loop/task_card.json
    src,     \* status in the external task cards
    work,    \* work_report.json
    rev,     \* review_report.json
    fix,     \* fix_list.json
    summary, \* summary.json
    out,     \* the --outcome-file
    par,     \* the parent process
    kid,     \* the single-round children
    jobs,    \* what workers and reviewers have been asked and not answered
    okd,     \* history: approvals given, with the commit they were asked about
    nrun,    \* run ids generated so far
    ninv,    \* invocations so far
    nflt     \* faults so far

files == <<st, card, src, work, rev, fix, summary, out>>
vars  == <<files, par, kid, jobs, okd, nrun, ninv, nflt>>

-----------------------------------------------------------------------------
(* Types and initial state.                                                *)

Status   == {"absent", "todo", "in_progress", "done", "blocked"}
Bad      == MaxHeads + 1           \* a report _validate_report rejects
Verdicts == {"approve", "changes_required", "bad"}

Card    == [task : Tasks \cup {NoTask}, status : Status]
WorkRep == [task : Tasks \cup {NoTask}, run : Runs, round : Rounds,
            head : 0 .. Bad]
RevRep  == [task : Tasks \cup {NoTask}, run : Runs, round : Rounds,
            verdict : Verdicts]
FixList == [run : Runs, round : Rounds]
Summary == [run : Runs, round : Rounds, outcome : Outcomes]
Job     == [role : {"worker", "reviewer"}, task : Tasks \cup {NoTask},
            run : Runs, round : Rounds, head : Heads]
Approval == [run : Runs, round : Rounds, head : Heads]

(* run = 0 in a bus file means that the file does not exist.               *)
NoCard    == [task |-> NoTask, status |-> "absent"]
NoWork    == [task |-> NoTask, run |-> 0, round |-> 0, head |-> 0]
NoReview  == [task |-> NoTask, run |-> 0, round |-> 0, verdict |-> "bad"]
NoFix     == [run |-> 0, round |-> 0]
NoSummary == [run |-> 0, round |-> 0, outcome |-> "none"]

(* Exit codes; 1 also stands for an uncaught exception, 137 for a kill.    *)
ExitCodes == {0, 1, 2, 3, 4, 5, 6, 130, 137}

ParentPc ==
    {"none", "start", "resume", "mark", "loop", "wait", "interrupted",
     "failing", "blocking"}

Parent ==
    [pc : ParentPc, ext : BOOLEAN, resume : BOOLEAN, clean : BOOLEAN,
     task : Tasks \cup {NoTask}, run : Runs, round : Rounds,
     mem : Contract, intr : BOOLEAN, rc : ExitCodes]

(* No parent is running; rc is the exit code of the last one.              *)
Gone(rc) ==
    [pc |-> "none", ext |-> FALSE, resume |-> FALSE, clean |-> FALSE,
     task |-> NoTask, run |-> 0, round |-> 0, mem |-> Blank,
     intr |-> FALSE, rc |-> rc]

KidPc ==
    {"free", "begin", "loaded", "prepared", "work", "worked", "requested",
     "review", "approving", "retrying", "retried", "success", "summing",
     "returning", "failing", "blocking", "exited"}

Kid ==
    [pc : KidPc, orphan : BOOLEAN, round : Rounds, mem : Contract,
     head : Heads, rc : ExitCodes]

Free == [pc |-> "free", orphan |-> FALSE, round |-> 0, mem |-> Blank,
         head |-> 0, rc |-> 0]

TypeOK ==
    /\ st \in Contract
    /\ card \in Card
    /\ src \in [Tasks -> Status]
    /\ work \in WorkRep
    /\ rev \in RevRep
    /\ fix \in FixList
    /\ summary \in Summary
    /\ out \in Summary
    /\ par \in Parent
    /\ kid \in [Slots -> Kid]
    /\ jobs \subseteq Job
    /\ okd \subseteq Approval
    /\ nrun \in Runs
    /\ ninv \in 0 .. MaxInvocations
    /\ nflt \in 0 .. MaxFaults

Init ==
    /\ st = Blank
    /\ card \in {NoCard} \cup [task : Tasks, status : {"todo"}]
    /\ src = [t \in Tasks |-> "todo"]
    /\ work = NoWork
    /\ rev = NoReview
    /\ fix = NoFix
    /\ summary = NoSummary
    /\ out = NoSummary
    /\ par = Gone(0)
    /\ kid = [s \in Slots |-> Free]
    /\ jobs = {}
    /\ okd = {}
    /\ nrun = 0
    /\ ninv = 0
    /\ nflt = 0

-----------------------------------------------------------------------------
(* Files.                                                                  *)

Exists(a) == a.run # 0

(* _archive_bus_file refuses a report of another task, another run or a    *)
(* later round; _prepare_bus_file then raises before it unlinks.           *)
Foreign(a, task, run, round) ==
    Exists(a) /\ (a.task # task \/ a.run # run \/ a.round > round)

Clash(task, run, round) ==
    Foreign(work, task, run, round) \/ Foreign(rev, task, run, round)

(* _prepare_bus_file on work_report.json, then on review_report.json.      *)
DropReports(task, run, round) ==
    /\ work' = IF Foreign(work, task, run, round) THEN work ELSE NoWork
    /\ rev'  = IF Clash(task, run, round) THEN rev ELSE NoReview

(* Mutant of Matches: only the task is compared.                           *)
MatchesTask(a, s) == Exists(a) /\ a.task = s.task

(* _candidate_if_matching_identity in _wait_for_file.                      *)
Matches(a, s) == Exists(a) /\ a.task = s.task /\ a.run = s.run /\ a.round = s.round

(* _detect_stale_run_artifacts: a run's file left where another run begins. *)
StaleArtifacts(s) == \E a \in {work.run, rev.run, summary.run} : a \notin {0, s.run}

(* The contract of a round in progress, what cmd_run calls stale.          *)
InFlight(s) == s.phase \in {"awaiting_work", "awaiting_review"}

(* _reset_bus and _clean_stale_loop_state; both leave the archive alone.   *)
RemoveBusFiles ==
    /\ work' = NoWork
    /\ rev' = NoReview
    /\ fix' = NoFix
    /\ summary' = NoSummary

(* _write_task_card_status on .loop/task_card.json and on the card the     *)
(* command named; a child is given .loop/task_card.json as its card.       *)
SetBusCard(status) ==
    card' = IF card = NoCard THEN card ELSE [card EXCEPT !.status = status]

(* Mutant of SetCards: the card in the loop directory is left to the child.*)
SetSourceCard(status) ==
    /\ src' = IF par.ext THEN [src EXCEPT ![par.task] = status] ELSE src
    /\ UNCHANGED card

SetCards(status) ==
    /\ SetBusCard(status)
    /\ src' = IF par.ext THEN [src EXCEPT ![par.task] = status] ELSE src

(* _copy_outcome_file.                                                     *)
CopyOutcome == out' = IF summary = NoSummary THEN out ELSE summary

-----------------------------------------------------------------------------
(* The parent: cmd_run and _run_multi_round_via_subprocess.                *)

ParentOnly == UNCHANGED <<kid, jobs, okd, nflt>>

(* _fail_with_state: the terminal_error transition here, the card and the  *)
(* summary in FailTail.                                                    *)
Fail(s, outcome, rc) ==
    /\ st' = Saved(st, Failed(s, outcome))
    /\ par' = [par EXCEPT !.pc = "failing", !.mem = Failed(s, outcome), !.rc = rc]

(* cmd_run up to the resume check: --reset removes the bus files, the card *)
(* in .loop among them, before the card is copied from its source.         *)
Invoke(t, ext, f, dirty) ==
    /\ par.pc = "none"
    /\ ninv < MaxInvocations
    /\ ext \/ card.task = t
    /\ card' = IF ext THEN [task |-> t, status |-> src[t]]
               ELSE IF f.reset THEN NoCard ELSE card
    /\ IF f.reset THEN st' = Blank /\ RemoveBusFiles
                  ELSE UNCHANGED <<st, work, rev, fix, summary>>
    /\ par' = IF dirty THEN Gone(4)
              ELSE [Gone(0) EXCEPT !.pc = IF f.resume THEN "resume" ELSE "start",
                                   !.ext = ext, !.resume = f.resume,
                                   !.clean = f.clean, !.task = t]
    /\ ninv' = ninv + 1
    /\ UNCHANGED <<src, out, nrun>>
    /\ ParentOnly

(* --resume on a finished run only repeats the card status.                *)
ResumeRefused ==
    /\ par.pc = "resume"
    /\ st.phase = "done"
    /\ SetCards(IF TerminalSuccess(st) THEN "done" ELSE "blocked")
    /\ par' = Gone(IF TerminalSuccess(st) THEN 0 ELSE 3)
    /\ UNCHANGED <<st, work, rev, fix, summary, out, nrun, ninv>>
    /\ ParentOnly

(* Without --resume: what is in flight is resumed or cleaned away.         *)
Decide ==
    /\ par.pc = "start"
    /\ ~par.resume
    /\ InFlight(st) /\ ~par.clean
    /\ st.phase = "awaiting_review" \/ st.round > 1
    /\ par' = [par EXCEPT !.pc = "resume", !.resume = TRUE]
    /\ UNCHANGED <<files, nrun, ninv>>
    /\ ParentOnly

CleansStale ==
    InFlight(st) /\ (par.clean \/ (st.phase = "awaiting_work" /\ st.round <= 1))

StartsFresh == par.pc = "start" /\ (InFlight(st) => CleansStale)

StartState == IF CleansStale THEN Blank ELSE st

CleanIfStale ==
    IF CleansStale THEN RemoveBusFiles ELSE UNCHANGED <<work, rev, fix, summary>>

Bootstrap ==
    /\ StartsFresh
    /\ card # NoCard
    /\ nrun < MaxRuns
    /\ CleanIfStale
    /\ LET m == Bootstrapped(StartState, par.task, nrun + 1)
       IN  /\ st' = Saved(StartState, m)
           /\ par' = [par EXCEPT !.pc = "mark", !.run = nrun + 1, !.round = 1,
                                 !.mem = m]
    /\ nrun' = nrun + 1
    /\ UNCHANGED <<card, src, out, ninv>>
    /\ ParentOnly

(* _enforce_dependencies_or_fail, on the state of the run before.          *)
BlockedByDependencies(s, task, round) ==
    [s EXCEPT !.task = IF s.task = NoTask THEN task ELSE s.task,
              !.round = IF s.round < 1 THEN round ELSE s.round]

BootstrapBlocked ==
    /\ StartsFresh
    /\ card # NoCard
    /\ CleanIfStale
    /\ LET m == Failed(BlockedByDependencies(StartState, par.task, 1),
                       "blocked_dependencies")
       IN  /\ st' = Saved(StartState, m)
           /\ par' = [par EXCEPT !.pc = "failing", !.mem = m, !.rc = 3]
    /\ UNCHANGED <<card, src, out, nrun, ninv>>
    /\ ParentOnly

(* _load_task_card exits 1: --reset has removed the only card there was.   *)
BootstrapNoCard ==
    /\ StartsFresh
    /\ card = NoCard
    /\ CleanIfStale
    /\ st' = StartState
    /\ par' = Gone(1)
    /\ UNCHANGED <<card, src, out, nrun, ninv>>
    /\ ParentOnly

(* The contract is asked first, then the card, whose absence exits 1 too.  *)
Resume ==
    /\ par.pc = "resume"
    /\ st.phase # "done"
    /\ IF st.task = NoTask \/ st.round < 1
       THEN Fail(st, "invalid_resume_state", 3)
       ELSE IF card = NoCard
       THEN par' = Gone(1) /\ UNCHANGED st
       ELSE IF card.task # st.task
       THEN Fail(st, "state_task_mismatch", 3)
       ELSE LET m == Prepared(st, st.run, st.round)
            IN  /\ st' = Saved(st, m)
                /\ par' = [par EXCEPT !.pc = "mark", !.task = st.task,
                             !.run = st.run, !.round = st.round, !.mem = m]
    /\ UNCHANGED <<card, src, work, rev, fix, summary, out, nrun, ninv>>
    /\ ParentOnly

MarkInProgress ==
    /\ par.pc = "mark"
    /\ SetCards("in_progress")
    /\ DropReports(par.task, par.run, par.round)
    /\ par' = IF Clash(par.task, par.run, par.round) THEN Gone(3)
              ELSE [par EXCEPT !.pc = "loop"]
    /\ UNCHANGED <<st, fix, summary, out, nrun, ninv>>
    /\ ParentOnly

(* Mutant of RoundsLeft: one round too many.                               *)
RoundsAndOneLeft == par.round <= MaxRounds + 1

(* for round_num in range(start_round, config.max_rounds + 1).              *)
RoundsLeft == par.round <= MaxRounds

(* _archive_bus_file(state.json) raises when the file is not this round's. *)
StateForeign ==
    /\ st.phase # "idle"
    /\ st.task # par.task \/ st.run \notin {0, par.run} \/ st.round # par.round

SpawnRound(s) ==
    /\ par.pc = "loop"
    /\ RoundsLeft
    /\ ~par.intr
    /\ kid[s] = Free
    /\ IF StateForeign
       THEN par' = Gone(3) /\ UNCHANGED kid
       ELSE /\ par' = [par EXCEPT !.pc = "wait"]
            /\ kid' = [kid EXCEPT ![s] = [Free EXCEPT !.pc = "begin",
                                                      !.round = par.round]]
    /\ UNCHANGED <<files, jobs, okd, nrun, ninv, nflt>>

StopOnInterrupt ==
    /\ par.pc = "loop"
    /\ RoundsLeft
    /\ par.intr
    /\ par' = [par EXCEPT !.pc = "interrupted"]
    /\ UNCHANGED <<files, nrun, ninv>>
    /\ ParentOnly

MaxRoundsExhausted ==
    /\ par.pc = "loop"
    /\ ~RoundsLeft
    /\ CopyOutcome
    /\ IF Allowed(st, "max_rounds_exhausted")
       THEN /\ st' = Saved(st, Moved(st, "max_rounds_exhausted"))
            /\ par' = [par EXCEPT !.pc = "blocking", !.rc = 2]
       ELSE /\ par' = Gone(5)
            /\ UNCHANGED st
    /\ UNCHANGED <<card, src, work, rev, fix, summary, nrun, ninv>>
    /\ ParentOnly

(* The child is gone and its exit code known.  After a failure the parent  *)
(* writes the contract it has held since before the round.                 *)
Own(s) == kid[s].pc # "free" /\ ~kid[s].orphan

Reap(s) ==
    /\ par.pc = "wait"
    /\ Own(s) /\ kid[s].pc = "exited"
    /\ kid' = [kid EXCEPT ![s] = Free]
    /\ UNCHANGED <<work, rev, fix, summary, out, jobs, okd, nrun, ninv, nflt>>

ReapInterrupted(s) ==
    /\ Reap(s)
    /\ par.intr
    /\ par' = [par EXCEPT !.pc = "interrupted"]
    /\ UNCHANGED <<st, card, src>>

ReapFailed(s) ==
    /\ Reap(s)
    /\ ~par.intr
    /\ kid[s].rc # 0
    /\ Fail(par.mem, "single_round_failed", 3)
    /\ UNCHANGED <<card, src>>

SameRun == st.task = par.task /\ st.run = par.run

ReapSuccess(s) ==
    /\ Reap(s)
    /\ ~par.intr
    /\ kid[s].rc = 0
    /\ SameRun /\ TerminalSuccess(st)
    /\ SetCards("done")
    /\ par' = Gone(0)
    /\ UNCHANGED st

ReapNextRound(s) ==
    /\ Reap(s)
    /\ ~par.intr
    /\ kid[s].rc = 0
    /\ SameRun /\ AwaitingNext(st, par.round)
    /\ par' = [par EXCEPT !.pc = "loop", !.round = par.round + 1, !.mem = st]
    /\ UNCHANGED <<st, card, src>>

ReapUnexpected(s) ==
    /\ Reap(s)
    /\ ~par.intr
    /\ kid[s].rc = 0
    /\ ~(SameRun /\ (TerminalSuccess(st) \/ AwaitingNext(st, par.round)))
    /\ Fail(st, IF SameRun THEN "invalid_state_transition"
                           ELSE "state_contract_mismatch", 3)
    /\ UNCHANGED <<card, src>>

FailInterrupted ==
    /\ par.pc = "interrupted"
    /\ CopyOutcome
    /\ Fail(st, "interrupted", 130)
    /\ UNCHANGED <<card, src, work, rev, fix, summary, nrun, ninv>>
    /\ ParentOnly

FailTail ==
    /\ par.pc = "failing"
    /\ SetCards("blocked")
    /\ summary' = [run |-> par.mem.run, round |-> par.mem.round,
                   outcome |-> par.mem.outcome]
    /\ par' = Gone(par.rc)
    /\ UNCHANGED <<st, work, rev, fix, out, nrun, ninv>>
    /\ ParentOnly

BlockTail ==
    /\ par.pc = "blocking"
    /\ SetCards("blocked")
    /\ par' = Gone(par.rc)
    /\ UNCHANGED <<st, work, rev, fix, summary, out, nrun, ninv>>
    /\ ParentOnly

-----------------------------------------------------------------------------
(* The single-round child: _run_single_round and its phase handlers.       *)

KidOnly == UNCHANGED <<par, okd, ninv, nflt>>

Piped(s) == ~kid[s].orphan          \* the pipe _log writes into is open

At(s, pc) == kid[s].pc = pc

Goto(s, pc) == kid' = [kid EXCEPT ![s].pc = pc]

(* The child process ends; nobody collects an orphan.                      *)
Ended(s, rc) ==
    IF kid[s].orphan THEN Free
    ELSE [Free EXCEPT !.pc = "exited", !.round = kid[s].round, !.rc = rc]

Exit(s, rc) == kid' = [kid EXCEPT ![s] = Ended(s, rc)]

(* A transition: the contract in memory and the one on disk.               *)
Transit(s, m, pc) ==
    /\ st' = Saved(st, m)
    /\ kid' = [kid EXCEPT ![s].mem = m, ![s].pc = pc]

(* _fail_with_state in the child; it logs first.                           *)
KidFail(s, m, outcome) ==
    /\ Piped(s)
    /\ st' = Saved(st, Failed(m, outcome))
    /\ kid' = [kid EXCEPT ![s].mem = Failed(m, outcome), ![s].pc = "failing",
                          ![s].rc = 3]

(* Read the contract; refuse files of another run; mark the card.          *)
LoadRound(s) ==
    /\ At(s, "begin")
    /\ IF card = NoCard THEN Exit(s, 1) /\ UNCHANGED card
       ELSE IF StaleArtifacts(st) THEN Exit(s, 3) /\ UNCHANGED card
       ELSE /\ SetBusCard("in_progress")
            /\ kid' = [kid EXCEPT ![s] =
                  IF kid[s].orphan /\ card.status # "in_progress" THEN Free
                  ELSE [kid[s] EXCEPT !.mem = st, !.pc = "loaded"]]
    /\ UNCHANGED <<st, src, work, rev, fix, summary, out, jobs, nrun>>
    /\ KidOnly

(* In round 1 the dependencies are checked again.                          *)
LoadBlocked(s) ==
    /\ At(s, "begin")
    /\ card # NoCard
    /\ kid[s].round = 1
    /\ ~StaleArtifacts(st)
    /\ KidFail(s, BlockedByDependencies(st, card.task, 1), "blocked_dependencies")
    /\ UNCHANGED <<card, src, work, rev, fix, summary, out, jobs, nrun>>
    /\ KidOnly

(* No contract on disk: round 1 makes one.                                 *)
BootstrapRound(s) ==
    /\ At(s, "loaded")
    /\ kid[s].mem.task = NoTask
    /\ kid[s].round = 1
    /\ nrun < MaxRuns
    /\ Transit(s, Bootstrapped(kid[s].mem, card.task, nrun + 1), "loaded")
    /\ nrun' = nrun + 1
    /\ UNCHANGED <<card, src, work, rev, fix, summary, out, jobs>>
    /\ KidOnly

PrepareRound(s) ==
    /\ At(s, "loaded")
    /\ kid[s].mem.task # NoTask
    /\ Piped(s)
    /\ IF kid[s].mem.task # card.task
       THEN KidFail(s, kid[s].mem, "state_task_mismatch")
       ELSE Transit(s, Prepared(kid[s].mem, kid[s].mem.run, kid[s].round), "prepared")
    /\ UNCHANGED <<card, src, work, rev, fix, summary, out, jobs, nrun>>
    /\ KidOnly

(* Empty the inbox, then ask the worker.                                   *)
Asked(role, m, head) ==
    [role |-> role, task |-> m.task, run |-> m.run, round |-> m.round, head |-> head]

DispatchWorker(s) ==
    /\ At(s, "prepared")
    /\ LET m == kid[s].mem
       IN  /\ DropReports(m.task, m.run, m.round)
           /\ IF Clash(m.task, m.run, m.round)
              THEN Exit(s, 3) /\ UNCHANGED jobs
              ELSE /\ Goto(s, "work")
                   /\ jobs' = IF Piped(s) THEN jobs \cup {Asked("worker", m, 0)}
                              ELSE jobs
    /\ UNCHANGED <<st, card, src, fix, summary, out, nrun>>
    /\ KidOnly

(* The report found by _wait_for_file, validated and compared with base.   *)
ReportIn(s) == At(s, "work") /\ Piped(s) /\ Matches(work, kid[s].mem)

RejectWork(s) ==
    /\ ReportIn(s)
    /\ work.head # 0
    /\ KidFail(s, kid[s].mem, IF work.head = Bad THEN "invalid_report"
                              ELSE "validation_failure")
    /\ UNCHANGED <<card, src, work, rev, fix, summary, out, jobs, nrun>>
    /\ KidOnly

(* The plan-patch gate: exit 6, state.json left as it is.                  *)
RefusePatch(s) ==
    /\ ReportIn(s)
    /\ work.head \in 1 .. MaxHeads
    /\ Exit(s, 6)
    /\ UNCHANGED <<files, jobs, nrun>>
    /\ KidOnly

AcceptWork(s) ==
    /\ ReportIn(s)
    /\ work.head \in 1 .. MaxHeads
    /\ kid' = [kid EXCEPT ![s].head = work.head, ![s].pc = "worked"]
    /\ UNCHANGED <<files, jobs, nrun>>
    /\ KidOnly

(* _single_round_handle_worker_noop; with NoopAsError whether evidence was *)
(* found is a choice.                                                      *)
AcceptNoChange(s) ==
    /\ ReportIn(s)
    /\ work.head = 0
    /\ Transit(s, NoChange(Recorded(kid[s].mem, "no_change")), "success")
    /\ UNCHANGED <<card, src, work, rev, fix, summary, out, jobs, nrun>>
    /\ KidOnly

RefuseNoChange(s) ==
    /\ ReportIn(s)
    /\ work.head = 0
    /\ NoopAsError
    /\ summary' = [run |-> kid[s].mem.run, round |-> kid[s].round,
                   outcome |-> "validation_failure"]
    /\ KidFail(s, Recorded(kid[s].mem, "no_change"), "validation_failure")
    /\ UNCHANGED <<card, src, work, rev, fix, out, jobs, nrun>>
    /\ KidOnly

(* The review request is on disk before state.json says so.                *)
WriteRequest(s) ==
    /\ At(s, "worked")
    /\ LET m == kid[s].mem
       IN  IF Foreign(rev, m.task, m.run, m.round)
           THEN Exit(s, 3) /\ UNCHANGED rev
           ELSE Goto(s, "requested") /\ rev' = NoReview
    /\ UNCHANGED <<st, card, src, work, fix, summary, out, jobs, nrun>>
    /\ KidOnly

DispatchReviewer(s) ==
    /\ At(s, "requested")
    /\ Transit(s, Submitted(kid[s].mem, kid[s].head), "review")
    /\ jobs' = IF Piped(s)
               THEN jobs \cup {Asked("reviewer", kid[s].mem, kid[s].head)}
               ELSE jobs
    /\ UNCHANGED <<card, src, work, rev, fix, summary, out, nrun>>
    /\ KidOnly

(* Mutant of TimedOut: the wait has no end.                                *)
NeverTimesOut(s, pc, a, trigger) == FALSE

(* _wait_for_file returned None, its final probe included.                 *)
TimedOut(s, pc, a, trigger) ==
    /\ At(s, pc)
    /\ Piped(s)
    /\ ~Matches(a, kid[s].mem)
    /\ st' = Saved(st, Moved(kid[s].mem, trigger))
    /\ kid' = [kid EXCEPT ![s].mem = Moved(kid[s].mem, trigger),
                          ![s].pc = "blocking", ![s].rc = 2]
    /\ UNCHANGED <<card, src, work, rev, fix, summary, out, jobs, nrun>>
    /\ KidOnly

WorkerTimeout(s)   == TimedOut(s, "work", work, "worker_timeout")
ReviewerTimeout(s) == TimedOut(s, "review", rev, "reviewer_timeout")

(* _auto_dispatch_role raised RuntimeError.                                *)
DispatchFailed(s) ==
    /\ At(s, "work") \/ At(s, "review")
    /\ KidFail(s, kid[s].mem, "dispatch_failed")
    /\ UNCHANGED <<card, src, work, rev, fix, summary, out, jobs, nrun>>
    /\ KidOnly

ReviewIn(s) == At(s, "review") /\ Piped(s) /\ Matches(rev, kid[s].mem)

RejectReview(s) ==
    /\ ReviewIn(s)
    /\ rev.verdict = "bad"
    /\ KidFail(s, kid[s].mem, "invalid_report")
    /\ UNCHANGED <<card, src, work, rev, fix, summary, out, jobs, nrun>>
    /\ KidOnly

(* Both reports are written back as the child read them.                   *)
TakeReview(s, decision, pc) ==
    /\ ReviewIn(s)
    /\ rev.verdict = decision
    /\ kid' = [kid EXCEPT ![s].mem = Recorded(kid[s].mem, decision), ![s].pc = pc]
    /\ work' = [task |-> kid[s].mem.task, run |-> kid[s].mem.run,
                round |-> kid[s].mem.round, head |-> kid[s].head]
    /\ UNCHANGED <<st, card, src, rev, fix, summary, out, jobs, nrun>>
    /\ KidOnly

AcceptApproval(s) == TakeReview(s, "approve", "approving")
AcceptChanges(s)  == TakeReview(s, "changes_required", "retrying")

(* _single_round_handle_review_approved.                                   *)
Approve(s) ==
    /\ At(s, "approving")
    /\ Transit(s, Approved(kid[s].mem), "success")
    /\ UNCHANGED <<card, src, work, rev, fix, summary, out, jobs, nrun>>
    /\ KidOnly

MarkDone(s) ==
    /\ At(s, "success")
    /\ SetBusCard("done")
    /\ IF kid[s].orphan /\ card.status # "done" THEN Exit(s, 1)
       ELSE Goto(s, "summing")
    /\ UNCHANGED <<st, src, work, rev, fix, summary, out, jobs, nrun>>
    /\ KidOnly

WriteSummary(s) ==
    /\ At(s, "summing")
    /\ summary' = [run |-> kid[s].mem.run, round |-> kid[s].mem.round,
                   outcome |-> kid[s].mem.outcome]
    /\ Goto(s, "returning")
    /\ UNCHANGED <<st, card, src, work, rev, fix, out, jobs, nrun>>
    /\ KidOnly

(* Mutant of NextFixes: the round just reviewed.                           *)
ThisRoundsFixes(s) == [run |-> kid[s].mem.run, round |-> kid[s].round]

NextFixes(s) == [run |-> kid[s].mem.run, round |-> kid[s].round + 1]

(* _single_round_handle_changes_required: the fix list of the next round   *)
(* is on disk, and this round's report archived, before the round advances.*)
WriteFixList(s) ==
    /\ At(s, "retrying")
    /\ fix' = NextFixes(s)
    /\ LET m == kid[s].mem
       IN  IF Foreign(work, m.task, m.run, m.round)
           THEN Exit(s, 3) /\ UNCHANGED work
           ELSE Goto(s, "retried") /\ work' = NoWork
    /\ UNCHANGED <<st, card, src, rev, summary, out, jobs, nrun>>
    /\ KidOnly

AdvanceRound(s) ==
    /\ At(s, "retried")
    /\ Transit(s, Retried(kid[s].mem), "returning")
    /\ UNCHANGED <<card, src, work, rev, fix, summary, out, jobs, nrun>>
    /\ KidOnly

(* The round is on disk; archives, feed and cleanup remain before exit 0.  *)
Return(s) ==
    /\ At(s, "returning")
    /\ Exit(s, 0)
    /\ UNCHANGED <<files, jobs, nrun>>
    /\ KidOnly

KidFailTail(s) ==
    /\ At(s, "failing")
    /\ SetBusCard("blocked")
    /\ IF kid[s].orphan /\ card.status # "blocked" THEN UNCHANGED summary
       ELSE summary' = [run |-> kid[s].mem.run, round |-> kid[s].mem.round,
                        outcome |-> kid[s].mem.outcome]
    /\ Exit(s, kid[s].rc)
    /\ UNCHANGED <<st, src, work, rev, fix, out, jobs, nrun>>
    /\ KidOnly

KidBlockTail(s) ==
    /\ At(s, "blocking")
    /\ SetBusCard("blocked")
    /\ Exit(s, kid[s].rc)
    /\ UNCHANGED <<st, src, work, rev, fix, summary, out, jobs, nrun>>
    /\ KidOnly

-----------------------------------------------------------------------------
(* The worker and the reviewer, outside the program: each may write its    *)
(* report at any time, or never, whatever has become of the child.         *)

AgentOnly == UNCHANGED <<st, card, src, fix, summary, out, par, kid, nrun, ninv, nflt>>

DeliverWork(j, head) ==
    /\ j.role = "worker"
    /\ work' = [task |-> j.task, run |-> j.run, round |-> j.round, head |-> head]
    /\ jobs' = jobs \ {j}
    /\ UNCHANGED <<rev, okd>>
    /\ AgentOnly

DeliverReview(j, verdict) ==
    /\ j.role = "reviewer"
    /\ rev' = [task |-> j.task, run |-> j.run, round |-> j.round, verdict |-> verdict]
    /\ okd' = IF verdict = "approve"
              THEN okd \cup {[run |-> j.run, round |-> j.round, head |-> j.head]}
              ELSE okd
    /\ jobs' = jobs \ {j}
    /\ UNCHANGED work
    /\ AgentOnly

-----------------------------------------------------------------------------
(* Faults.                                                                 *)

Fault(kind) ==
    /\ kind \in Faults
    /\ nflt < MaxFaults
    /\ nflt' = nflt + 1
    /\ UNCHANGED <<files, jobs, okd, nrun, ninv>>

HostCrash ==
    /\ Fault("host")
    /\ par.pc # "none"
    /\ par' = Gone(137)
    /\ kid' = [s \in Slots |-> Free]

(* The parent is killed and its child, if any, goes on.                    *)
ParentKilled ==
    /\ Fault("parent")
    /\ par.pc # "none"
    /\ \A s \in Slots : ~kid[s].orphan
    /\ par' = Gone(137)
    /\ kid' = [s \in Slots |->
                 IF kid[s].pc \in {"free", "exited"} THEN Free
                 ELSE [kid[s] EXCEPT !.orphan = TRUE]]

(* An uncaught exception in the child, or a kill.                          *)
ChildDies(s) ==
    /\ Fault("child")
    /\ Own(s) /\ kid[s].pc # "exited"
    /\ Exit(s, 1)
    /\ UNCHANGED par

Interrupt ==
    /\ Fault("interrupt")
    /\ par.pc \in {"loop", "wait"}
    /\ ~par.intr
    /\ par' = [par EXCEPT !.intr = TRUE]
    /\ UNCHANGED kid

(* _outer_interrupt_handler terminates the child.                          *)
ChildTerminated(s) ==
    /\ par.intr
    /\ Own(s) /\ kid[s].pc # "exited"
    /\ Exit(s, 137)
    /\ UNCHANGED <<files, jobs, nrun>>
    /\ KidOnly

(* The next _log of an orphan, or its parent-death monitor.                *)
OrphanDies(s) ==
    /\ kid[s].orphan
    /\ Exit(s, 1)
    /\ UNCHANGED <<files, jobs, nrun>>
    /\ KidOnly

-----------------------------------------------------------------------------
ParentStep ==
    \/ ResumeRefused \/ Decide
    \/ Bootstrap \/ BootstrapNoCard \/ Resume
    \/ MarkInProgress
    \/ \E s \in Slots : SpawnRound(s)
    \/ StopOnInterrupt \/ MaxRoundsExhausted
    \/ \E s \in Slots :
          \/ ReapInterrupted(s) \/ ReapFailed(s) \/ ReapSuccess(s)
          \/ ReapNextRound(s) \/ ReapUnexpected(s)
    \/ FailInterrupted \/ FailTail \/ BlockTail

KidStep(s) ==
    \/ LoadRound(s) \/ BootstrapRound(s) \/ PrepareRound(s)
    \/ DispatchWorker(s) \/ RejectWork(s) \/ AcceptWork(s)
    \/ AcceptNoChange(s) \/ RefuseNoChange(s) \/ WriteRequest(s)
    \/ DispatchReviewer(s) \/ WorkerTimeout(s) \/ ReviewerTimeout(s)
    \/ RejectReview(s)
    \/ AcceptApproval(s) \/ AcceptChanges(s) \/ Approve(s) \/ MarkDone(s)
    \/ WriteSummary(s) \/ WriteFixList(s) \/ AdvanceRound(s) \/ Return(s)
    \/ KidFailTail(s) \/ KidBlockTail(s)

(* What may go wrong, or may not: no progress is owed to these.            *)
KidTrouble(s) ==
    \/ LoadBlocked(s) \/ RefusePatch(s) \/ DispatchFailed(s)
    \/ ChildTerminated(s) \/ OrphanDies(s)

Agents ==
    \E j \in jobs :
        \/ \E head \in 0 .. Bad : DeliverWork(j, head)
        \/ \E verdict \in Verdicts : DeliverReview(j, verdict)

Operator ==
    \E t \in Tasks, ext \in External, f \in Flags, dirty \in BOOLEAN :
        Invoke(t, ext, f, dirty)

Environment ==
    \/ HostCrash \/ ParentKilled \/ Interrupt
    \/ \E s \in Slots : ChildDies(s)

(* Nothing runs; what happens next is the operator's choice.               *)
Quiescent == par.pc = "none" /\ UNCHANGED vars

Next ==
    \/ ParentStep \/ BootstrapBlocked
    \/ \E s \in Slots : KidStep(s) \/ KidTrouble(s)
    \/ Agents \/ Operator \/ Environment \/ Quiescent

Spec == Init /\ [][Next]_vars

(* Both processes run on: every wait the child makes for a file ends at    *)
(* its timeout or at the 24h cap of _wait_for_file, and the parent blocks  *)
(* only on the child.  A child that dispatches its agents itself also      *)
(* waits for them, without a limit when dispatch_timeout is 0, its default *)
(* (Dispatch has that wait): the runs with fairness are of the file bus,   *)
(* or of dispatches whose agents end.  Nothing is assumed of the answers,  *)
(* the operator or the faults.                                             *)
FairSpec ==
    /\ Spec
    /\ WF_vars(ParentStep)
    /\ \A s \in Slots : WF_vars(KidStep(s))

-----------------------------------------------------------------------------
(* Properties.                                                             *)

(* A contract marked approved names a round in which a reviewer, asked in  *)
(* that round of that run, said approve: no crash, orphan, stale file or   *)
(* overwrite by the parent produces an approval nobody gave.               *)
Earned(run, round) == \E a \in okd : a.run = run /\ a.round = round

ApprovalIsEarned == st.outcome = "approved" => Earned(st.run, st.round)

(* The way an approval takes from the reviewer's file through the child's  *)
(* memory to state.json and back into the parent's: nothing on it is       *)
(* approved without a reviewer's word.  The inductive form of the above.   *)
Backed(m) == m.outcome = "approved" => Earned(m.run, m.round)

ApprovalIsBacked ==
    /\ Backed(st)
    /\ Backed(par.mem)
    /\ rev.verdict = "approve" => Earned(rev.run, rev.round)
    /\ \A s \in Slots :
          /\ Backed(kid[s].mem)
          /\ kid[s].pc = "approving" => Earned(kid[s].mem.run, kid[s].mem.round)

(* A child works on the round it was started for: from the round's start   *)
(* until it moves on, the contract it holds and its command line agree,    *)
(* and the round is one the configuration allows.                          *)
InRound ==
    {"prepared", "work", "worked", "requested", "review", "approving",
     "retrying", "retried"}

RoundIsTheChilds ==
    \A s \in Slots :
        /\ kid[s].round <= MaxRounds
        /\ kid[s].pc \in InRound => kid[s].mem.round = kid[s].round

(* What the reviewer looked at is what is recorded as approved: the commit *)
(* in head_sha was named in a review request the reviewer approved.        *)
ApprovedHeadWasReviewed ==
    st.outcome = "approved" =>
        [run |-> st.run, round |-> st.round, head |-> st.head] \in okd

(* `loop run` exits 0 only when the contract it leaves is a success and    *)
(* the card of the loop directory says done (cmd_run, both success ends).  *)
Finished == par.pc = "none" /\ ninv > 0

ExitZeroIsSuccess ==
    Finished /\ par.rc = 0 =>
        st.phase = "done" /\ st.outcome \in SuccessOutcomes /\ card.status = "done"

(* The audit trail of an approved run is whole: the approval of its last   *)
(* round and the changes_required of every round before it are in          *)
(* round_details, though _save_state compares neither and --resume repeats *)
(* rounds.                                                                 *)
AuditTrailIsWhole ==
    st.outcome = "approved" =>
        /\ st.details[st.round] = "approve"
        /\ \A n \in 1 .. st.round - 1 : st.details[n] = "changes_required"
        /\ \A n \in st.round + 1 .. MaxRounds + 1 : st.details[n] = "none"

(* A later round is never asked for without its list of fixes: while       *)
(* state.json waits for the worker of round n > 1, fix_list.json is of     *)
(* that run and not of an earlier round.  (After a crash between the two   *)
(* writes that end a round it may already be the next round's.)            *)
FixListIsThere ==
    st.phase = "awaiting_work" /\ st.round > 1 =>
        fix.run = st.run /\ fix.round >= st.round

(* The files agree once nothing runs and nothing crashed: a finished       *)
(* contract has its card marked accordingly, unless --reset has removed    *)
(* that, and the summary of its run, where one was written, tells the same *)
(* outcome.                                                                *)
Settled == Finished /\ \A s \in Slots : kid[s] = Free

FilesAgree ==
    Settled /\ st.phase = "done" /\ par.rc \in {0, 2, 3, 130} =>
        /\ card # NoCard =>
              card.status = IF st.outcome \in SuccessOutcomes THEN "done" ELSE "blocked"
        /\ summary.run = st.run /\ st.run # 0 =>
              summary.outcome = st.outcome /\ summary.round = st.round

(* Within a run the round never goes back, whoever writes state.json.      *)
RoundNeverRewinds ==
    [][st.run # 0 /\ st'.run = st.run => st'.round >= st.round]_st

(* A success is final: a run that state.json has reported as a success is  *)
(* not turned into a failure while that run is in state.json, unless a     *)
(* later command finds its own card's dependencies unmet.                  *)
SuccessIsFinal ==
    [][st.outcome \in SuccessOutcomes /\ st'.run = st.run =>
          st'.outcome \in SuccessOutcomes \cup {"blocked_dependencies"}]_st

(* Every command comes to an end: rounds are bounded, children exit and    *)
(* an interrupt is obeyed, if the agents a child dispatches end (FairSpec). *)
EveryCommandEnds == par.pc # "none" ~> par.pc = "none"

(* The approval a child has written to state.json is reported by exit code *)
(* 0 when no fault comes between: the waiting parent reads it back and     *)
(* passes it on.  It must still be there and of the parent's run: an       *)
(* orphan that wrote its own contract before it died may have replaced it, *)
(* or led the child to another run.                                        *)
Undisturbed == ~par.intr /\ \A s \in Slots : ~kid[s].orphan

ChildApproved(s) ==
    /\ Own(s) /\ kid[s].pc \in {"success", "summing", "returning"}
    /\ kid[s].mem.outcome = "approved" /\ st = kid[s].mem /\ st.run = par.run

ApprovalIsReported ==
    \A n \in 0 .. MaxFaults :
        /\ par.pc = "wait" /\ nflt = n /\ Undisturbed
        /\ \E s \in Slots : ChildApproved(s)
        ~> (nflt > n \/ (par.pc = "none" /\ par.rc = 0))

(* state.json, written by the parent and by its children from copies they  *)
(* hold in memory, behaves as RoundProtocol says.                          *)
Protocol ==
    INSTANCE RoundProtocol WITH
        phase <- st.phase, round <- st.round, run <- st.run,
        outcome <- st.outcome, last <- nrun,
        Failures <- FailureOutcomes

FollowsProtocol == Protocol!Spec
=============================================================================
