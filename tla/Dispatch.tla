------------------------------ MODULE Dispatch ------------------------------
(***************************************************************************)
(* The serial, automatic dispatch of a role: _auto_dispatch_role chooses a *)
(* backend session to resume, _run_auto_dispatch makes attempts until one  *)
(* succeeds, and _dispatch_with_artifact_fallback calls it again after a   *)
(* timeout and looks for the report the agent should have left.            *)
(*                                                                         *)
(* Around it are the rounds of `loop run` as far as they matter here: what *)
(* the state contract keeps of a session (its id, backend and the round it *)
(* started in), of git (the head it expects) and of the wall-clock budget  *)
(* (session_deadline_at), and where parent and child look at that budget.  *)
(* Time is a clock of few ticks; a report is there or not, since that only *)
(* one that carries this run, task and round counts is RunLoop's matter.   *)
(*                                                                         *)
(* Two waits have no limit: for the end of an agent when dispatch_timeout  *)
(* is 0, its default, and for the end of one that was told to terminate.   *)
(* Lanes are dispatched by the same code but never resume a session.       *)
(***************************************************************************)
EXTENDS Integers

CONSTANTS
    Retries,           \* config.dispatch_retries
    MaxSessionRounds,  \* config.max_session_rounds; 0: sessions never rotate
    MaxRounds,         \* config.max_rounds
    Backends,          \* the backends a role may be given
    NoSession,         \* the id of no session
    MaxClock,          \* bound: ticks of the clock
    MaxHeads,          \* bound: positions of the git head
    MaxRuns,           \* bound: `loop run` commands
    MaxFaults          \* bound: crashes and moves of the git head

ASSUME RetriesAssumption == Retries \in Nat
ASSUME RoundsAssumption == MaxRounds \in Nat \ {0} /\ MaxSessionRounds \in Nat
ASSUME BoundsAssumption ==
    MaxClock \in Nat /\ MaxHeads \in Nat /\ MaxRuns \in Nat /\ MaxFaults \in Nat

Role == {"worker", "reviewer"}
MaxAttempts == Retries + 1

VARIABLES
    st,        \* state.json
    par,       \* the parent: where it is, the deadline it holds in memory, and
               \* whether this command has a dispatch_timeout
    d,         \* the dispatch in progress
    backend,   \* the backend of each role in this command
    git,       \* the git head
    drifted,   \* history: has this round found the head elsewhere than expected?
    report,    \* is the report the dispatch waits for there?
    clock, runs, faults

vars == <<st, par, d, backend, git, drifted, report, clock, runs, faults>>

\* A session's id says who made it, with what, and when.
Session == [role : Role, backend : Backends, round : Nat, run : Nat]
Ids == Session \cup {NoSession}
Entry == [id : Ids, from : Nat, backend : Backends]
Phases == {"idle", "work", "review", "done"}
Contract == [phase : Phases, run : Nat, round : 0..MaxRounds, head : 0..MaxHeads,
             sessions : [Role -> Entry], deadline : Nat]

\* spawned counts the agents of a dispatch; asked is the session its calls are
\* given, resume the one the next attempt uses, got the one an agent reported.
DispatchPc ==
    {"off", "policy", "check", "running", "dying", "pause", "probe", "wait", "done"}
Job == [pc : DispatchPc, role : Role, call : 1..2, attempt : 0..MaxAttempts, spawned : Nat,
        asked : Ids, resume : Ids, got : Ids]

TypeOK ==
    /\ st \in Contract
    /\ par \in [pc : {"off", "loop", "wait"}, deadline : Nat, timed : BOOLEAN]
    /\ d \in Job
    /\ backend \in [Role -> Backends]
    /\ git \in 0..MaxHeads /\ clock \in Nat /\ runs \in Nat /\ faults \in Nat
    /\ report \in BOOLEAN /\ drifted \in BOOLEAN

NoSessions == [r \in Role |-> [id |-> NoSession, from |-> 0, backend |-> backend[r]]]
Off == [pc |-> "off", role |-> "worker", call |-> 1, attempt |-> 0, spawned |-> 0,
        asked |-> NoSession, resume |-> NoSession, got |-> NoSession]

Init ==
    /\ backend \in [Role -> Backends]
    /\ st = [phase |-> "idle", run |-> 0, round |-> 0, head |-> 0, sessions |-> NoSessions,
             deadline |-> 0]
    /\ par = [pc |-> "off", deadline |-> 0, timed |-> FALSE]
    /\ d = Off
    /\ git = 0 /\ clock = 0 /\ runs = 0 /\ faults = 0
    /\ report = FALSE /\ drifted = FALSE

\* _session_budget_fields: a deadline of 0 is not armed.
Late(deadline) == deadline # 0 /\ clock >= deadline

-----------------------------------------------------------------------------
(* The parent and its child at the start of a round.                       *)

\* cmd_run arms the deadline in state.json, then the parent reads it from there,
\* whoever wrote it, and only then cleans a stale contract away.
Deadline(arm) == IF arm THEN clock + 1 ELSE st.deadline

CleansStale == st.phase = "work" /\ st.round = 1
Resumes == st.phase \in {"work", "review"} /\ ~CleansStale

StartRun ==
    /\ par.pc = "off" /\ runs < MaxRuns
    /\ runs' = runs + 1
    /\ backend' \in [Role -> Backends]
    /\ \E arm, timed \in BOOLEAN :
          /\ par' = [pc |-> "loop", deadline |-> Deadline(arm), timed |-> timed]
          /\ st' = IF Resumes
                   THEN [st EXCEPT !.phase = "work", !.deadline = Deadline(arm)]
                   ELSE [phase |-> "work", run |-> st.run + 1, round |-> 1, head |-> git,
                         sessions |-> NoSessions,
                         deadline |-> IF CleansStale THEN 0 ELSE Deadline(arm)]
    /\ UNCHANGED <<drifted, d, git, report, clock, faults>>

EndRun == par' = [par EXCEPT !.pc = "off"]

\* Before it spawns a child the parent asks its own deadline, and the child that
\* of the contract.
TimedOut == Late(par.deadline) \/ Late(st.deadline)

SessionTimeout ==
    /\ par.pc = "loop" /\ TimedOut
    /\ EndRun
    /\ st' = [st EXCEPT !.phase = "done"]
    /\ UNCHANGED <<drifted, d, backend, git, report, clock, runs, faults>>

Dispatching(role) == [Off EXCEPT !.pc = "policy", !.role = role]

\* The first round starts without sessions, a resumed one too.
SpawnRound ==
    /\ par.pc = "loop" /\ ~TimedOut
    /\ par' = [par EXCEPT !.pc = "wait"]
    /\ st' = IF st.round = 1 THEN [st EXCEPT !.sessions = NoSessions] ELSE st
    /\ d' = Dispatching("worker")
    /\ report' = FALSE /\ drifted' = FALSE
    /\ UNCHANGED <<backend, git, clock, runs, faults>>

-----------------------------------------------------------------------------
(* _resolve_session_resume_policy.                                         *)

\* _session_contract_invalidation_reason: the head is where the contract has it.
ContractHolds == git = st.head

Mine(sessions) == sessions[d.role]

\* Mutant of Candidate: whatever backend made the session.
CandidateOfAnyBackend == Mine(st.sessions).id # NoSession

Candidate == Mine(st.sessions).id # NoSession /\ Mine(st.sessions).backend = backend[d.role]

\* Mutant of Rotated: one round more.
RotatedLate ==
    MaxSessionRounds > 0 /\ st.round - Mine(st.sessions).from > MaxSessionRounds

\* A session of unknown age counts as rotated.
Rotated ==
    /\ MaxSessionRounds > 0
    /\ \/ Mine(st.sessions).from = 0
       \/ st.round - Mine(st.sessions).from >= MaxSessionRounds

Without(role) == [st.sessions EXCEPT ![role].id = NoSession, ![role].from = 0]

\* Mutant of Cleared: only the role that noticed starts over.
ClearedForTheRole == Without(d.role)

\* _clear_sessions.
Cleared == NoSessions

Policy ==
    /\ d.pc = "policy"
    /\ LET hit == ContractHolds /\ Candidate /\ ~Rotated
           id  == IF hit THEN Mine(st.sessions).id ELSE NoSession
       IN  /\ st' = [st EXCEPT !.sessions =
                        IF ~ContractHolds THEN Cleared
                        ELSE IF Candidate /\ Rotated THEN Without(d.role) ELSE @]
           /\ d' = [d EXCEPT !.pc = "check", !.asked = id, !.resume = id]
    /\ drifted' = (drifted \/ ~ContractHolds)
    /\ UNCHANGED <<par, backend, git, report, clock, runs, faults>>

-----------------------------------------------------------------------------
(* _run_auto_dispatch.                                                     *)

\* The history count stops one past what SpawnsAreBounded allows.
Counted(n) == IF n > 2 * MaxAttempts THEN n ELSE n + 1

\* Mutant of BudgetAt: the deadline is looked at once per call.
BudgetAtFirst == d.attempt = 0 /\ Late(st.deadline)

BudgetAt == Late(st.deadline)

\* Every attempt starts with a look at the budget.
Attempt ==
    /\ d.pc = "check" /\ ~BudgetAt
    /\ d' = [d EXCEPT !.pc = "running", !.attempt = @ + 1, !.spawned = Counted(@)]
    /\ UNCHANGED <<drifted, st, par, backend, git, report, clock, runs, faults>>

\* Mutant of AfterTimeout: as often as it takes.
AlwaysAgain == "pause"

\* DispatchTimeoutError in the first call, and in the second.
AfterTimeout == IF d.call = 1 THEN "pause" ELSE "probe"

BudgetSpent ==
    /\ d.pc = "check" /\ BudgetAt
    /\ d' = [d EXCEPT !.pc = AfterTimeout, !.attempt = @ + 1]
    /\ UNCHANGED <<drifted, st, par, backend, git, report, clock, runs, faults>>

\* An agent may commit before it ends; its report is ReportWritten below.
Commits == git' = git \/ (git < MaxHeads /\ git' = git + 1)

AgentActs == d.pc = "running" /\ Commits

NewSession ==
    [role |-> d.role, backend |-> backend[d.role], round |-> st.round, run |-> st.run]

AgentSucceeds ==
    /\ AgentActs
    /\ d' = [d EXCEPT !.pc = "wait",
                      !.got = IF d.resume = NoSession THEN NewSession ELSE d.resume]
    /\ UNCHANGED <<drifted, st, par, backend, report, clock, runs, faults>>

\* Mutant of AttemptsLeft: the fallback from an invalid session is free.
AttemptsLeftOrFallback == d.attempt < MaxAttempts \/ (d.asked # NoSession /\ d.resume # NoSession)

AttemptsLeft == d.attempt < MaxAttempts

\* The role's dispatch fails, and with it the round and the run.
Fail(sessions) ==
    /\ d' = Off
    /\ EndRun
    /\ st' = [st EXCEPT !.phase = "done", !.sessions = sessions]

\* The backend does not know the session: the next attempt starts a new one.
InvalidResume ==
    /\ AgentActs /\ d.resume # NoSession
    /\ IF AttemptsLeft
       THEN d' = [d EXCEPT !.pc = "check", !.resume = NoSession] /\ UNCHANGED <<st, par>>
       ELSE Fail(st.sessions)
    /\ UNCHANGED <<drifted, backend, report, clock, runs, faults>>

\* A failure that may be transient: a pause, and another attempt.
AgentFails ==
    /\ AgentActs
    /\ IF AttemptsLeft
       THEN d' = [d EXCEPT !.pc = "check"] /\ UNCHANGED <<st, par>>
       ELSE Fail(st.sessions)
    /\ UNCHANGED <<drifted, backend, report, clock, runs, faults>>

\* PermanentDispatchError: no retry, and no session outlives it.
PermanentFailure ==
    /\ AgentActs
    /\ Fail(NoSessions)
    /\ UNCHANGED <<drifted, backend, report, clock, runs, faults>>

\* dispatch_timeout is over: the agent is sent SIGTERM and waited for.
AgentTimesOut ==
    /\ d.pc = "running" /\ par.timed
    /\ d' = [d EXCEPT !.pc = "dying"]
    /\ UNCHANGED <<drifted, st, par, backend, git, report, clock, runs, faults>>

\* It ends, when it does, and however: it is not tried again in this call.
AgentDies ==
    /\ d.pc = "dying" /\ Commits
    /\ d' = [d EXCEPT !.pc = AfterTimeout]
    /\ UNCHANGED <<drifted, st, par, backend, report, clock, runs, faults>>

-----------------------------------------------------------------------------
(* _dispatch_with_artifact_fallback.                                       *)

\* The second call has attempts of its own and is given the session the first
\* was given, valid or not.
CallAgain ==
    /\ d.pc = "pause"
    /\ d' = [d EXCEPT !.pc = "check", !.call = 2, !.attempt = 0, !.resume = d.asked]
    /\ UNCHANGED <<drifted, st, par, backend, git, report, clock, runs, faults>>

\* Mutant of Stored: a resumed session counts from the round it was resumed in.
StoredAnew ==
    IF d.got = NoSession THEN st.sessions
    ELSE [st.sessions EXCEPT ![d.role] =
            [id |-> d.got, from |-> st.round, backend |-> backend[d.role]]]

\* store_session: a session that is still the same keeps the round it began in.
Stored ==
    IF d.got = NoSession THEN st.sessions
    ELSE [st.sessions EXCEPT ![d.role] =
            [id |-> d.got,
             from |-> IF @.id = d.got /\ @.from # 0 THEN @.from ELSE st.round,
             backend |-> backend[d.role]]]

\* The dispatch returns its report, and the session is saved before anything else.
Returned == /\ d' = [d EXCEPT !.pc = "done"]
            /\ st' = [st EXCEPT !.sessions = Stored]

Found ==
    /\ d.pc \in {"wait", "probe"} /\ report
    /\ Returned
    /\ UNCHANGED <<drifted, par, backend, git, report, clock, runs, faults>>

\* artifact_timeout is over.  A worker that succeeded gets a report made for it.
Synthesize ==
    /\ d.pc = "wait" /\ ~report /\ d.role = "worker"
    /\ Returned
    /\ report' = TRUE
    /\ UNCHANGED <<drifted, par, backend, git, clock, runs, faults>>

NoReport ==
    /\ ~report
    /\ d.pc = "probe" \/ (d.pc = "wait" /\ d.role = "reviewer")
    /\ Fail(st.sessions)
    /\ UNCHANGED <<drifted, backend, git, report, clock, runs, faults>>

\* The worker's head is recorded in the contract and the reviewer asked.
WorkerDone ==
    /\ d.pc = "done" /\ d.role = "worker"
    /\ st' = [st EXCEPT !.phase = "review", !.head = git]
    /\ d' = Dispatching("reviewer")
    /\ report' = FALSE
    /\ UNCHANGED <<drifted, par, backend, git, clock, runs, faults>>

Approve ==
    /\ d.pc = "done" /\ d.role = "reviewer"
    /\ st' = [st EXCEPT !.phase = "done"]
    /\ d' = Off /\ EndRun
    /\ UNCHANGED <<drifted, backend, git, report, clock, runs, faults>>

AskAgain ==
    /\ d.pc = "done" /\ d.role = "reviewer" /\ st.round < MaxRounds
    /\ st' = [st EXCEPT !.phase = "work", !.round = @ + 1]
    /\ d' = Off /\ par' = [par EXCEPT !.pc = "loop"]
    /\ UNCHANGED <<drifted, backend, git, report, clock, runs, faults>>

Exhausted ==
    /\ d.pc = "done" /\ d.role = "reviewer" /\ st.round >= MaxRounds
    /\ st' = [st EXCEPT !.phase = "done"]
    /\ d' = Off /\ EndRun
    /\ UNCHANGED <<drifted, backend, git, report, clock, runs, faults>>

-----------------------------------------------------------------------------
(* The world.                                                              *)

Tick ==
    /\ clock < MaxClock /\ par.pc # "off"
    /\ clock' = clock + 1
    /\ UNCHANGED <<drifted, st, par, d, backend, git, report, runs, faults>>

\* The report appears: while an agent runs, or after its end, from a process it
\* started that still runs.
ReportWritten ==
    /\ d.pc \in {"check", "running", "dying", "pause", "probe", "wait"} /\ d.spawned > 0
    /\ ~report /\ report' = TRUE
    /\ UNCHANGED <<drifted, st, par, d, backend, git, clock, runs, faults>>

\* Somebody commits to the branch, or takes commits back.
MoveHead ==
    /\ faults < MaxFaults /\ faults' = faults + 1
    /\ git' \in (0..MaxHeads) \ {git}
    /\ UNCHANGED <<drifted, st, par, d, backend, report, clock, runs>>

\* The host goes down with parent, child and agents.
Crash ==
    /\ par.pc # "off"
    /\ faults < MaxFaults /\ faults' = faults + 1
    /\ par' = [par EXCEPT !.pc = "off"] /\ d' = Off
    /\ UNCHANGED <<drifted, st, backend, git, report, clock, runs>>

Quiet == par.pc = "off" /\ runs = MaxRuns /\ UNCHANGED vars

Loop == StartRun \/ SessionTimeout \/ SpawnRound
Call ==
    \/ Policy \/ Attempt \/ BudgetSpent \/ CallAgain
    \/ Found \/ Synthesize \/ NoReport
    \/ WorkerDone \/ Approve \/ AskAgain \/ Exhausted
Agent ==
    AgentSucceeds \/ InvalidResume \/ AgentFails \/ PermanentFailure \/ AgentDies

Next ==
    \/ Loop \/ Call \/ AgentTimesOut \/ Agent
    \/ Tick \/ ReportWritten \/ MoveHead \/ Crash \/ Quiet

Spec == Init /\ [][Next]_vars

\* Parent and child run, and the child looks at the clock while an agent runs.
\* Nothing makes an agent end, not even SIGTERM.
FairSpec ==
    Spec /\ WF_vars(SessionTimeout \/ SpawnRound) /\ WF_vars(Call) /\ WF_vars(AgentTimesOut)

-----------------------------------------------------------------------------
(* Properties.                                                             *)

\* A role's dispatch spawns at most dispatch_retries + 1 agents with each of its
\* two calls: the fallback from an invalid session is one of them, and no timeout
\* is retried by the second.  For both together see AttemptsAreBounded.
SpawnsAreBounded == d.spawned <= d.call * MaxAttempts

\* What README.md:237 says of a dispatch, which the code does not keep (a finding):
\* the call after a timeout begins again with attempts of its own.
AttemptsAreBounded == d.spawned <= MaxAttempts

\* With max_session_rounds no agent is given a session that began so many rounds
\* ago, also when it was resumed and stored again in between, and after a resumed
\* run: store_session keeps the round the backend made it in.
RotationIsStrict ==
    MaxSessionRounds > 0 /\ d.pc = "running" /\ d.resume # NoSession
        => st.round - d.resume.round < MaxSessionRounds

\* The session an agent is given was made for the same role, by the backend it is
\* given to, and under the same contract: never for a run that was begun anew.
SessionIsTheRoles ==
    d.pc = "running" /\ d.resume # NoSession
        => d.resume = [role |-> d.role, backend |-> backend[d.role],
                             round |-> d.resume.round, run |-> st.run]

\* Once a round has found the head moved under its contract, neither role goes on
\* with an old session in that round, although the worker's report makes the
\* contract hold again before the reviewer is asked.
BothStartOver ==
    drifted /\ d.pc = "running" /\ d.resume # NoSession => d.resume.round = st.round

\* No agent is spawned past the deadline the parent holds in memory, attempts of
\* the second call included, unless stale cleanup wiped it from state.json.
NothingSpawnedLate ==
    [][d'.spawned > d.spawned => ~Late(par.deadline) \/ st.deadline = 0]_vars

\* The child waits for an agent that nothing will make end.
WaitsForAgent == d.pc = "dying" \/ (d.pc = "running" /\ ~par.timed)

\* Every dispatch, round and run comes to its end, unless it comes to wait for an
\* agent that never ends: one that ignores SIGTERM, or any without a
\* dispatch_timeout.  Retries, second calls, rounds and late reports do not go on
\* for ever between them.
EveryRunEnds == []<>(par.pc = "off") \/ <>[]WaitsForAgent
=============================================================================
