-------------------------- MODULE Dispatch_proofs --------------------------
(***************************************************************************)
(* What Dispatch does with attempts, sessions and the deadline, for any    *)
(* number of retries, rounds, backends, commands and faults.  One          *)
(* inductive invariant carries all five properties: a session in           *)
(* state.json is as old as the round it is filed under, what a dispatch    *)
(* has in hand is that session or one it made itself, and the attempts of  *)
(* the two calls add up.                                                   *)
(***************************************************************************)
EXTENDS Dispatch, TLAPS

-----------------------------------------------------------------------------
(* The invariant.                                                          *)

Waiting ==
    /\ d.pc # "off" => par.pc = "wait"
    /\ par.pc # "off" => st.round >= 1
    /\ st.phase \in {"work", "review"} => st.round >= 1

Counts ==
    /\ d.pc = "policy" => d = Dispatching(d.role)
    /\ d.pc = "check" => d.attempt < MaxAttempts
    /\ d.pc = "pause" => d.call = 1
    /\ d.call = 1 => d.spawned <= d.attempt
    /\ d.call = 2 => d.spawned <= MaxAttempts + d.attempt

\* A session in state.json: whose it is, and how old.
EntryHolds(r) ==
    LET e == st.sessions[r]
    IN  e.id # NoSession =>
            /\ e.id = [role |-> r, backend |-> e.backend, round |-> e.from, run |-> st.run]
            /\ e.from >= 1
            /\ drifted /\ par.pc = "wait" => e.from = st.round

Entries == \A r \in Role : EntryHolds(r)

\* What the dispatch was given, what it uses and what it got.
Given ==
    d.asked # NoSession =>
        /\ d.asked = Mine(st.sessions).id /\ Mine(st.sessions).backend = backend[d.role]
        /\ MaxSessionRounds > 0 => st.round - Mine(st.sessions).from < MaxSessionRounds

InHand ==
    d.pc \notin {"off", "done"} =>
        /\ Given
        /\ d.resume \in {NoSession, d.asked}
        /\ d.got \in {NoSession, d.asked, NewSession}

Budget == par.pc # "off" => st.deadline \in {0, par.deadline}

IInv == TypeOK /\ Waiting /\ Counts /\ Entries /\ InHand /\ Budget

-----------------------------------------------------------------------------
(* Types.                                                                  *)

LEMMA Attempts == MaxAttempts \in Nat \ {0}
BY RetriesAssumption DEF MaxAttempts

LEMMA OffIsJob == Off \in Job
BY Attempts DEF Off, Job, DispatchPc, Role, Ids

LEMMA DispatchingIsJob ==
    ASSUME NEW r \in Role
    PROVE  /\ Dispatching(r) \in Job
           /\ Dispatching(r).pc = "policy" /\ Dispatching(r).role = r
           /\ Dispatching(r).call = 1 /\ Dispatching(r).attempt = 0
           /\ Dispatching(r).spawned = 0 /\ Dispatching(r).asked = NoSession
           /\ Dispatching(r).resume = NoSession /\ Dispatching(r).got = NoSession
<1>1. Dispatching(r) \in Job
  BY OffIsJob DEF Job, DispatchPc, Dispatching
<1>2. QED
  BY <1>1 DEF Dispatching, Off

LEMMA NoneIsEntry ==
    TypeOK => NoSessions \in [Role -> Entry]
BY DEF TypeOK, NoSessions, Entry, Ids

\* The fields of the contract and of the job, for the steps that change some.
LEMMA Fields ==
    ASSUME TypeOK
    PROVE  /\ st.phase \in Phases /\ st.run \in Nat /\ st.round \in Nat
           /\ st.round \in 0..MaxRounds
           /\ st.head \in 0..MaxHeads /\ st.sessions \in [Role -> Entry] /\ st.deadline \in Nat
           /\ d.role \in Role /\ d.call \in 1..2 /\ d.attempt \in 0..MaxAttempts
           /\ d.attempt \in Nat /\ d.spawned \in Nat /\ d.asked \in Ids /\ d.resume \in Ids
           /\ d.got \in Ids /\ d.pc \in DispatchPc
           /\ par.deadline \in Nat /\ par.timed \in BOOLEAN /\ backend[d.role] \in Backends
           /\ MaxRounds \in Nat /\ MaxHeads \in Nat
           /\ \A r \in Role : /\ st.sessions[r] \in Entry /\ st.sessions[r].from \in Nat
                              /\ st.sessions[r].id \in Ids /\ st.sessions[r].backend \in Backends
BY RoundsAssumption, BoundsAssumption, Attempts DEF TypeOK, Contract, Job, Entry

LEMMA NewIsSession ==
    TypeOK => NewSession \in Session
BY Fields DEF NewSession, Session

LEMMA WithoutIsEntry ==
    TypeOK => Without(d.role) \in [Role -> Entry]
<1> SUFFICES ASSUME TypeOK PROVE Without(d.role) \in [Role -> Entry]
  OBVIOUS
<1>1. [st.sessions[d.role] EXCEPT !.id = NoSession] \in Entry
  BY Fields DEF Entry, Ids
<1>2. [[st.sessions[d.role] EXCEPT !.id = NoSession] EXCEPT !.from = 0] \in Entry
  BY <1>1 DEF Entry
<1>3. QED
  BY <1>1, <1>2, Fields DEF Without

LEMMA StoredIsEntry ==
    TypeOK => Stored \in [Role -> Entry]
BY Fields DEF Stored, Entry, Ids

LEMMA ContractStep ==
    ASSUME IInv, [Next]_vars
    PROVE  st' \in Contract
<1> USE DEF IInv
<1>1. CASE UNCHANGED <<st>>
  BY <1>1 DEF TypeOK, Contract, Phases
<1>2. CASE StartRun
  <2>1. PICK arm \in BOOLEAN :
          st' = IF Resumes
                THEN [st EXCEPT !.phase = "work", !.deadline = Deadline(arm)]
                ELSE [phase |-> "work", run |-> st.run + 1, round |-> 1, head |-> git,
                      sessions |-> NoSessions,
                      deadline |-> IF CleansStale THEN 0 ELSE Deadline(arm)]
    BY <1>2 DEF StartRun
  <2>2. Deadline(arm) \in Nat
    BY Fields DEF Deadline, TypeOK
  <2>3. 1 \in 0..MaxRounds /\ git \in 0..MaxHeads /\ st.run + 1 \in Nat
    BY Fields, RoundsAssumption DEF TypeOK
  <2>4. CASE Resumes
    BY <2>1, <2>2, <2>4, Fields DEF TypeOK, Contract, Phases
  <2>5. CASE ~Resumes
    BY <2>1, <2>2, <2>3, <2>5, NoneIsEntry DEF Contract, Phases
  <2>6. QED
    BY <2>4, <2>5
<1>3. CASE SessionTimeout
  BY <1>3, Fields, NoneIsEntry, WithoutIsEntry, StoredIsEntry DEF TypeOK, Contract, Phases,
    SessionTimeout
<1>4. CASE SpawnRound
  BY <1>4, Fields, NoneIsEntry, WithoutIsEntry, StoredIsEntry DEF TypeOK, Contract, Phases,
    SpawnRound
<1>5. CASE Policy
  BY <1>5, Fields, NoneIsEntry, WithoutIsEntry, StoredIsEntry DEF TypeOK, Contract, Phases,
    Policy, Cleared
<1>6. CASE Found
  BY <1>6, Fields, NoneIsEntry, WithoutIsEntry, StoredIsEntry DEF TypeOK, Contract, Phases,
    Found, Returned
<1>7. CASE Synthesize
  BY <1>7, Fields, NoneIsEntry, WithoutIsEntry, StoredIsEntry DEF TypeOK, Contract, Phases,
    Synthesize, Returned
<1>8. CASE NoReport
  BY <1>8, Fields, NoneIsEntry, WithoutIsEntry, StoredIsEntry DEF TypeOK, Contract, Phases,
    NoReport, Fail, EndRun
<1>9. CASE WorkerDone
  BY <1>9, Fields, NoneIsEntry, WithoutIsEntry, StoredIsEntry DEF TypeOK, Contract, Phases,
    WorkerDone
<1>10. CASE Approve
  BY <1>10, Fields, NoneIsEntry, WithoutIsEntry, StoredIsEntry DEF TypeOK, Contract, Phases,
    Approve
<1>11. CASE AskAgain
  <2>1. st.round + 1 \in 0..MaxRounds
    BY <1>11, Fields DEF AskAgain
  <2>2. QED
    BY <1>11, <2>1, Fields DEF AskAgain, TypeOK, Contract, Phases
<1>12. CASE Exhausted
  BY <1>12, Fields, NoneIsEntry, WithoutIsEntry, StoredIsEntry DEF TypeOK, Contract, Phases,
    Exhausted
<1>13. CASE InvalidResume
  BY <1>13, Fields, NoneIsEntry, WithoutIsEntry, StoredIsEntry DEF TypeOK, Contract, Phases,
    InvalidResume, Fail, AgentActs, Commits, EndRun
<1>14. CASE AgentFails
  BY <1>14, Fields, NoneIsEntry, WithoutIsEntry, StoredIsEntry DEF TypeOK, Contract, Phases,
    AgentFails, Fail, AgentActs, Commits, EndRun
<1>15. CASE PermanentFailure
  BY <1>15, Fields, NoneIsEntry, WithoutIsEntry, StoredIsEntry DEF TypeOK, Contract, Phases,
    PermanentFailure, Fail, AgentActs, Commits, EndRun
<1>16. QED
  BY <1>1, <1>2, <1>3, <1>4, <1>5, <1>6, <1>7, <1>8, <1>9, <1>10, <1>11, <1>12, <1>13, <1>14,
    <1>15 DEF Next, Loop, Call, Agent, AgentActs, Commits, vars,
     Attempt, BudgetSpent, CallAgain, AgentSucceeds, AgentTimesOut, AgentDies, Tick, ReportWritten,
     MoveHead, Crash, Quiet

LEMMA JobStep ==
    ASSUME IInv, [Next]_vars
    PROVE  d' \in Job
<1> USE DEF IInv
<1>1. CASE UNCHANGED <<d>>
  BY <1>1 DEF TypeOK, Job, DispatchPc
<1>2. CASE SpawnRound
  BY <1>2, Fields, OffIsJob, DispatchingIsJob DEF TypeOK, Job, DispatchPc, SpawnRound, Role
<1>3. CASE Policy
  <2>1. PICK id \in Ids : d' = [d EXCEPT !.pc = "check", !.asked = id, !.resume = id]
    BY <1>3, Fields DEF Policy, Mine, Ids
  <2>2. QED
    BY <2>1, Fields DEF TypeOK, Job, DispatchPc
<1>4. CASE Attempt
  <2>1. d.attempt + 1 \in 0..MaxAttempts /\ Counted(d.spawned) \in Nat
    BY <1>4, Fields, Attempts DEF Attempt, Counts, Counted
  <2>2. QED
    BY <1>4, <2>1, Fields DEF Attempt, TypeOK, Job, DispatchPc
<1>5. CASE BudgetSpent
  <2>1. d.attempt + 1 \in 0..MaxAttempts
    BY <1>5, Fields, Attempts DEF BudgetSpent, Counts
  <2>2. QED
    BY <1>5, <2>1, Fields DEF BudgetSpent, AfterTimeout, TypeOK, Job, DispatchPc
<1>6. CASE CallAgain
  <2>1. 0 \in 0..MaxAttempts /\ 2 \in 1..2 /\ "check" \in DispatchPc
    BY Attempts DEF DispatchPc
  <2>2. QED
    BY <1>6, <2>1, Fields DEF CallAgain, TypeOK, Job
<1>7. CASE Found
  BY <1>7, Fields, OffIsJob, DispatchingIsJob DEF TypeOK, Job, DispatchPc, Found, Returned
<1>8. CASE Synthesize
  BY <1>8, Fields, OffIsJob, DispatchingIsJob DEF TypeOK, Job, DispatchPc, Synthesize, Returned
<1>9. CASE NoReport
  BY <1>9, Fields, OffIsJob, DispatchingIsJob DEF TypeOK, Job, DispatchPc, NoReport, Fail,
    EndRun
<1>10. CASE WorkerDone
  BY <1>10, Fields, OffIsJob, DispatchingIsJob DEF TypeOK, Job, DispatchPc, WorkerDone, Role
<1>11. CASE Approve
  BY <1>11, Fields, OffIsJob, DispatchingIsJob DEF TypeOK, Job, DispatchPc, Approve
<1>12. CASE AskAgain
  BY <1>12, Fields, OffIsJob, DispatchingIsJob DEF TypeOK, Job, DispatchPc, AskAgain
<1>13. CASE Exhausted
  BY <1>13, Fields, OffIsJob, DispatchingIsJob DEF TypeOK, Job, DispatchPc, Exhausted
<1>14. CASE AgentSucceeds
  <2>1. NewSession \in Ids
    BY NewIsSession DEF Ids
  <2>2. QED
    BY <1>14, <2>1, Fields DEF AgentSucceeds, TypeOK, Job, DispatchPc
<1>15. CASE InvalidResume
  <2>1. NoSession \in Ids
    BY DEF Ids
  <2>2. CASE AttemptsLeft
    BY <1>15, <2>1, <2>2, Fields DEF InvalidResume, TypeOK, Job, DispatchPc
  <2>3. CASE ~AttemptsLeft
    BY <1>15, <2>3, OffIsJob DEF InvalidResume, Fail
  <2>4. QED
    BY <2>2, <2>3
<1>16. CASE AgentFails
  BY <1>16, Fields, OffIsJob, DispatchingIsJob DEF TypeOK, Job, DispatchPc, AgentFails, Fail,
    AgentActs, Commits, EndRun
<1>17. CASE PermanentFailure
  BY <1>17, Fields, OffIsJob, DispatchingIsJob DEF TypeOK, Job, DispatchPc, PermanentFailure,
    Fail, AgentActs, Commits, EndRun
<1>18. CASE AgentTimesOut \/ AgentDies
  BY <1>18, Fields, OffIsJob, DispatchingIsJob DEF TypeOK, Job, DispatchPc, AgentTimesOut,
    AgentDies, AgentActs, Commits, AfterTimeout
<1>19. CASE Crash
  BY <1>19, Fields, OffIsJob, DispatchingIsJob DEF TypeOK, Job, DispatchPc, Crash
<1>20. QED
  BY <1>1, <1>2, <1>3, <1>4, <1>5, <1>6, <1>7, <1>8, <1>9, <1>10, <1>11, <1>12, <1>13, <1>14,
    <1>15, <1>16, <1>17, <1>18, <1>19 DEF Next, Loop, Call, Agent, AgentActs, Commits, vars,
     StartRun, SessionTimeout, Tick, ReportWritten, MoveHead, Quiet

LEMMA TypeStep ==
    ASSUME IInv, [Next]_vars
    PROVE  TypeOK'
<1>1. st' \in Contract /\ d' \in Job
  BY ContractStep, JobStep
<1>2. /\ par' \in [pc : {"off", "loop", "wait"}, deadline : Nat, timed : BOOLEAN]
      /\ backend' \in [Role -> Backends]
      /\ git' \in 0..MaxHeads /\ clock' \in Nat /\ runs' \in Nat /\ faults' \in Nat
      /\ report' \in BOOLEAN /\ drifted' \in BOOLEAN
  <2> USE DEF IInv
  <2>1. CASE StartRun
    BY <2>1, Fields DEF TypeOK, StartRun, Deadline
  <2>2. CASE SessionTimeout \/ SpawnRound
    BY <2>2, Fields DEF TypeOK, SessionTimeout, SpawnRound, EndRun
  <2>3. CASE Policy
    BY <2>3, Fields DEF TypeOK, Policy
  <2>4. CASE Attempt \/ BudgetSpent \/ CallAgain
    BY <2>4, Fields DEF TypeOK, Attempt, BudgetSpent, CallAgain
  <2>5. CASE Found \/ Synthesize \/ NoReport
    BY <2>5, Fields DEF TypeOK, Found, Synthesize, NoReport, Fail, EndRun
  <2>6. CASE WorkerDone \/ Approve \/ AskAgain \/ Exhausted
    BY <2>6, Fields DEF TypeOK, WorkerDone, Approve, AskAgain, Exhausted, EndRun
  <2>7. CASE AgentSucceeds \/ AgentTimesOut \/ AgentDies
    BY <2>7, Fields DEF TypeOK, AgentSucceeds, AgentTimesOut, AgentDies, AgentActs, Commits
  <2>8. CASE InvalidResume
    BY <2>8, Fields DEF TypeOK, InvalidResume, AgentActs, Commits, Fail, EndRun
  <2>9. CASE AgentFails
    BY <2>9, Fields DEF TypeOK, AgentFails, AgentActs, Commits, Fail, EndRun
  <2>10. CASE PermanentFailure
    BY <2>10, Fields DEF TypeOK, PermanentFailure, AgentActs, Commits, Fail, EndRun
  <2>11. CASE Tick
    BY <2>11, Fields DEF TypeOK, Tick
  <2>12. CASE ReportWritten
    BY <2>12, Fields DEF TypeOK, ReportWritten
  <2>13. CASE MoveHead
    BY <2>13, Fields DEF TypeOK, MoveHead
  <2>14. CASE Crash
    BY <2>14, Fields DEF TypeOK, Crash
  <2>15. CASE Quiet
    BY <2>15, Fields DEF TypeOK, Quiet, vars
  <2>16. CASE UNCHANGED vars
    BY <2>16 DEF TypeOK, vars
  <2>17. QED
    BY <2>1, <2>2, <2>3, <2>4, <2>5, <2>6, <2>7, <2>8, <2>9, <2>10, <2>11, <2>12, <2>13,
      <2>14, <2>15, <2>16 DEF Next, Loop, Call, Agent
<1>3. QED
  BY <1>1, <1>2 DEF TypeOK

LEMMA WaitingStep ==
    ASSUME IInv, [Next]_vars
    PROVE  Waiting'
<1> USE DEF IInv
<1>1. CASE StartRun
  BY <1>1, Fields DEF Waiting, StartRun, Resumes
<1>2. CASE SessionTimeout
  BY <1>2, Fields DEF Waiting, SessionTimeout, EndRun, TypeOK, Contract
<1>3. CASE SpawnRound
  BY <1>3, Fields DEF Waiting, SpawnRound, TypeOK, Contract
<1>4. CASE Policy
  BY <1>4 DEF Waiting, Policy, TypeOK, Contract
<1>5. CASE Attempt \/ BudgetSpent \/ CallAgain
  BY <1>5 DEF Waiting, Attempt, BudgetSpent, CallAgain
<1>6. CASE Found \/ Synthesize
  BY <1>6 DEF Waiting, Found, Synthesize, Returned, TypeOK, Contract, Job
<1>7. CASE NoReport
  BY <1>7, Fields DEF Waiting, NoReport, Fail, EndRun, Off, TypeOK, Contract
<1>8. CASE WorkerDone
  BY <1>8, Fields DEF Waiting, WorkerDone, TypeOK, Contract
<1>9. CASE Approve \/ Exhausted
  BY <1>9, Fields DEF Waiting, Approve, Exhausted, EndRun, Off, TypeOK, Contract
<1>10. CASE AskAgain
  BY <1>10, Fields DEF Waiting, AskAgain, Off, TypeOK, Contract
<1>11. CASE AgentSucceeds \/ AgentTimesOut \/ AgentDies
  BY <1>11 DEF Waiting, AgentSucceeds, AgentTimesOut, AgentDies, AgentActs, Commits
<1>12. CASE InvalidResume
  <2>1. CASE AttemptsLeft
    BY <1>12, <2>1 DEF Waiting, InvalidResume, AgentActs, Commits
  <2>2. CASE ~AttemptsLeft
    <3>1. d'.pc = "off"
      BY <1>12, <2>2 DEF InvalidResume, Fail, Off
    <3>2. par'.pc = "off"
      BY <1>12, <2>2 DEF InvalidResume, Fail, EndRun, TypeOK
    <3>3. st'.phase = "done"
      BY <1>12, <2>2 DEF InvalidResume, Fail, TypeOK, Contract
    <3>4. QED
      BY <3>1, <3>2, <3>3 DEF Waiting
  <2>3. QED
    BY <2>1, <2>2
<1>13. CASE AgentFails
  <2>1. CASE AttemptsLeft
    BY <1>13, <2>1 DEF Waiting, AgentFails, AgentActs, Commits
  <2>2. CASE ~AttemptsLeft
    <3>1. d'.pc = "off"
      BY <1>13, <2>2 DEF AgentFails, Fail, Off
    <3>2. par'.pc = "off"
      BY <1>13, <2>2 DEF AgentFails, Fail, EndRun, TypeOK
    <3>3. st'.phase = "done"
      BY <1>13, <2>2 DEF AgentFails, Fail, TypeOK, Contract
    <3>4. QED
      BY <3>1, <3>2, <3>3 DEF Waiting
  <2>3. QED
    BY <2>1, <2>2
<1>14. CASE PermanentFailure
  BY <1>14, Fields DEF Waiting, PermanentFailure, AgentActs, Commits, Fail, EndRun, Off,
    TypeOK, Contract
<1>15. CASE Tick \/ ReportWritten \/ MoveHead
  BY <1>15 DEF Waiting, Tick, ReportWritten, MoveHead
<1>16. CASE Crash
  BY <1>16 DEF Waiting, Crash, Off, TypeOK
<1>17. CASE Quiet \/ UNCHANGED vars
  BY <1>17 DEF Waiting, Quiet, vars
<1>18. QED
  BY <1>1, <1>2, <1>3, <1>4, <1>5, <1>6, <1>7, <1>8, <1>9, <1>10, <1>11, <1>12, <1>13, <1>14,
    <1>15, <1>16, <1>17 DEF Next, Loop, Call, Agent

LEMMA CountsStep ==
    ASSUME IInv, [Next]_vars
    PROVE  Counts'
<1> USE DEF IInv
<1>1. CASE StartRun \/ SessionTimeout \/ Tick \/ ReportWritten \/ MoveHead \/ Quiet
           \/ UNCHANGED vars
  BY <1>1 DEF Counts, StartRun, SessionTimeout, Tick, ReportWritten, MoveHead, Quiet, vars
<1>2. CASE SpawnRound \/ WorkerDone
  BY <1>2, DispatchingIsJob DEF Counts, SpawnRound, WorkerDone, Role
<1>3. CASE Policy
  BY <1>3, Fields, DispatchingIsJob, Attempts DEF Counts, Policy, TypeOK, Job
<1>4. CASE Attempt
  <2>1. d'.pc = "running" /\ d'.attempt = d.attempt + 1 /\ d'.call = d.call
    BY <1>4 DEF Attempt, TypeOK, Job
  <2>2. d'.spawned = Counted(d.spawned)
    BY <1>4 DEF Attempt, TypeOK, Job
  <2>3. Counted(d.spawned) <= d.spawned + 1
    BY Fields, Attempts DEF Counted
  <2>4. QED
    BY <2>1, <2>2, <2>3, Fields, Attempts DEF Counts, Counted
<1>5. CASE BudgetSpent
  BY <1>5, Fields, Attempts DEF Counts, BudgetSpent, AfterTimeout, TypeOK, Job
<1>6. CASE CallAgain
  BY <1>6, Fields, Attempts DEF Counts, CallAgain, TypeOK, Job
<1>7. CASE Found \/ Synthesize
  BY <1>7 DEF Counts, Found, Synthesize, Returned, TypeOK, Job
<1>8. CASE NoReport \/ Approve \/ AskAgain \/ Exhausted \/ PermanentFailure \/ Crash
  BY <1>8, Attempts DEF Counts, NoReport, Fail, Approve, AskAgain, Exhausted,
    PermanentFailure, Crash, Off
<1>9. CASE AgentSucceeds \/ AgentTimesOut \/ AgentDies
  BY <1>9, Fields DEF Counts, AgentSucceeds, AgentTimesOut, AgentDies, AfterTimeout, TypeOK, Job
<1>10. CASE InvalidResume \/ AgentFails
  <2>1. CASE AttemptsLeft
    BY <1>10, <2>1, Fields DEF Counts, InvalidResume, AgentFails, AttemptsLeft, TypeOK, Job
  <2>2. CASE ~AttemptsLeft
    BY <1>10, <2>2, Attempts DEF Counts, InvalidResume, AgentFails, Fail, Off
  <2>3. QED
    BY <2>1, <2>2
<1>11. QED
  BY <1>1, <1>2, <1>3, <1>4, <1>5, <1>6, <1>7, <1>8, <1>9, <1>10 DEF Next, Loop, Call, Agent

LEMMA BudgetStep ==
    ASSUME IInv, [Next]_vars
    PROVE  Budget'
<1> USE DEF IInv
<1>1. CASE StartRun
  BY <1>1, Fields DEF Budget, StartRun, Deadline, TypeOK, Contract
<1>2. CASE SessionTimeout \/ SpawnRound
  BY <1>2, Fields DEF Budget, SessionTimeout, SpawnRound, EndRun, TypeOK, Contract
<1>3. CASE Policy \/ Found \/ Synthesize \/ WorkerDone \/ AskAgain
  BY <1>3, Fields DEF Budget, Policy, Found, Synthesize, Returned, WorkerDone, AskAgain,
    Waiting, TypeOK, Contract
<1>4. CASE NoReport \/ Approve \/ Exhausted \/ PermanentFailure
  BY <1>4, Fields DEF Budget, NoReport, Approve, Exhausted, PermanentFailure, Fail, EndRun,
    TypeOK, Contract
<1>5. CASE InvalidResume
  BY <1>5, Fields DEF Budget, InvalidResume, Fail, EndRun, TypeOK, Contract
<1>6. CASE AgentFails
  BY <1>6, Fields DEF Budget, AgentFails, Fail, EndRun, TypeOK, Contract
<1>7. CASE Attempt \/ BudgetSpent \/ CallAgain \/ AgentSucceeds \/ AgentTimesOut \/ AgentDies
  BY <1>7 DEF Budget, Attempt, BudgetSpent, CallAgain, AgentSucceeds, AgentTimesOut, AgentDies
<1>8. CASE Tick \/ ReportWritten \/ MoveHead \/ Crash
  BY <1>8 DEF Budget, Tick, ReportWritten, MoveHead, Crash, TypeOK
<1>9. CASE Quiet \/ UNCHANGED vars
  BY <1>9 DEF Budget, Quiet, vars
<1>10. QED
  BY <1>1, <1>2, <1>3, <1>4, <1>5, <1>6, <1>7, <1>8, <1>9 DEF Next, Loop, Call, Agent

\* Nothing a step leaves alone loses its place; an empty list has nothing to lose.
LEMMA EntriesKept ==
    ASSUME Entries,
           st'.sessions = st.sessions, st'.run = st.run,
           drifted' /\ par'.pc = "wait" => drifted /\ par.pc = "wait" /\ st'.round = st.round
    PROVE  Entries'
BY DEF Entries, EntryHolds

LEMMA EntriesEmpty ==
    ASSUME \A r \in Role : st'.sessions[r].id = NoSession
    PROVE  Entries'
BY DEF Entries, EntryHolds

LEMMA NoneIsEmpty ==
    ASSUME NEW r \in Role
    PROVE  NoSessions[r].id = NoSession
BY DEF NoSessions

LEMMA HandKept ==
    ASSUME InHand, d.pc \notin {"off", "done"},
           st' = st, backend' = backend, d'.role = d.role, d'.asked = d.asked,
           d'.resume \in {NoSession, d.asked}, d'.got \in {NoSession, d.asked, NewSession}
    PROVE  InHand'
BY DEF InHand, Given, Mine, NewSession

LEMMA HandEmpty ==
    ASSUME \/ d'.pc \in {"off", "done"}
           \/ d'.asked = NoSession /\ d'.resume = NoSession /\ d'.got = NoSession
    PROVE  InHand'
BY DEF InHand, Given

LEMMA EntriesStep ==
    ASSUME IInv, [Next]_vars
    PROVE  Entries'
<1> USE DEF IInv
<1>1. CASE StartRun
  <2>1. par'.pc # "wait"
    BY <1>1 DEF StartRun
  <2>2. CASE Resumes
    <3>1. st'.sessions = st.sessions /\ st'.run = st.run
      BY <1>1, <2>2, Fields DEF StartRun, TypeOK, Contract
    <3>2. QED
      BY <2>1, <3>1, EntriesKept
  <2>3. CASE ~Resumes
    <3>1. st'.sessions = NoSessions
      BY <1>1, <2>3 DEF StartRun
    <3>2. QED
      BY <3>1, NoneIsEmpty, EntriesEmpty
  <2>4. QED
    BY <2>2, <2>3
<1>2. CASE SpawnRound
  <2>1. CASE st.round = 1
    <3>1. st'.sessions = NoSessions
      BY <1>2, <2>1, Fields DEF SpawnRound, TypeOK, Contract
    <3>2. QED
      BY <3>1, NoneIsEmpty, EntriesEmpty
  <2>2. CASE st.round # 1
    BY <1>2, <2>2, EntriesKept DEF SpawnRound
  <2>3. QED
    BY <2>1, <2>2
<1>3. CASE Policy
  <2>1. CASE ~ContractHolds
    <3>1. st'.sessions = NoSessions
      BY <1>3, <2>1, Fields DEF Policy, Cleared, TypeOK, Contract
    <3>2. QED
      BY <3>1, NoneIsEmpty, EntriesEmpty
  <2>2. CASE ContractHolds
    <3>1. drifted' = drifted /\ par' = par /\ st'.run = st.run /\ st'.round = st.round
      BY <1>3, <2>2, Fields DEF Policy, TypeOK, Contract
    <3>2. CASE Candidate /\ Rotated
      <4>1. st'.sessions = Without(d.role)
        BY <1>3, <2>2, <3>2, Fields DEF Policy, TypeOK, Contract
      <4>2. ASSUME NEW r \in Role PROVE EntryHolds(r)'
        <5>1. CASE r = d.role
          BY <4>1, <5>1, Fields DEF Without, EntryHolds, Entry
        <5>2. CASE r # d.role
          <6>1. st'.sessions[r] = st.sessions[r]
            BY <4>1, <5>2, Fields DEF Without
          <6>2. EntryHolds(r)
            BY DEF Entries
          <6>3. QED
            BY <3>1, <6>1, <6>2 DEF EntryHolds
        <5>3. QED
          BY <5>1, <5>2
      <4>3. QED
        BY <4>2 DEF Entries
    <3>3. CASE ~(Candidate /\ Rotated)
      <4>1. st'.sessions = st.sessions
        BY <1>3, <2>2, <3>3, Fields DEF Policy, TypeOK, Contract
      <4>2. QED
        BY <3>1, <4>1, EntriesKept
    <3>4. QED
      BY <3>2, <3>3
  <2>3. QED
    BY <2>1, <2>2
<1>4. CASE Found \/ Synthesize
  <2>1. /\ st'.sessions = Stored /\ st'.run = st.run /\ st'.round = st.round
        /\ drifted' = drifted /\ par' = par
    BY <1>4, Fields DEF Found, Synthesize, Returned, TypeOK, Contract
  <2>2. CASE d.got = NoSession
    BY <2>1, <2>2, EntriesKept DEF Stored
  <2>3. CASE d.got # NoSession
    <3> DEFINE e == Stored[d.role]
               mine == Mine(st.sessions)
    <3>1. /\ e.id = d.got /\ e.backend = backend[d.role]
          /\ e.from = IF mine.id = d.got /\ mine.from # 0 THEN mine.from ELSE st.round
      BY <2>3, Fields DEF Stored, Mine
    <3>2. d.pc \notin {"off", "done"} /\ par.pc = "wait" /\ st.round >= 1
      BY <1>4 DEF Found, Synthesize, Waiting
    <3>3. EntryHolds(d.role)
      BY Fields DEF Entries
    <3>4. ASSUME e.id = [role |-> d.role, backend |-> e.backend, round |-> e.from,
                         run |-> st.run],
                 e.from >= 1, drifted => e.from = st.round
          PROVE  Entries'
      <4>1. ASSUME NEW r \in Role PROVE EntryHolds(r)'
        <5>1. CASE r = d.role
          BY <2>1, <3>2, <3>4, <5>1 DEF EntryHolds
        <5>2. CASE r # d.role
          <6>1. st'.sessions[r] = st.sessions[r]
            BY <2>1, <5>2, Fields DEF Stored
          <6>2. EntryHolds(r)
            BY DEF Entries
          <6>3. QED
            BY <2>1, <6>1, <6>2 DEF EntryHolds
        <5>3. QED
          BY <5>1, <5>2
      <4>2. QED
        BY <4>1 DEF Entries
    <3>5. CASE d.got = NewSession
      <4>1. d.got = [role |-> d.role, backend |-> backend[d.role], round |-> st.round,
                     run |-> st.run]
        BY <3>5 DEF NewSession
      <4>2. mine.id = d.got => mine.from = st.round
        BY <2>3, <3>3, <4>1 DEF EntryHolds, Mine
      <4>3. e.from = st.round
        BY <3>1, <4>2
      <4>4. QED
        BY <3>1, <3>2, <3>4, <4>1, <4>3
    <3>6. CASE d.got = d.asked
      <4>1. d.got = mine.id /\ mine.backend = backend[d.role]
        BY <2>3, <3>2, <3>6 DEF InHand, Given
      <4>2. /\ mine.id = [role |-> d.role, backend |-> mine.backend, round |-> mine.from,
                          run |-> st.run]
            /\ mine.from >= 1 /\ (drifted => mine.from = st.round)
        BY <2>3, <3>2, <3>3, <4>1 DEF EntryHolds, Mine
      <4>3. e.from = mine.from
        BY <3>1, <4>1, <4>2, Fields DEF Mine
      <4>4. QED
        BY <3>1, <3>4, <4>1, <4>2, <4>3
    <3>7. QED
      BY <2>3, <3>2, <3>5, <3>6 DEF InHand
  <2>4. QED
    BY <2>2, <2>3
<1>5. CASE SessionTimeout
  <2>1. st'.sessions = st.sessions /\ st'.run = st.run
    BY <1>5, Fields DEF SessionTimeout, EndRun, TypeOK, Contract
  <2>2. drifted' /\ par'.pc = "wait" => drifted /\ par.pc = "wait" /\ st'.round = st.round
    BY <1>5, Fields DEF SessionTimeout, EndRun, TypeOK, Contract
  <2>3. QED
    BY <2>1, <2>2, EntriesKept
<1>6. CASE WorkerDone \/ Approve \/ Exhausted \/ AskAgain
  <2>1. st'.sessions = st.sessions /\ st'.run = st.run
    BY <1>6, Fields DEF WorkerDone, Approve, Exhausted, AskAgain, EndRun, TypeOK, Contract
  <2>2. drifted' /\ par'.pc = "wait" => drifted /\ par.pc = "wait" /\ st'.round = st.round
    BY <1>6, Fields DEF WorkerDone, Approve, Exhausted, AskAgain, EndRun, TypeOK, Contract
  <2>3. QED
    BY <2>1, <2>2, EntriesKept
<1>7. CASE NoReport
  <2>1. st'.sessions = st.sessions /\ st'.run = st.run
    BY <1>7, Fields DEF NoReport, Fail, EndRun, TypeOK, Contract
  <2>2. drifted' /\ par'.pc = "wait" => drifted /\ par.pc = "wait" /\ st'.round = st.round
    BY <1>7, Fields DEF NoReport, Fail, EndRun, TypeOK, Contract
  <2>3. QED
    BY <2>1, <2>2, EntriesKept
<1>8. CASE InvalidResume
  <2>1. st'.sessions = st.sessions /\ st'.run = st.run
    BY <1>8, Fields DEF InvalidResume, Fail, EndRun, TypeOK, Contract
  <2>2. drifted' /\ par'.pc = "wait" => drifted /\ par.pc = "wait" /\ st'.round = st.round
    BY <1>8, Fields DEF InvalidResume, Fail, EndRun, TypeOK, Contract
  <2>3. QED
    BY <2>1, <2>2, EntriesKept
<1>9. CASE AgentFails
  <2>1. st'.sessions = st.sessions /\ st'.run = st.run
    BY <1>9, Fields DEF AgentFails, Fail, EndRun, TypeOK, Contract
  <2>2. drifted' /\ par'.pc = "wait" => drifted /\ par.pc = "wait" /\ st'.round = st.round
    BY <1>9, Fields DEF AgentFails, Fail, EndRun, TypeOK, Contract
  <2>3. QED
    BY <2>1, <2>2, EntriesKept
<1>10. CASE PermanentFailure
  <2>1. st'.sessions = NoSessions
    BY <1>10, Fields DEF PermanentFailure, Fail, TypeOK, Contract
  <2>2. QED
    BY <2>1, NoneIsEmpty, EntriesEmpty
<1>11. CASE Attempt \/ BudgetSpent \/ CallAgain \/ AgentSucceeds \/ AgentTimesOut \/ AgentDies
  BY <1>11, EntriesKept DEF Attempt, BudgetSpent, CallAgain, AgentSucceeds, AgentTimesOut, AgentDies
<1>12. CASE Tick \/ ReportWritten \/ MoveHead
  BY <1>12, EntriesKept DEF Tick, ReportWritten, MoveHead
<1>13. CASE Crash
  BY <1>13, EntriesKept DEF Crash, TypeOK
<1>14. CASE Quiet \/ UNCHANGED vars
  BY <1>14, EntriesKept DEF Quiet, vars
<1>15. QED
  BY <1>1, <1>2, <1>3, <1>4, <1>5, <1>6, <1>7, <1>8, <1>9, <1>10, <1>11, <1>12, <1>13,
    <1>14 DEF Next, Loop, Call, Agent

LEMMA InHandStep ==
    ASSUME IInv, [Next]_vars
    PROVE  InHand'
<1> USE DEF IInv
<1>1. CASE StartRun \/ SessionTimeout
  <2>1. d' = d /\ par.pc # "wait"
    BY <1>1 DEF StartRun, SessionTimeout
  <2>2. d'.pc = "off"
    BY <2>1, Fields DEF Waiting
  <2>3. QED
    BY <2>2, HandEmpty
<1>2. CASE SpawnRound \/ WorkerDone
  <2>1. \E r \in Role : d' = Dispatching(r)
    BY <1>2 DEF SpawnRound, WorkerDone, Role
  <2>2. QED
    BY <2>1, DispatchingIsJob, HandEmpty
<1>3. CASE Policy
  <2>1. d.got = NoSession
    BY <1>3, Fields, DispatchingIsJob DEF Counts, Policy
  <2>2. PICK id \in Ids :
          /\ d' = [d EXCEPT !.pc = "check", !.asked = id, !.resume = id]
          /\ id = IF ContractHolds /\ Candidate /\ ~Rotated
                  THEN Mine(st.sessions).id ELSE NoSession
    BY <1>3, Fields DEF Policy, Mine, Ids
  <2>3. /\ d'.asked = id /\ d'.resume = id /\ d'.got = NoSession
        /\ d'.role = d.role /\ backend' = backend /\ st'.round = st.round
    BY <1>3, <2>1, <2>2, Fields DEF Policy, TypeOK, Job, Contract
  <2>4. CASE id = NoSession
    BY <2>3, <2>4, HandEmpty
  <2>5. CASE id # NoSession
    <3>1. ContractHolds /\ Candidate /\ ~Rotated /\ id = Mine(st.sessions).id
      BY <2>2, <2>5
    <3>2. st'.sessions = st.sessions
      BY <1>3, <3>1, Fields DEF Policy, TypeOK, Contract
    <3>3. MaxSessionRounds > 0 => st.round - Mine(st.sessions).from < MaxSessionRounds
      BY <3>1, Fields, RoundsAssumption DEF Rotated, Mine
    <3>4. Given'
      BY <2>3, <3>1, <3>2, <3>3 DEF Given, Candidate, Mine
    <3>5. QED
      BY <2>3, <3>4 DEF InHand
  <2>6. QED
    BY <2>4, <2>5
<1>4. CASE Attempt \/ BudgetSpent \/ CallAgain \/ AgentTimesOut \/ AgentDies
  <2>1. /\ d.pc \notin {"off", "done"} /\ st' = st /\ backend' = backend
        /\ d'.role = d.role /\ d'.asked = d.asked /\ d'.got = d.got
        /\ d'.resume \in {d.resume, d.asked}
    BY <1>4 DEF Attempt, BudgetSpent, CallAgain, AgentTimesOut, AgentDies, TypeOK, Job
  <2>2. QED
    BY <2>1, HandKept DEF InHand
<1>5. CASE AgentSucceeds
  <2>1. /\ d.pc \notin {"off", "done"} /\ st' = st /\ backend' = backend
        /\ d'.role = d.role /\ d'.asked = d.asked /\ d'.resume = d.resume
        /\ d'.got \in {NewSession, d.resume}
    BY <1>5 DEF AgentSucceeds, AgentActs, Commits, TypeOK, Job
  <2>2. QED
    BY <2>1, HandKept DEF InHand
<1>6. CASE InvalidResume \/ AgentFails
  <2>1. CASE AttemptsLeft
    <3>1. /\ d.pc \notin {"off", "done"} /\ st' = st /\ backend' = backend
          /\ d'.role = d.role /\ d'.asked = d.asked /\ d'.got = d.got
          /\ d'.resume \in {NoSession, d.resume}
      BY <1>6, <2>1 DEF InvalidResume, AgentFails, AgentActs, Commits, TypeOK, Job
    <3>2. QED
      BY <3>1, HandKept DEF InHand
  <2>2. CASE ~AttemptsLeft
    BY <1>6, <2>2, HandEmpty DEF InvalidResume, AgentFails, Fail, Off
  <2>3. QED
    BY <2>1, <2>2
<1>7. CASE NoReport \/ PermanentFailure \/ Approve \/ AskAgain \/ Exhausted \/ Crash
  BY <1>7, HandEmpty DEF NoReport, PermanentFailure, Fail, Approve, AskAgain, Exhausted,
    Crash, Off
<1>8. CASE Found \/ Synthesize
  BY <1>8, HandEmpty DEF Found, Synthesize, Returned, TypeOK, Job
<1>9. CASE Tick \/ ReportWritten \/ MoveHead \/ Quiet \/ UNCHANGED vars
  BY <1>9 DEF InHand, Given, Mine, NewSession, Tick, ReportWritten, MoveHead, Quiet, vars
<1>10. QED
  BY <1>1, <1>2, <1>3, <1>4, <1>5, <1>6, <1>7, <1>8, <1>9 DEF Next, Loop, Call, Agent

-----------------------------------------------------------------------------
(* The theorems.                                                           *)

LEMMA InitInv == Init => IInv
<1> SUFFICES ASSUME Init PROVE IInv
  OBVIOUS
<1>1. d = Off /\ par.pc = "off" /\ st.phase = "idle" /\ st.sessions = NoSessions
  BY DEF Init
<1>2. d \in Job /\ d.pc = "off" /\ d.call = 1 /\ d.spawned = 0 /\ d.attempt = 0
  BY <1>1, OffIsJob DEF Off
<1>3. NoSessions \in [Role -> Entry]
  BY DEF Init, NoSessions, Entry, Ids
<1>4. TypeOK
  <2>1. 0 \in 0..MaxRounds /\ 0 \in 0..MaxHeads /\ 0 \in Nat /\ "idle" \in Phases
    BY RoundsAssumption, BoundsAssumption DEF Phases
  <2>2. st \in Contract
    BY <1>3, <2>1 DEF Init, Contract
  <2>3. QED
    BY <1>2, <2>1, <2>2 DEF Init, TypeOK
<1>5. Waiting /\ Counts /\ InHand /\ Budget
  BY <1>1, <1>2, Attempts DEF Waiting, Counts, InHand, Budget
<1>6. Entries
  BY <1>1, NoneIsEmpty DEF Entries, EntryHolds
<1>7. QED
  BY <1>4, <1>5, <1>6 DEF IInv

LEMMA Invariant == Spec => []IInv
<1>1. IInv /\ [Next]_vars => IInv'
  BY TypeStep, WaitingStep, CountsStep, EntriesStep, InHandStep, BudgetStep DEF IInv
<1>2. QED
  BY InitInv, <1>1, PTL DEF Spec

\* Every variable keeps its type: _run_auto_dispatch never counts an attempt past
\* dispatch_retries + 1, and no round is begun past max_rounds.
THEOREM DispatchTypeCorrect == Spec => []TypeOK
BY Invariant, PTL DEF IInv

\* Each call of _dispatch_with_artifact_fallback spawns at most dispatch_retries + 1
\* agents, for any number of retries, timeouts, invalid sessions and rounds.
THEOREM SpawnsBounded == Spec => []SpawnsAreBounded
<1>1. IInv => SpawnsAreBounded
  <2> SUFFICES ASSUME IInv PROVE SpawnsAreBounded
    OBVIOUS
  <2>1. d.call \in 1..2 /\ d.attempt \in 0..MaxAttempts /\ d.spawned \in Nat
    BY Fields DEF IInv
  <2>2. QED
    BY <2>1, Attempts DEF IInv, Counts, SpawnsAreBounded
<1>2. QED
  BY Invariant, <1>1, PTL

\* What a running agent is given, if it is given a session: the one filed for its
\* role, of its backend, as old as the round it is filed under.
LEMMA ResumedSession ==
    ASSUME IInv, d.pc = "running", d.resume # NoSession
    PROVE  LET mine == Mine(st.sessions)
           IN  /\ d.resume = [role |-> d.role, backend |-> backend[d.role],
                              round |-> mine.from, run |-> st.run]
               /\ MaxSessionRounds > 0 => st.round - mine.from < MaxSessionRounds
               /\ drifted => mine.from = st.round
<1>1. d.resume = d.asked /\ Given
  BY DEF IInv, InHand
<1>2. EntryHolds(d.role) /\ par.pc = "wait"
  BY Fields DEF IInv, Entries, Waiting
<1>3. QED
  BY <1>1, <1>2 DEF Given, EntryHolds, Mine

\* An agent resumes a session of its own role, made by the backend it runs on and
\* under the contract it runs in (_resolve_session_resume_policy).
THEOREM SessionsAreTheRoles == Spec => []SessionIsTheRoles
<1>1. IInv => SessionIsTheRoles
  BY ResumedSession DEF SessionIsTheRoles
<1>2. QED
  BY Invariant, <1>1, PTL

\* max_session_rounds is an exact limit on the age of a resumed session, whatever
\* stores, resumed runs, crashes and failed attempts lie between.
THEOREM RotationStrict == Spec => []RotationIsStrict
<1>1. IInv => RotationIsStrict
  BY ResumedSession DEF RotationIsStrict
<1>2. QED
  BY Invariant, <1>1, PTL

\* A round that found the head moved resumes only what was made in that round.
THEOREM StartOver == Spec => []BothStartOver
<1>1. IInv => BothStartOver
  BY ResumedSession DEF BothStartOver
<1>2. QED
  BY Invariant, <1>1, PTL

\* Only an attempt spawns an agent.
LEMMA OnlyAttemptSpawns ==
    ASSUME IInv, [Next]_vars, d'.spawned > d.spawned
    PROVE  Attempt
<1> USE DEF IInv
<1>1. CASE UNCHANGED d
  BY <1>1, Fields
<1>2. CASE d' = Off \/ \E r \in Role : d' = Dispatching(r)
  BY <1>2, Fields, DispatchingIsJob DEF Off
<1>3. CASE d'.spawned = d.spawned
  BY <1>3, Fields
<1>4. QED
  <2>1. CASE Loop
    BY <1>1, <1>2, <2>1 DEF Loop, StartRun, SessionTimeout, SpawnRound, Role
  <2>2. CASE Policy \/ BudgetSpent \/ CallAgain
    BY <1>3, <2>2 DEF Policy, BudgetSpent, CallAgain, TypeOK, Job
  <2>3. CASE Found \/ Synthesize
    BY <1>3, <2>3 DEF Found, Synthesize, Returned, TypeOK, Job
  <2>4. CASE NoReport \/ WorkerDone \/ Approve \/ AskAgain \/ Exhausted \/ Crash
    BY <1>2, <2>4 DEF NoReport, Fail, WorkerDone, Approve, AskAgain, Exhausted, Crash, Role
  <2>5. CASE AgentSucceeds \/ AgentTimesOut \/ AgentDies
    BY <1>3, <2>5 DEF AgentSucceeds, AgentTimesOut, AgentDies, TypeOK, Job
  <2>6. CASE InvalidResume \/ AgentFails \/ PermanentFailure
    <3>1. d' = Off \/ d'.spawned = d.spawned
      BY <2>6 DEF InvalidResume, AgentFails, PermanentFailure, Fail, TypeOK, Job
    <3>2. QED
      BY <1>2, <1>3, <3>1
  <2>7. CASE Tick \/ ReportWritten \/ MoveHead \/ Quiet \/ UNCHANGED vars
    BY <1>1, <2>7 DEF Tick, ReportWritten, MoveHead, Quiet, vars
  <2>8. QED
    BY <2>1, <2>2, <2>3, <2>4, <2>5, <2>6, <2>7 DEF Next, Call, Agent

\* No attempt is made past the deadline the parent holds, the second call's
\* included: every attempt looks at state.json, which holds that deadline or none.
THEOREM SpawnedInTime == Spec => NothingSpawnedLate
<1>1. IInv /\ [Next]_vars => [d'.spawned > d.spawned => ~Late(par.deadline)
\/ st.deadline = 0]_vars
  <2> SUFFICES ASSUME IInv, [Next]_vars, d'.spawned > d.spawned
               PROVE  ~Late(par.deadline) \/ st.deadline = 0
    OBVIOUS
  <2>1. Attempt
    BY OnlyAttemptSpawns
  <2>2. par.pc # "off" /\ ~Late(st.deadline)
    BY <2>1 DEF Attempt, BudgetAt, IInv, Waiting
  <2>3. QED
    BY <2>2 DEF IInv, Budget, Late
<1>2. QED
  BY Invariant, <1>1, PTL DEF Spec, NothingSpawnedLate
=============================================================================
