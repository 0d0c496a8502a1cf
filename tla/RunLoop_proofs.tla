--------------------------- MODULE RunLoop_proofs ---------------------------
(***************************************************************************)
(* Theorems about RunLoop for every value of its constants: the type       *)
(* invariant, and that a contract marked approved was earned by a          *)
(* reviewer's approval of that round of that run, whatever crashes, kills, *)
(* interrupts and orphans happen between.                                  *)
(***************************************************************************)
EXTENDS RunLoop, TLAPS

-----------------------------------------------------------------------------
(* The table of transitions.                                               *)

USE RoundsAssumption, RunsAssumption, HeadsAssumption, TaskAssumption

(* What the rows have in common: where they lead, and that only a review   *)
(* that asks for changes advances the round.                               *)
LEMMA Rows ==
    ASSUME NEW t \in DOMAIN Transitions
    PROVE  /\ Transitions[t].to \in Phases
           /\ Transitions[t].clears \in BOOLEAN
           /\ Transitions[t].outcome \in Outcomes
           /\ Transitions[t].delta = IF t = "reviewer_changes_required" THEN 1
                                     ELSE 0
  <1> USE DEF Transitions, Rule, Phases, Outcomes, SuccessOutcomes, FailureOutcomes
  <1>1. CASE t = "bootstrap"
    BY <1>1
  <1>2. CASE t = "prepare_round"
    BY <1>2
  <1>3. CASE t = "worker_completed"
    BY <1>3
  <1>4. CASE t = "worker_no_change_success"
    BY <1>4
  <1>5. CASE t = "worker_timeout"
    BY <1>5
  <1>6. CASE t = "reviewer_approved"
    BY <1>6
  <1>7. CASE t = "reviewer_changes_required"
    BY <1>7
  <1>8. CASE t = "reviewer_timeout"
    BY <1>8
  <1>9. CASE t = "max_rounds_exhausted"
    BY <1>9
  <1>10. CASE t = "terminal_error"
    BY <1>10
  <1> QED
    BY <1>1, <1>2, <1>3, <1>4, <1>5, <1>6, <1>7, <1>8, <1>9, <1>10

(* A row changes the contract's phase, round and, if it clears them or has *)
(* one of its own, its outcome, head and details; the rest stays.          *)
LEMMA MovedType ==
    ASSUME NEW s \in Contract, NEW t \in DOMAIN Transitions,
           t = "reviewer_changes_required" => s.round <= MaxRounds
    PROVE  /\ Moved(s, t) \in Contract
           /\ Moved(s, t).round = IF t = "reviewer_changes_required"
                                  THEN s.round + 1 ELSE s.round
           /\ Moved(s, t).run = s.run
           /\ Moved(s, t).task = s.task
           /\ Moved(s, t).outcome =
                IF Transitions[t].outcome # "none" THEN Transitions[t].outcome
                ELSE IF Transitions[t].clears THEN "none" ELSE s.outcome
  <1> DEFINE row == Transitions[t]
             o == IF row.outcome # "none" THEN row.outcome
                  ELSE IF row.clears THEN "none" ELSE s.outcome
             h == IF row.clears THEN 0 ELSE s.head
             d == IF row.clears THEN NoDetails ELSE s.details
  <1>1. row.to \in Phases /\ s.round + row.delta \in Rounds
    BY Rows DEF Contract, Rounds
  <1>2. o \in Outcomes /\ h \in Heads /\ d \in [Rounds -> Decisions]
    BY Rows DEF Contract, Outcomes, Heads, NoDetails, Decisions
  <1>3. Moved(s, t) = [s EXCEPT !.phase = row.to, !.round = s.round + row.delta,
                                !.outcome = o, !.head = h, !.details = d]
    BY DEF Moved
  <1>4. row.delta = IF t = "reviewer_changes_required" THEN 1 ELSE 0
    BY Rows
  <1> HIDE DEF row, o, h, d
  <1>5. /\ Moved(s, t) \in Contract
        /\ Moved(s, t).round = s.round + row.delta
        /\ Moved(s, t).run = s.run
        /\ Moved(s, t).task = s.task
        /\ Moved(s, t).outcome = o
    BY <1>1, <1>2, <1>3 DEF Contract
  <1>6. s.round \in Int
    BY DEF Contract, Rounds
  <1> QED BY <1>4, <1>5, <1>6 DEF o, row

(* The contracts the callers make of it.                                   *)
LEMMA FailedType ==
    ASSUME NEW s \in Contract, NEW o \in Outcomes
    PROVE  /\ Failed(s, o) \in Contract
           /\ Failed(s, o).outcome = o
           /\ Failed(s, o).round = s.round
           /\ Failed(s, o).run = s.run
  <1>1. "terminal_error" \in DOMAIN Transitions
    BY DEF Transitions
  <1>2. /\ Moved(s, "terminal_error") \in Contract
        /\ Moved(s, "terminal_error").round = s.round
        /\ Moved(s, "terminal_error").run = s.run
    BY <1>1, MovedType
  <1> QED BY <1>2 DEF Failed, Contract

LEMMA BootstrappedType ==
    ASSUME NEW s \in Contract, NEW t \in Tasks \cup {NoTask}, NEW r \in Runs
    PROVE  /\ Bootstrapped(s, t, r) \in Contract
           /\ Bootstrapped(s, t, r).outcome = "none"
           /\ Bootstrapped(s, t, r).round = 1
  <1>1. "bootstrap" \in DOMAIN Transitions
    BY DEF Transitions
  <1>2. Transitions["bootstrap"].outcome = "none" /\ Transitions["bootstrap"].clears
    BY DEF Transitions, Rule
  <1>3. Moved(s, "bootstrap") \in Contract /\ Moved(s, "bootstrap").outcome = "none"
    BY <1>1, <1>2, MovedType
  <1>4. 1 \in Rounds
    BY DEF Rounds
  <1> QED BY <1>3, <1>4 DEF Bootstrapped, Contract

LEMMA PreparedType ==
    ASSUME NEW s \in Contract, NEW r \in Runs, NEW n \in Rounds
    PROVE  /\ Prepared(s, r, n) \in Contract
           /\ Prepared(s, r, n).outcome = "none"
           /\ Prepared(s, r, n).round = n
  <1>1. "prepare_round" \in DOMAIN Transitions
    BY DEF Transitions
  <1>2. /\ Transitions["prepare_round"].outcome = "none"
        /\ Transitions["prepare_round"].clears
    BY DEF Transitions, Rule
  <1>3. /\ Moved(s, "prepare_round") \in Contract
        /\ Moved(s, "prepare_round").outcome = "none"
    BY <1>1, <1>2, MovedType
  <1> QED BY <1>3 DEF Prepared, Contract

LEMMA SubmittedType ==
    ASSUME NEW s \in Contract, NEW h \in Heads
    PROVE  /\ Submitted(s, h) \in Contract
           /\ Submitted(s, h).outcome = s.outcome
           /\ Submitted(s, h).round = s.round
           /\ Submitted(s, h).run = s.run
  <1>1. "worker_completed" \in DOMAIN Transitions
    BY DEF Transitions
  <1>2. /\ Transitions["worker_completed"].outcome = "none"
        /\ ~Transitions["worker_completed"].clears
    BY DEF Transitions, Rule
  <1>3. /\ Moved(s, "worker_completed") \in Contract
        /\ Moved(s, "worker_completed").outcome = s.outcome
        /\ Moved(s, "worker_completed").round = s.round
        /\ Moved(s, "worker_completed").run = s.run
    BY <1>1, <1>2, MovedType
  <1> QED BY <1>3 DEF Submitted, Contract

LEMMA NoChangeType ==
    ASSUME NEW s \in Contract
    PROVE  /\ NoChange(s) \in Contract
           /\ NoChange(s).outcome = "no_change_success"
  <1>1. "worker_no_change_success" \in DOMAIN Transitions
    BY DEF Transitions
  <1>2. Transitions["worker_no_change_success"].outcome = "no_change_success"
    BY DEF Transitions, Rule
  <1>3. /\ Moved(s, "worker_no_change_success") \in Contract
        /\ Moved(s, "worker_no_change_success").outcome = "no_change_success"
    BY <1>1, <1>2, MovedType
  <1>4. 0 \in Heads
    BY DEF Heads
  <1> QED BY <1>3, <1>4 DEF NoChange, Contract

LEMMA ApprovedType ==
    ASSUME NEW s \in Contract
    PROVE  /\ Approved(s) \in Contract
           /\ Approved(s).round = s.round
           /\ Approved(s).run = s.run
  <1>1. "reviewer_approved" \in DOMAIN Transitions
    BY DEF Transitions
  <1> QED BY <1>1, MovedType DEF Approved

LEMMA RetriedType ==
    ASSUME NEW s \in Contract, s.round <= MaxRounds
    PROVE  Retried(s) \in Contract /\ Retried(s).outcome = "none"
  <1>1. "reviewer_changes_required" \in DOMAIN Transitions
    BY DEF Transitions
  <1>2. /\ Transitions["reviewer_changes_required"].outcome = "none"
        /\ Transitions["reviewer_changes_required"].clears
    BY DEF Transitions, Rule
  <1>3. /\ Moved(s, "reviewer_changes_required") \in Contract
        /\ Moved(s, "reviewer_changes_required").outcome = "none"
    BY <1>1, <1>2, MovedType
  <1> QED BY <1>3 DEF Retried, Contract

(* The rows that end a round without a verdict.                            *)
LEMMA TimedOutType ==
    ASSUME NEW s \in Contract,
           NEW t \in {"worker_timeout", "reviewer_timeout", "max_rounds_exhausted"}
    PROVE  Moved(s, t) \in Contract /\ Moved(s, t).outcome = t
  <1>1. t \in DOMAIN Transitions /\ t # "reviewer_changes_required"
    BY DEF Transitions
  <1>2. Transitions[t].outcome = t /\ t # "none"
    BY DEF Transitions, Rule
  <1> QED BY <1>1, <1>2, MovedType

LEMMA RecordedType ==
    ASSUME NEW s \in Contract, NEW d \in Decisions
    PROVE  /\ Recorded(s, d) \in Contract
           /\ Recorded(s, d).outcome = s.outcome
           /\ Recorded(s, d).round = s.round
           /\ Recorded(s, d).run = s.run
  BY DEF Recorded, Contract

LEMMA BlockedType ==
    ASSUME NEW s \in Contract, NEW t \in Tasks \cup {NoTask}
    PROVE  BlockedByDependencies(s, t, 1) \in Contract
  <1>1. 1 \in Rounds
    BY DEF Rounds
  <1> QED BY <1>1 DEF BlockedByDependencies, Contract

LEMMA BlankType == Blank \in Contract /\ Blank.outcome = "none"
  BY DEF Blank, Contract, Phases, Rounds, Runs, Heads, Outcomes, Decisions, NoDetails

LEMMA SavedType ==
    ASSUME NEW f, NEW s
    PROVE  Saved(f, s) = f \/ Saved(f, s) = s
  BY DEF Saved

-----------------------------------------------------------------------------
(* What the actions have in common.                                        *)

TypeInv == TypeOK /\ RoundIsTheChilds

KidOK == kid \in [Slots -> Kid] /\ RoundIsTheChilds

FilesOK ==
    /\ st \in Contract
    /\ card \in Card
    /\ src \in [Tasks -> Status]
    /\ work \in WorkRep
    /\ rev \in RevRep
    /\ fix \in FixList
    /\ summary \in Summary
    /\ out \in Summary

HistoryOK ==
    /\ jobs \subseteq Job
    /\ okd \subseteq Approval
    /\ nrun \in Runs
    /\ ninv \in 0 .. MaxInvocations
    /\ nflt \in 0 .. MaxFaults

LEMMA TypeParts == TypeInv <=> FilesOK /\ par \in Parent /\ KidOK /\ HistoryOK
  BY DEF TypeInv, TypeOK, FilesOK, KidOK, HistoryOK

(* A value that is not there has the type of one that is.                  *)
LEMMA Nothing ==
    /\ NoCard \in Card /\ NoWork \in WorkRep /\ NoReview \in RevRep
    /\ NoFix \in FixList /\ NoSummary \in Summary
    /\ Free \in Kid
    /\ \A rc \in ExitCodes : Gone(rc) \in Parent
  <1>1. 0 \in Rounds /\ 0 \in Runs /\ 0 \in Heads /\ 0 \in 0 .. Bad
    BY DEF Rounds, Runs, Heads, Bad
  <1>2. "none" \in Outcomes
    BY DEF Outcomes
  <1>3. /\ NoCard \in Card /\ NoWork \in WorkRep /\ NoReview \in RevRep
        /\ NoFix \in FixList /\ NoSummary \in Summary
    BY <1>1, <1>2 DEF NoCard, Card, Status, NoWork, WorkRep, NoReview, RevRep,
         Verdicts, NoFix, FixList, NoSummary, Summary
  <1>4. Free \in Kid
    BY <1>1, BlankType DEF Free, Kid, KidPc, ExitCodes
  <1>5. \A rc \in ExitCodes : Gone(rc) \in Parent
    BY <1>1, BlankType DEF Gone, Parent, ParentPc
  <1> QED BY <1>3, <1>4, <1>5

LEMMA DropReportsType ==
    ASSUME NEW t, NEW r, NEW n, work \in WorkRep, rev \in RevRep, DropReports(t, r, n)
    PROVE  work' \in WorkRep /\ rev' \in RevRep
  BY Nothing DEF DropReports

LEMMA SetBusCardType ==
    ASSUME NEW x \in Status, card \in Card, SetBusCard(x)
    PROVE  card' \in Card
  BY DEF SetBusCard, Card

LEMMA SetCardsType ==
    ASSUME NEW x \in Status, card \in Card, src \in [Tasks -> Status], SetCards(x)
    PROVE  card' \in Card /\ src' \in [Tasks -> Status]
  BY SetBusCardType DEF SetCards

LEMMA CopyOutcomeType ==
    ASSUME out \in Summary, summary \in Summary, CopyOutcome
    PROVE  out' \in Summary
  BY DEF CopyOutcome

(* The ways a step leaves its child.                                       *)
LEMMA KidTransit ==
    ASSUME KidOK, NEW s \in Slots, NEW m \in Contract, NEW pc \in KidPc,
           pc \in InRound => m.round = kid[s].round,
           kid' = [kid EXCEPT ![s].mem = m, ![s].pc = pc]
    PROVE  KidOK'
  BY ZenonT(60) DEF KidOK, RoundIsTheChilds, Kid

LEMMA KidGoto ==
    ASSUME KidOK, NEW s \in Slots, NEW pc \in KidPc,
           pc \in InRound => kid[s].mem.round = kid[s].round,
           Goto(s, pc)
    PROVE  KidOK'
  BY DEF KidOK, RoundIsTheChilds, Kid, Goto

LEMMA KidExit ==
    ASSUME KidOK, NEW s \in Slots, NEW rc \in ExitCodes, Exit(s, rc)
    PROVE  KidOK'
  <1>1. Ended(s, rc) \in Kid /\ Ended(s, rc).round <= MaxRounds
    <2>1. CASE kid[s].orphan
      BY <2>1, Nothing DEF Ended, Free
    <2>2. CASE ~kid[s].orphan
      <3>1. kid[s].round \in Rounds /\ kid[s].round <= MaxRounds
        BY DEF KidOK, RoundIsTheChilds, Kid
      <3>2. "exited" \in KidPc
        BY DEF KidPc
      <3>3. Ended(s, rc) = [Free EXCEPT !.pc = "exited", !.round = kid[s].round,
                                        !.rc = rc]
        BY <2>2 DEF Ended
      <3> QED BY <3>1, <3>2, <3>3, Nothing DEF Kid
    <2> QED BY <2>1, <2>2
  <1>2. Ended(s, rc).pc \in {"free", "exited"}
    BY DEF Ended, Free
  <1>3. kid' = [kid EXCEPT ![s] = Ended(s, rc)]
    BY DEF Exit
  <1> QED BY <1>1, <1>2, <1>3 DEF KidOK, RoundIsTheChilds, InRound

LEMMA KidFailType ==
    ASSUME KidOK, st \in Contract, NEW s \in Slots, NEW m \in Contract,
           NEW o \in Outcomes, KidFail(s, m, o)
    PROVE  KidOK' /\ st' \in Contract
  <1>1. Failed(m, o) \in Contract
    BY FailedType
  <1>2. st' \in Contract
    BY <1>1, SavedType DEF KidFail
  <1>3. "failing" \in KidPc /\ "failing" \notin InRound /\ 3 \in ExitCodes
    BY DEF KidPc, InRound, ExitCodes
  <1>4. kid' = [kid EXCEPT ![s].mem = Failed(m, o), ![s].pc = "failing", ![s].rc = 3]
    BY DEF KidFail
  <1>5. KidOK'
    BY <1>1, <1>3, <1>4, ZenonT(60) DEF KidOK, RoundIsTheChilds, Kid
  <1> QED BY <1>2, <1>5

LEMMA FailType ==
    ASSUME par \in Parent, st \in Contract, NEW s \in Contract,
           NEW o \in Outcomes, NEW rc \in ExitCodes, Fail(s, o, rc)
    PROVE  par' \in Parent /\ st' \in Contract
  <1>1. Failed(s, o) \in Contract
    BY FailedType
  <1>2. st' \in Contract
    BY <1>1, SavedType DEF Fail
  <1>3. par' \in Parent
    BY <1>1 DEF Fail, Parent, ParentPc
  <1> QED BY <1>2, <1>3

LEMMA KidStays ==
    ASSUME KidOK, UNCHANGED kid
    PROVE  KidOK'
  BY DEF KidOK, RoundIsTheChilds

LEMMA Bounds ==
    /\ 0 \in Rounds /\ 1 \in Rounds /\ 0 \in Runs /\ 0 \in Heads
    /\ MaxRounds \in Rounds
    /\ \A n \in Rounds : n \in Int
  BY DEF Rounds, Runs, Heads

-----------------------------------------------------------------------------
(* Type correctness, action by action.                                     *)

LEMMA ParentTypes ==
    ASSUME TypeInv, ParentStep \/ BootstrapBlocked
    PROVE  TypeInv'
  <1> USE DEF ParentOnly, files
  <1>0. FilesOK /\ par \in Parent /\ KidOK /\ HistoryOK
    BY TypeParts
  <1> SUFFICES FilesOK' /\ par' \in Parent /\ KidOK' /\ HistoryOK'
    BY DEF TypeInv, TypeOK, FilesOK, KidOK, HistoryOK
  <1>a. \A rc \in {0, 1, 2, 3, 4, 5, 6, 130, 137} : rc \in ExitCodes
    BY DEF ExitCodes
  <1>b. {"todo", "in_progress", "done", "blocked"} \subseteq Status
    BY DEF Status
  <1>c. SuccessOutcomes \cup FailureOutcomes \subseteq Outcomes
    BY DEF Outcomes
  <1>1. CASE ResumeRefused
    <2>1. card' \in Card /\ src' \in [Tasks -> Status]
      BY <1>0, <1>1, <1>b, SetCardsType DEF ResumeRefused, FilesOK
    <2>2. par' \in Parent
      BY <1>1, <1>a, Nothing DEF ResumeRefused
    <2> QED BY <1>0, <1>1, <2>1, <2>2, KidStays DEF ResumeRefused, FilesOK, HistoryOK
  <1>2. CASE Decide
    <2>1. par' \in Parent
      BY <1>0, <1>2 DEF Decide, Parent, ParentPc
    <2> QED BY <1>0, <1>2, <2>1, KidStays DEF Decide, FilesOK, HistoryOK
  <1>3. CASE Bootstrap
    <2> DEFINE m == Bootstrapped(StartState, par.task, nrun + 1)
    <2>1. StartState \in Contract
      BY <1>0, BlankType DEF StartState, FilesOK
    <2>2. nrun + 1 \in Runs
      BY <1>0, <1>3 DEF Bootstrap, HistoryOK, Runs
    <2>3. m \in Contract
      BY <1>0, <2>1, <2>2, BootstrappedType DEF Parent
    <2>4. st' \in Contract
      BY <1>3, <2>1, <2>3, SavedType DEF Bootstrap
    <2>5. par' = [par EXCEPT !.pc = "mark", !.run = nrun + 1, !.round = 1, !.mem = m]
      BY <1>3 DEF Bootstrap
    <2> HIDE DEF m
    <2>6. par' \in Parent
      BY <1>0, <2>2, <2>3, <2>5, Bounds DEF Parent, ParentPc
    <2>7. work' \in WorkRep /\ rev' \in RevRep /\ fix' \in FixList /\ summary' \in Summary
      BY <1>0, <1>3, Nothing DEF Bootstrap, CleanIfStale, RemoveBusFiles, FilesOK
    <2> QED BY <1>0, <1>3, <2>2, <2>4, <2>6, <2>7, KidStays
            DEF Bootstrap, FilesOK, HistoryOK
  <1>4. CASE BootstrapBlocked
    <2> DEFINE m == Failed(BlockedByDependencies(StartState, par.task, 1),
                           "blocked_dependencies")
    <2>1. StartState \in Contract
      BY <1>0, BlankType DEF StartState, FilesOK
    <2>2. m \in Contract
      <3>1. BlockedByDependencies(StartState, par.task, 1) \in Contract
        BY <1>0, <2>1, BlockedType DEF Parent
      <3> QED BY <1>c, <3>1, FailedType DEF FailureOutcomes
    <2>3. st' \in Contract
      BY <1>4, <2>1, <2>2, SavedType DEF BootstrapBlocked
    <2>4. par' = [par EXCEPT !.pc = "failing", !.mem = m, !.rc = 3]
      BY <1>4 DEF BootstrapBlocked
    <2> HIDE DEF m
    <2>5. par' \in Parent
      BY <1>0, <1>a, <2>2, <2>4 DEF Parent, ParentPc
    <2>6. work' \in WorkRep /\ rev' \in RevRep /\ fix' \in FixList /\ summary' \in Summary
      BY <1>0, <1>4, Nothing DEF BootstrapBlocked, CleanIfStale, RemoveBusFiles, FilesOK
    <2> QED BY <1>0, <1>4, <2>3, <2>5, <2>6, KidStays
            DEF BootstrapBlocked, FilesOK, HistoryOK
  <1>5. CASE BootstrapNoCard
    <2>1. work' \in WorkRep /\ rev' \in RevRep /\ fix' \in FixList /\ summary' \in Summary
      BY <1>0, <1>5, Nothing DEF BootstrapNoCard, CleanIfStale, RemoveBusFiles, FilesOK
    <2>2. st' \in Contract /\ par' \in Parent
      BY <1>0, <1>5, <1>a, Nothing, BlankType DEF BootstrapNoCard, StartState, FilesOK
    <2> QED BY <1>0, <1>5, <2>1, <2>2, KidStays DEF BootstrapNoCard, FilesOK, HistoryOK
  <1>6. CASE Resume
    <2>1. st' \in Contract /\ par' \in Parent
      <3>1. CASE st.task = NoTask \/ st.round < 1
        <4>1. Fail(st, "invalid_resume_state", 3)
          BY <1>6, <3>1 DEF Resume
        <4> QED BY <1>0, <1>a, <1>c, <4>1, FailType DEF FilesOK, FailureOutcomes
      <3>2. CASE ~(st.task = NoTask \/ st.round < 1) /\ card = NoCard
        <4>1. par' = Gone(1) /\ st' = st
          BY <1>6, <3>2 DEF Resume
        <4> QED BY <1>0, <1>a, <4>1, Nothing DEF FilesOK
      <3>3. CASE ~(st.task = NoTask \/ st.round < 1) /\ card # NoCard /\ card.task # st.task
        <4>1. Fail(st, "state_task_mismatch", 3)
          BY <1>6, <3>3 DEF Resume
        <4> QED BY <1>0, <1>a, <1>c, <4>1, FailType DEF FilesOK, FailureOutcomes
      <3>4. CASE ~(st.task = NoTask \/ st.round < 1) /\ card # NoCard
               /\ card.task = st.task
        <4> DEFINE m == Prepared(st, st.run, st.round)
        <4>1. /\ st' = Saved(st, m)
              /\ par' = [par EXCEPT !.pc = "mark", !.task = st.task,
                           !.run = st.run, !.round = st.round, !.mem = m]
          BY <1>6, <3>4 DEF Resume
        <4>2. st.run \in Runs /\ st.round \in Rounds /\ st.task \in Tasks \cup {NoTask}
          BY <1>0 DEF FilesOK, Contract
        <4>3. m \in Contract
          BY <1>0, <4>2, PreparedType DEF FilesOK
        <4>4. st' \in Contract
          BY <1>0, <4>1, <4>3, SavedType DEF FilesOK
        <4> HIDE DEF m
        <4> QED BY <1>0, <4>1, <4>2, <4>3, <4>4 DEF Parent, ParentPc
      <3> QED BY <3>1, <3>2, <3>3, <3>4
    <2> QED BY <1>0, <1>6, <2>1, KidStays DEF Resume, FilesOK, HistoryOK
  <1>7. CASE MarkInProgress
    <2>1. card' \in Card /\ src' \in [Tasks -> Status]
      BY <1>0, <1>7, <1>b, SetCardsType DEF MarkInProgress, FilesOK
    <2>2. work' \in WorkRep /\ rev' \in RevRep
      BY <1>0, <1>7, DropReportsType DEF MarkInProgress, FilesOK
    <2>3. Gone(3) \in Parent /\ [par EXCEPT !.pc = "loop"] \in Parent
      BY <1>0, <1>a, Nothing DEF Parent, ParentPc
    <2>4. par' \in Parent
      BY <1>7, <2>3 DEF MarkInProgress
    <2> QED BY <1>0, <1>7, <2>1, <2>2, <2>4, KidStays DEF MarkInProgress, FilesOK, HistoryOK
  <1>8. ASSUME NEW s \in Slots, SpawnRound(s) PROVE FilesOK' /\ par' \in Parent /\ KidOK' /\ HistoryOK'
    <2> DEFINE k == [Free EXCEPT !.pc = "begin", !.round = par.round]
    <2>1. k \in Kid /\ k.round <= MaxRounds /\ k.pc = "begin"
      <3>1. par.round \in Rounds /\ par.round <= MaxRounds /\ "begin" \in KidPc
        BY <1>0, <1>8 DEF SpawnRound, RoundsLeft, Parent, KidPc
      <3> QED BY <3>1, Nothing DEF Kid
    <2>2. UNCHANGED kid \/ kid' = [kid EXCEPT ![s] = k]
      BY <1>8 DEF SpawnRound
    <2> HIDE DEF k
    <2>3. KidOK'
      BY <1>0, <1>8, <2>1, <2>2 DEF KidOK, RoundIsTheChilds, InRound
    <2>4. par' \in Parent
      BY <1>0, <1>8, <1>a, Nothing DEF SpawnRound, Parent, ParentPc
    <2> QED BY <1>0, <1>8, <2>3, <2>4 DEF SpawnRound, FilesOK, HistoryOK
  <1>9. CASE StopOnInterrupt
    <2>1. par' \in Parent
      BY <1>0, <1>9 DEF StopOnInterrupt, Parent, ParentPc
    <2> QED BY <1>0, <1>9, <2>1, KidStays DEF StopOnInterrupt, FilesOK, HistoryOK
  <1>10. CASE MaxRoundsExhausted
    <2>1. out' \in Summary
      BY <1>0, <1>10, CopyOutcomeType DEF MaxRoundsExhausted, FilesOK
    <2>2. st' \in Contract
      BY <1>0, <1>10, SavedType, TimedOutType DEF MaxRoundsExhausted, FilesOK
    <2>3. Gone(5) \in Parent /\ [par EXCEPT !.pc = "blocking", !.rc = 2] \in Parent
      BY <1>0, <1>a, Nothing DEF Parent, ParentPc
    <2>4. par' \in Parent
      BY <1>10, <2>3 DEF MaxRoundsExhausted
    <2> QED BY <1>0, <1>10, <2>1, <2>2, <2>4, KidStays
            DEF MaxRoundsExhausted, FilesOK, HistoryOK
  <1>11. ASSUME NEW s \in Slots,
                \/ ReapInterrupted(s) \/ ReapFailed(s) \/ ReapSuccess(s)
                \/ ReapNextRound(s) \/ ReapUnexpected(s)
         PROVE  FilesOK' /\ par' \in Parent /\ KidOK' /\ HistoryOK'
    <2>1. Reap(s)
      BY <1>11 DEF ReapInterrupted, ReapFailed, ReapSuccess, ReapNextRound, ReapUnexpected
    <2>2. KidOK'
      <3>1. kid' = [kid EXCEPT ![s] = Free] /\ Free \in Kid
        BY <2>1, Nothing DEF Reap
      <3>2. Free.round = 0 /\ Free.pc \notin InRound
        BY DEF Free, InRound
      <3> QED BY <1>0, <3>1, <3>2 DEF KidOK, RoundIsTheChilds
    <2>3. st' \in Contract /\ par' \in Parent /\ card' \in Card /\ src' \in [Tasks -> Status]
      <3>1. CASE ReapInterrupted(s)
        BY <1>0, <3>1 DEF ReapInterrupted, FilesOK, Parent, ParentPc
      <3>2. CASE ReapFailed(s)
        <4>1. Fail(par.mem, "single_round_failed", 3) /\ UNCHANGED <<card, src>>
          BY <3>2 DEF ReapFailed
        <4>2. par.mem \in Contract
          BY <1>0 DEF Parent
        <4> QED BY <1>0, <1>a, <1>c, <4>1, <4>2, FailType DEF FilesOK, FailureOutcomes
      <3>3. CASE ReapSuccess(s)
        <4>1. SetCards("done") /\ par' = Gone(0) /\ UNCHANGED st
          BY <3>3 DEF ReapSuccess
        <4> QED BY <1>0, <1>a, <1>b, <4>1, SetCardsType, Nothing DEF FilesOK
      <3>4. CASE ReapNextRound(s)
        <4>1. /\ par' = [par EXCEPT !.pc = "loop", !.round = par.round + 1, !.mem = st]
              /\ UNCHANGED <<st, card, src>>
              /\ st.round = par.round + 1
          BY <3>4 DEF ReapNextRound, AwaitingNext
        <4>2. st \in Contract /\ par.round + 1 \in Rounds
          BY <1>0, <4>1 DEF FilesOK, Contract
        <4> QED BY <1>0, <4>1, <4>2 DEF FilesOK, Parent, ParentPc
      <3>5. CASE ReapUnexpected(s)
        <4>1. /\ UNCHANGED <<card, src>>
              /\ \/ Fail(st, "invalid_state_transition", 3)
                 \/ Fail(st, "state_contract_mismatch", 3)
          BY <3>5 DEF ReapUnexpected
        <4> QED BY <1>0, <1>a, <1>c, <4>1, FailType DEF FilesOK, FailureOutcomes
      <3> QED BY <1>11, <3>1, <3>2, <3>3, <3>4, <3>5
    <2> QED BY <1>0, <2>1, <2>2, <2>3 DEF Reap, FilesOK, HistoryOK
  <1>12. CASE FailInterrupted
    <2>1. out' \in Summary
      BY <1>0, <1>12, CopyOutcomeType DEF FailInterrupted, FilesOK
    <2>2. par' \in Parent /\ st' \in Contract
      BY <1>0, <1>12, <1>a, <1>c, FailType DEF FailInterrupted, FilesOK, FailureOutcomes
    <2> QED BY <1>0, <1>12, <2>1, <2>2, KidStays DEF FailInterrupted, FilesOK, HistoryOK
  <1>13. CASE FailTail
    <2>1. card' \in Card /\ src' \in [Tasks -> Status]
      BY <1>0, <1>13, <1>b, SetCardsType DEF FailTail, FilesOK
    <2>2. summary' \in Summary
      BY <1>0, <1>13 DEF FailTail, Parent, Contract, Summary
    <2>3. par' \in Parent
      BY <1>0, <1>13, Nothing DEF FailTail, Parent
    <2> QED BY <1>0, <1>13, <2>1, <2>2, <2>3, KidStays DEF FailTail, FilesOK, HistoryOK
  <1>14. CASE BlockTail
    <2>1. card' \in Card /\ src' \in [Tasks -> Status]
      BY <1>0, <1>14, <1>b, SetCardsType DEF BlockTail, FilesOK
    <2>2. par' \in Parent
      BY <1>0, <1>14, Nothing DEF BlockTail, Parent
    <2> QED BY <1>0, <1>14, <2>1, <2>2, KidStays DEF BlockTail, FilesOK, HistoryOK
  <1> QED BY <1>1, <1>2, <1>3, <1>4, <1>5, <1>6, <1>7, <1>8, <1>9, <1>10,
             <1>11, <1>12, <1>13, <1>14 DEF ParentStep

(* A step of the child: what is left of a round once its own process and   *)
(* the contract it holds are typed.                                        *)
LEMMA ChildTypes ==
    ASSUME TypeInv, NEW s \in Slots, KidStep(s) \/ KidTrouble(s)
    PROVE  TypeInv'
  <1> USE DEF KidOnly, files
  <1>0. FilesOK /\ par \in Parent /\ KidOK /\ HistoryOK
    BY TypeParts
  <1> SUFFICES FilesOK' /\ par' \in Parent /\ KidOK' /\ HistoryOK'
    BY DEF TypeInv, TypeOK, FilesOK, KidOK, HistoryOK
  <1> DEFINE k == kid[s]
             m == kid[s].mem
  <1>a. \A rc \in {0, 1, 2, 3, 4, 5, 6, 130, 137} : rc \in ExitCodes
    BY DEF ExitCodes
  <1>b. {"todo", "in_progress", "done", "blocked"} \subseteq Status
    BY DEF Status
  <1>c. SuccessOutcomes \cup FailureOutcomes \subseteq Outcomes
    BY DEF Outcomes
  <1>d. /\ k \in Kid /\ m \in Contract /\ k.round \in Rounds /\ k.round <= MaxRounds
        /\ m.run \in Runs /\ m.round \in Rounds /\ m.task \in Tasks \cup {NoTask}
        /\ m.outcome \in Outcomes /\ k.head \in Heads /\ k.rc \in ExitCodes
    BY <1>0 DEF KidOK, RoundIsTheChilds, Kid, Contract
  <1>e. k.pc \in InRound => m.round = k.round
    BY <1>0 DEF KidOK, RoundIsTheChilds
  <1>f. \A pc \in InRound : pc \in KidPc
    BY DEF InRound, KidPc
  <1>g. /\ {"loaded", "success", "summing", "returning", "failing", "blocking"}
              \subseteq KidPc
        /\ {"loaded", "success", "summing", "returning", "failing", "blocking"}
              \cap InRound = {}
    BY DEF InRound, KidPc
  <1>h. /\ [run |-> m.run, round |-> m.round, outcome |-> m.outcome] \in Summary
        /\ [run |-> m.run, round |-> k.round, outcome |-> "validation_failure"] \in Summary
    BY <1>c, <1>d DEF Summary, FailureOutcomes
  <1> HIDE DEF k, m
  <1>1. CASE LoadRound(s)
    <2>1. card' \in Card
      BY <1>0, <1>1, <1>b, SetBusCardType DEF LoadRound, FilesOK
    <2>2. KidOK'
      <3>1. CASE Exit(s, 1) \/ Exit(s, 3)
        BY <1>0, <1>a, <3>1, KidExit
      <3>2. CASE ~(Exit(s, 1) \/ Exit(s, 3))
        <4> DEFINE new == IF kid[s].orphan /\ card.status # "in_progress" THEN Free
                          ELSE [kid[s] EXCEPT !.mem = st, !.pc = "loaded"]
        <4>1. kid' = [kid EXCEPT ![s] = new]
          BY <1>1, <3>2 DEF LoadRound
        <4>2. st \in Contract
          BY <1>0 DEF FilesOK
        <4>3. new \in Kid /\ new.round <= MaxRounds /\ new.pc \notin InRound
          <5>1. Free \in Kid /\ Free.round <= MaxRounds /\ Free.pc \notin InRound
            BY Nothing DEF Free, InRound
          <5>2. /\ [kid[s] EXCEPT !.mem = st, !.pc = "loaded"] \in Kid
                /\ [kid[s] EXCEPT !.mem = st, !.pc = "loaded"].round <= MaxRounds
                /\ [kid[s] EXCEPT !.mem = st, !.pc = "loaded"].pc \notin InRound
            BY <1>d, <1>g, <4>2 DEF k, Kid
          <5> QED BY <5>1, <5>2
        <4> HIDE DEF new
        <4> QED BY <1>0, <4>1, <4>3 DEF KidOK, RoundIsTheChilds
      <3> QED BY <3>1, <3>2
    <2> QED BY <1>0, <1>1, <2>1, <2>2 DEF LoadRound, FilesOK, HistoryOK
  <1>2. CASE LoadBlocked(s)
    <2>1. BlockedByDependencies(st, card.task, 1) \in Contract
      BY <1>0, BlockedType DEF FilesOK, Card
    <2>2. KidOK' /\ st' \in Contract
      BY <1>0, <1>2, <1>c, <2>1, KidFailType DEF LoadBlocked, FilesOK, FailureOutcomes
    <2> QED BY <1>0, <1>2, <2>2 DEF LoadBlocked, FilesOK, HistoryOK
  <1>3. CASE BootstrapRound(s)
    <2> DEFINE b == Bootstrapped(kid[s].mem, card.task, nrun + 1)
    <2>1. nrun + 1 \in Runs /\ nrun' \in Runs
      BY <1>0, <1>3 DEF BootstrapRound, HistoryOK, Runs
    <2>2. b \in Contract
      BY <1>0, <1>d, <2>1, BootstrappedType DEF FilesOK, Card, m
    <2>3. st' \in Contract /\ kid' = [kid EXCEPT ![s].mem = b, ![s].pc = "loaded"]
      BY <1>0, <1>3, <2>2, SavedType DEF BootstrapRound, Transit, FilesOK
    <2> HIDE DEF b
    <2>4. KidOK'
      BY <1>0, <1>g, <2>2, <2>3, KidTransit
    <2> QED BY <1>0, <1>3, <2>1, <2>3, <2>4 DEF BootstrapRound, FilesOK, HistoryOK
  <1>4. CASE PrepareRound(s)
    <2>1. KidOK' /\ st' \in Contract
      <3>1. CASE KidFail(s, kid[s].mem, "state_task_mismatch")
        BY <1>0, <1>c, <1>d, <3>1, KidFailType DEF FilesOK, FailureOutcomes, m
      <3>2. CASE ~KidFail(s, kid[s].mem, "state_task_mismatch")
        <4> DEFINE p == Prepared(kid[s].mem, kid[s].mem.run, kid[s].round)
        <4>1. st' = Saved(st, p) /\ kid' = [kid EXCEPT ![s].mem = p, ![s].pc = "prepared"]
          BY <1>4, <3>2 DEF PrepareRound, Transit
        <4>2. p \in Contract /\ p.round = kid[s].round
          BY <1>d, PreparedType DEF k, m
        <4>3. st' \in Contract
          BY <1>0, <4>1, <4>2, SavedType DEF FilesOK
        <4> HIDE DEF p
        <4>4. "prepared" \in KidPc
          BY DEF KidPc
        <4> QED BY <1>0, <4>1, <4>2, <4>3, <4>4, KidTransit
      <3> QED BY <3>1, <3>2
    <2> QED BY <1>0, <1>4, <2>1 DEF PrepareRound, FilesOK, HistoryOK
  <1>5. CASE DispatchWorker(s)
    <2>1. work' \in WorkRep /\ rev' \in RevRep
      BY <1>0, <1>5, DropReportsType DEF DispatchWorker, FilesOK
    <2>2. KidOK'
      BY <1>0, <1>5, <1>a, <1>e, <1>f, KidExit, KidGoto DEF DispatchWorker, At, InRound, k, m
    <2>3. Asked("worker", m, 0) \in Job
      BY <1>d, Bounds DEF Asked, Job
    <2>4. jobs' \subseteq Job
      BY <1>0, <1>5, <2>3 DEF DispatchWorker, HistoryOK, m
    <2> QED BY <1>0, <1>5, <2>1, <2>2, <2>4 DEF DispatchWorker, FilesOK, HistoryOK
  <1>6. CASE RejectWork(s)
    <2>1. KidOK' /\ st' \in Contract
      BY <1>0, <1>6, <1>c, <1>d, KidFailType DEF RejectWork, FilesOK, FailureOutcomes, m
    <2> QED BY <1>0, <1>6, <2>1 DEF RejectWork, FilesOK, HistoryOK
  <1>7. CASE RefusePatch(s)
    BY <1>0, <1>7, <1>a, KidExit DEF RefusePatch, FilesOK, HistoryOK
  <1>8. CASE AcceptWork(s)
    <2>1. work.head \in Heads
      BY <1>8 DEF AcceptWork, Heads
    <2>2. kid' = [kid EXCEPT ![s].head = work.head, ![s].pc = "worked"]
      BY <1>8 DEF AcceptWork
    <2>3. m.round = k.round
      BY <1>8, <1>e DEF AcceptWork, ReportIn, At, InRound, k
    <2>4. KidOK'
      BY <1>0, <1>d, <1>f, <2>1, <2>2, <2>3 DEF KidOK, RoundIsTheChilds, Kid, KidPc, k, m
    <2> QED BY <1>0, <1>8, <2>4 DEF AcceptWork, FilesOK, HistoryOK
  <1>9. CASE AcceptNoChange(s)
    <2> DEFINE n == NoChange(Recorded(kid[s].mem, "no_change"))
    <2>1. n \in Contract
      BY <1>d, RecordedType, NoChangeType DEF m, Decisions
    <2>2. st' \in Contract /\ kid' = [kid EXCEPT ![s].mem = n, ![s].pc = "success"]
      BY <1>0, <1>9, <2>1, SavedType DEF AcceptNoChange, Transit, FilesOK
    <2> HIDE DEF n
    <2>3. KidOK'
      BY <1>0, <1>g, <2>1, <2>2, KidTransit
    <2> QED BY <1>0, <1>9, <2>2, <2>3 DEF AcceptNoChange, FilesOK, HistoryOK
  <1>10. CASE RefuseNoChange(s)
    <2>1. Recorded(kid[s].mem, "no_change") \in Contract
      BY <1>d, RecordedType DEF m, Decisions
    <2>2. KidOK' /\ st' \in Contract
      BY <1>0, <1>10, <1>c, <2>1, KidFailType DEF RefuseNoChange, FilesOK, FailureOutcomes
    <2>3. summary' \in Summary
      BY <1>10, <1>h DEF RefuseNoChange, k, m
    <2> QED BY <1>0, <1>10, <2>2, <2>3 DEF RefuseNoChange, FilesOK, HistoryOK
  <1>11. CASE WriteRequest(s)
    <2>1. KidOK'
      BY <1>0, <1>11, <1>a, <1>e, <1>f, KidExit, KidGoto DEF WriteRequest, At, InRound, k, m
    <2>2. rev' \in RevRep
      BY <1>0, <1>11, Nothing DEF WriteRequest, FilesOK
    <2> QED BY <1>0, <1>11, <2>1, <2>2 DEF WriteRequest, FilesOK, HistoryOK
  <1>12. CASE DispatchReviewer(s)
    <2> DEFINE n == Submitted(kid[s].mem, kid[s].head)
    <2>1. n \in Contract /\ n.round = kid[s].round
      BY <1>12, <1>d, <1>e, SubmittedType DEF DispatchReviewer, At, InRound, k, m
    <2>2. st' \in Contract /\ kid' = [kid EXCEPT ![s].mem = n, ![s].pc = "review"]
      BY <1>0, <1>12, <2>1, SavedType DEF DispatchReviewer, Transit, FilesOK
    <2> HIDE DEF n
    <2>3. "review" \in KidPc
      BY DEF KidPc
    <2>4. KidOK'
      BY <1>0, <2>1, <2>2, <2>3, KidTransit
    <2>5. Asked("reviewer", m, kid[s].head) \in Job
      BY <1>d DEF Asked, Job, k
    <2>6. jobs' \subseteq Job
      BY <1>0, <1>12, <2>5 DEF DispatchReviewer, HistoryOK, m
    <2> QED BY <1>0, <1>12, <2>2, <2>4, <2>6 DEF DispatchReviewer, FilesOK, HistoryOK
  <1>13. CASE WorkerTimeout(s) \/ ReviewerTimeout(s)
    <2>1. PICK t \in {"worker_timeout", "reviewer_timeout"} :
             /\ st' = Saved(st, Moved(kid[s].mem, t))
             /\ kid' = [kid EXCEPT ![s].mem = Moved(kid[s].mem, t),
                                   ![s].pc = "blocking", ![s].rc = 2]
             /\ UNCHANGED <<card, src, work, rev, fix, summary, out, jobs, nrun>>
             /\ KidOnly
      <3>1. CASE WorkerTimeout(s)
        BY <3>1 DEF WorkerTimeout, TimedOut
      <3>2. CASE ReviewerTimeout(s)
        BY <3>2 DEF ReviewerTimeout, TimedOut
      <3> QED BY <1>13, <3>1, <3>2
    <2> DEFINE n == Moved(kid[s].mem, t)
    <2>2. n \in Contract
      BY <1>d, TimedOutType DEF m
    <2>3. /\ st' \in Contract
          /\ kid' = [kid EXCEPT ![s].mem = n, ![s].pc = "blocking", ![s].rc = 2]
      BY <1>0, <2>1, <2>2, SavedType DEF FilesOK
    <2> HIDE DEF n
    <2>4. KidOK'
      <3> DEFINE new == [kid[s] EXCEPT !.mem = n, !.pc = "blocking", !.rc = 2]
      <3>1. new \in Kid /\ new.round = k.round /\ new.pc \notin InRound
        BY <1>a, <1>d, <1>g, <2>2 DEF Kid, k
      <3>2. kid' = [kid EXCEPT ![s] = new]
        BY <1>0, <2>3 DEF KidOK
      <3> HIDE DEF new
      <3> QED BY <1>0, <1>d, <3>1, <3>2 DEF KidOK, RoundIsTheChilds
    <2>5. UNCHANGED <<card, src, work, rev, fix, summary, out, jobs, nrun,
                      par, okd, ninv, nflt>>
      BY <2>1
    <2> QED BY <1>0, <2>3, <2>4, <2>5 DEF FilesOK, HistoryOK
  <1>14. CASE DispatchFailed(s)
    <2>1. KidOK' /\ st' \in Contract
      BY <1>0, <1>14, <1>c, <1>d, KidFailType DEF DispatchFailed, FilesOK, FailureOutcomes, m
    <2> QED BY <1>0, <1>14, <2>1 DEF DispatchFailed, FilesOK, HistoryOK
  <1>15. CASE RejectReview(s)
    <2>1. KidOK' /\ st' \in Contract
      BY <1>0, <1>15, <1>c, <1>d, KidFailType DEF RejectReview, FilesOK, FailureOutcomes, m
    <2> QED BY <1>0, <1>15, <2>1 DEF RejectReview, FilesOK, HistoryOK
  <1>16. CASE AcceptApproval(s) \/ AcceptChanges(s)
    <2>1. PICK d \in Decisions, pc \in {"approving", "retrying"} : TakeReview(s, d, pc)
      BY <1>16 DEF AcceptApproval, AcceptChanges, Decisions
    <2> DEFINE n == Recorded(kid[s].mem, d)
    <2>2. n \in Contract /\ n.round = kid[s].round
      BY <2>1, <1>d, <1>e, RecordedType DEF TakeReview, ReviewIn, At, InRound, k, m
    <2>3. kid' = [kid EXCEPT ![s].mem = n, ![s].pc = pc]
      BY <2>1 DEF TakeReview
    <2> HIDE DEF n
    <2>4. pc \in KidPc
      BY DEF KidPc
    <2>5. KidOK'
      BY <1>0, <2>2, <2>3, <2>4, KidTransit
    <2>6. work' \in WorkRep
      <3>1. k.head \in 0 .. Bad
        BY <1>d DEF Heads, Bad
      <3> QED BY <2>1, <3>1, <1>d DEF TakeReview, WorkRep, k, m
    <2> QED BY <1>0, <2>1, <2>5, <2>6 DEF TakeReview, FilesOK, HistoryOK
  <1>17. CASE Approve(s)
    <2> DEFINE n == Approved(kid[s].mem)
    <2>1. n \in Contract
      BY <1>d, ApprovedType DEF m
    <2>2. st' \in Contract /\ kid' = [kid EXCEPT ![s].mem = n, ![s].pc = "success"]
      BY <1>0, <1>17, <2>1, SavedType DEF Approve, Transit, FilesOK
    <2> HIDE DEF n
    <2>3. KidOK'
      BY <1>0, <1>g, <2>1, <2>2, KidTransit
    <2> QED BY <1>0, <1>17, <2>2, <2>3 DEF Approve, FilesOK, HistoryOK
  <1>18. CASE MarkDone(s)
    <2>1. card' \in Card
      BY <1>0, <1>18, <1>b, SetBusCardType DEF MarkDone, FilesOK
    <2>2. KidOK'
      BY <1>0, <1>18, <1>a, <1>g, KidExit, KidGoto DEF MarkDone
    <2> QED BY <1>0, <1>18, <2>1, <2>2 DEF MarkDone, FilesOK, HistoryOK
  <1>19. CASE WriteSummary(s)
    <2>1. KidOK'
      BY <1>0, <1>19, <1>g, KidGoto DEF WriteSummary
    <2>2. summary' \in Summary
      BY <1>19, <1>h DEF WriteSummary, m
    <2> QED BY <1>0, <1>19, <2>1, <2>2 DEF WriteSummary, FilesOK, HistoryOK
  <1>20. CASE WriteFixList(s)
    <2>1. KidOK'
      BY <1>0, <1>20, <1>a, <1>e, <1>f, KidExit, KidGoto DEF WriteFixList, At, InRound, k, m
    <2>2. work' \in WorkRep
      BY <1>0, <1>20, Nothing DEF WriteFixList, FilesOK
    <2>3. fix' \in FixList
      <3>1. k.round + 1 \in Rounds
        BY <1>d DEF Rounds
      <3> QED BY <1>20, <1>d, <3>1 DEF WriteFixList, NextFixes, FixList, k, m
    <2> QED BY <1>0, <1>20, <2>1, <2>2, <2>3 DEF WriteFixList, FilesOK, HistoryOK
  <1>21. CASE AdvanceRound(s)
    <2> DEFINE n == Retried(kid[s].mem)
    <2>1. n \in Contract
      <3>1. m.round <= MaxRounds
        BY <1>21, <1>d, <1>e DEF AdvanceRound, At, InRound, k
      <3> QED BY <1>d, <3>1, RetriedType DEF m
    <2>2. st' \in Contract /\ kid' = [kid EXCEPT ![s].mem = n, ![s].pc = "returning"]
      BY <1>0, <1>21, <2>1, SavedType DEF AdvanceRound, Transit, FilesOK
    <2> HIDE DEF n
    <2>3. KidOK'
      BY <1>0, <1>g, <2>1, <2>2, KidTransit
    <2> QED BY <1>0, <1>21, <2>2, <2>3 DEF AdvanceRound, FilesOK, HistoryOK
  <1>22. CASE Return(s)
    BY <1>0, <1>22, <1>a, KidExit DEF Return, FilesOK, HistoryOK
  <1>23. CASE KidFailTail(s)
    <2>1. card' \in Card
      BY <1>0, <1>23, <1>b, SetBusCardType DEF KidFailTail, FilesOK
    <2>2. KidOK'
      BY <1>0, <1>23, <1>d, KidExit DEF KidFailTail, k
    <2>3. summary' \in Summary
      BY <1>0, <1>23, <1>h DEF KidFailTail, FilesOK, m
    <2> QED BY <1>0, <1>23, <2>1, <2>2, <2>3 DEF KidFailTail, FilesOK, HistoryOK
  <1>24. CASE KidBlockTail(s)
    <2>1. card' \in Card
      BY <1>0, <1>24, <1>b, SetBusCardType DEF KidBlockTail, FilesOK
    <2>2. KidOK'
      BY <1>0, <1>24, <1>d, KidExit DEF KidBlockTail, k
    <2> QED BY <1>0, <1>24, <2>1, <2>2 DEF KidBlockTail, FilesOK, HistoryOK
  <1>25. CASE ChildTerminated(s)
    BY <1>0, <1>25, <1>a, KidExit DEF ChildTerminated, FilesOK, HistoryOK
  <1>26. CASE OrphanDies(s)
    BY <1>0, <1>26, <1>a, KidExit DEF OrphanDies, FilesOK, HistoryOK
  <1> QED BY <1>1, <1>2, <1>3, <1>4, <1>5, <1>6, <1>7, <1>8, <1>9, <1>10,
             <1>11, <1>12, <1>13, <1>14, <1>15, <1>16, <1>17, <1>18, <1>19,
             <1>20, <1>21, <1>22, <1>23, <1>24, <1>25, <1>26
          DEF KidStep, KidTrouble

LEMMA AgentTypes ==
    ASSUME TypeInv, Agents
    PROVE  TypeInv'
  <1>0. FilesOK /\ par \in Parent /\ KidOK /\ HistoryOK
    BY TypeParts
  <1>1. PICK j \in jobs :
           \/ \E head \in 0 .. Bad : DeliverWork(j, head)
           \/ \E verdict \in Verdicts : DeliverReview(j, verdict)
    BY DEF Agents
  <1>2. j \in Job /\ jobs \subseteq Job
    BY <1>0 DEF HistoryOK
  <1>3. /\ UNCHANGED <<st, card, src, fix, summary, out, par, kid, nrun, ninv, nflt>>
        /\ jobs' = jobs \ {j}
    BY <1>1 DEF DeliverWork, DeliverReview, AgentOnly
  <1>4. KidOK'
    BY <1>0, <1>3, KidStays
  <1>5. work' \in WorkRep /\ rev' \in RevRep /\ okd' \subseteq Approval
    <2>1. CASE \E head \in 0 .. Bad : DeliverWork(j, head)
      <3>1. PICK head \in 0 .. Bad : DeliverWork(j, head)
        BY <2>1
      <3>2. [task |-> j.task, run |-> j.run, round |-> j.round, head |-> head]
               \in WorkRep
        BY <1>2 DEF Job, WorkRep
      <3>3. work' \in WorkRep /\ rev' = rev /\ okd' = okd
        BY <3>1, <3>2 DEF DeliverWork
      <3> QED BY <1>0, <3>3 DEF FilesOK, HistoryOK
    <2>2. CASE \E verdict \in Verdicts : DeliverReview(j, verdict)
      <3>1. PICK verdict \in Verdicts : DeliverReview(j, verdict)
        BY <2>2
      <3>2. [task |-> j.task, run |-> j.run, round |-> j.round, verdict |-> verdict]
               \in RevRep
        BY <1>2 DEF Job, RevRep
      <3>3. [run |-> j.run, round |-> j.round, head |-> j.head] \in Approval
        BY <1>2 DEF Job, Approval
      <3>4. rev' \in RevRep /\ work' = work
        BY <3>1, <3>2 DEF DeliverReview
      <3>5. okd' \subseteq Approval
        BY <1>0, <3>1, <3>3 DEF DeliverReview, HistoryOK
      <3> QED BY <1>0, <3>4, <3>5 DEF FilesOK
    <2> QED BY <1>1, <2>1, <2>2
  <1> QED BY <1>0, <1>2, <1>3, <1>4, <1>5
          DEF TypeInv, TypeOK, FilesOK, KidOK, HistoryOK

LEMMA OperatorTypes ==
    ASSUME TypeInv, Operator
    PROVE  TypeInv'
  <1>0. FilesOK /\ par \in Parent /\ KidOK /\ HistoryOK
    BY TypeParts
  <1>1. PICK t \in Tasks, ext \in External, f \in Flags, dirty \in BOOLEAN :
           Invoke(t, ext, f, dirty)
    BY DEF Operator
  <1>2. ext \in BOOLEAN /\ f.resume \in BOOLEAN /\ f.clean \in BOOLEAN
    BY SwitchAssumption, FlagsAssumption
  <1>3. src[t] \in Status
    BY <1>0 DEF FilesOK
  <1>4. card' \in Card
    BY <1>0, <1>1, <1>3, Nothing DEF Invoke, FilesOK, Card
  <1>5. /\ st' \in Contract /\ work' \in WorkRep /\ rev' \in RevRep
        /\ fix' \in FixList /\ summary' \in Summary
    BY <1>0, <1>1, Nothing, BlankType DEF Invoke, RemoveBusFiles, FilesOK
  <1>6. par' \in Parent
    <2>1. Gone(0) \in Parent /\ Gone(4) \in Parent
      BY Nothing DEF ExitCodes
    <2>2. [Gone(0) EXCEPT !.pc = IF f.resume THEN "resume" ELSE "start",
                          !.ext = ext, !.resume = f.resume,
                          !.clean = f.clean, !.task = t] \in Parent
      BY <1>2, <2>1 DEF Parent, ParentPc
    <2> QED BY <1>1, <2>1, <2>2 DEF Invoke
  <1>7. ninv' \in 0 .. MaxInvocations
    BY <1>0, <1>1, LimitsAssumption DEF Invoke, HistoryOK
  <1>8. UNCHANGED <<src, out, nrun, kid, jobs, okd, nflt>>
    BY <1>1 DEF Invoke, ParentOnly
  <1>9. KidOK'
    BY <1>0, <1>8, KidStays
  <1> QED BY <1>0, <1>4, <1>5, <1>6, <1>7, <1>8, <1>9
          DEF TypeInv, TypeOK, FilesOK, KidOK, HistoryOK

LEMMA FaultTypes ==
    ASSUME TypeInv, Environment
    PROVE  TypeInv'
  <1>0. FilesOK /\ par \in Parent /\ KidOK /\ HistoryOK
    BY TypeParts
  <1>1. /\ UNCHANGED <<st, card, src, work, rev, fix, summary, out, jobs, okd, nrun, ninv>>
        /\ nflt < MaxFaults /\ nflt' = nflt + 1
    BY DEF Environment, HostCrash, ParentKilled, Interrupt, ChildDies, Fault, files
  <1>2. nflt' \in 0 .. MaxFaults
    BY <1>0, <1>1, LimitsAssumption DEF HistoryOK
  <1>3. 137 \in ExitCodes /\ 1 \in ExitCodes
    BY DEF ExitCodes
  <1>4. Free.round = 0 /\ Free.pc \notin InRound /\ Free \in Kid
    BY Nothing DEF Free, InRound
  <1>5. par' \in Parent /\ KidOK'
    <2>1. CASE HostCrash
      <3>1. kid' = [s \in Slots |-> Free] /\ par' = Gone(137)
        BY <2>1 DEF HostCrash
      <3> QED BY <1>3, <1>4, <3>1, Nothing DEF KidOK, RoundIsTheChilds
    <2>2. CASE ParentKilled
      <3> DEFINE new(s) == IF kid[s].pc \in {"free", "exited"} THEN Free
                           ELSE [kid[s] EXCEPT !.orphan = TRUE]
      <3>1. kid' = [s \in Slots |-> new(s)] /\ par' = Gone(137)
        BY <2>2 DEF ParentKilled
      <3>2. ASSUME NEW s \in Slots
            PROVE  /\ new(s) \in Kid /\ new(s).round <= MaxRounds
                   /\ new(s).pc \in InRound => new(s).mem.round = new(s).round
        <4>1. CASE kid[s].pc \in {"free", "exited"}
          BY <1>4, <4>1, RoundsAssumption
        <4>2. CASE kid[s].pc \notin {"free", "exited"}
          <5>1. new(s) = [kid[s] EXCEPT !.orphan = TRUE]
            BY <4>2
          <5>2. kid[s] \in Kid
            BY <1>0 DEF KidOK
          <5>3. /\ new(s) \in Kid /\ new(s).round = kid[s].round
                /\ new(s).pc = kid[s].pc /\ new(s).mem = kid[s].mem
            BY <5>1, <5>2 DEF Kid
          <5> QED BY <1>0, <5>3 DEF KidOK, RoundIsTheChilds
        <4> QED BY <4>1, <4>2
      <3> HIDE DEF new
      <3> QED BY <1>3, <3>1, <3>2, Nothing DEF KidOK, RoundIsTheChilds
    <2>3. CASE Interrupt
      <3>1. par' = [par EXCEPT !.intr = TRUE] /\ UNCHANGED kid
        BY <2>3 DEF Interrupt
      <3> QED BY <1>0, <3>1, KidStays DEF Parent
    <2>4. CASE \E s \in Slots : ChildDies(s)
      <3>1. PICK s \in Slots : ChildDies(s)
        BY <2>4
      <3> QED BY <1>0, <1>3, <3>1, KidExit DEF ChildDies
    <2> QED BY <2>1, <2>2, <2>3, <2>4 DEF Environment
  <1> QED BY <1>0, <1>1, <1>2, <1>5 DEF TypeInv, TypeOK, FilesOK, KidOK, HistoryOK

LEMMA InitTypes == Init => TypeInv
  <1> SUFFICES ASSUME Init PROVE TypeInv
    OBVIOUS
  <1>1. 0 \in ExitCodes /\ 0 \in Runs
    BY DEF ExitCodes, Runs
  <1>2. st \in Contract
    BY BlankType DEF Init
  <1>3. card \in Card
    BY Nothing DEF Init, Card, Status
  <1>4. src \in [Tasks -> Status]
    BY DEF Init, Status
  <1>5. /\ work \in WorkRep /\ rev \in RevRep /\ fix \in FixList
        /\ summary \in Summary /\ out \in Summary /\ par \in Parent
    BY <1>1, Nothing DEF Init
  <1>6. KidOK
    BY Nothing DEF Init, KidOK, RoundIsTheChilds, Free, InRound
  <1>7. HistoryOK
    BY <1>1, LimitsAssumption DEF Init, HistoryOK
  <1> QED BY <1>2, <1>3, <1>4, <1>5, <1>6, <1>7 DEF TypeInv, TypeOK, KidOK, HistoryOK

LEMMA NextTypes == TypeInv /\ [Next]_vars => TypeInv'
  <1> SUFFICES ASSUME TypeInv, [Next]_vars PROVE TypeInv'
    OBVIOUS
  <1>1. CASE UNCHANGED vars
    BY <1>1 DEF vars, files, TypeInv, TypeOK, RoundIsTheChilds
  <1>2. CASE Quiescent
    BY <1>2 DEF Quiescent, vars, files, TypeInv, TypeOK, RoundIsTheChilds
  <1> QED BY <1>1, <1>2, ParentTypes, ChildTypes, AgentTypes, OperatorTypes, FaultTypes
          DEF Next

(* Every variable keeps its type, and a child works on the round it was    *)
(* started for and never on one beyond max_rounds, in every behaviour.     *)
THEOREM TypeCorrect == Spec => [](TypeOK /\ RoundIsTheChilds)
  <1>1. Spec => []TypeInv
    BY InitTypes, NextTypes, PTL DEF Spec
  <1> QED BY <1>1 DEF TypeInv

(* The round a child works on is the one its parent gave it and at most    *)
(* max_rounds, whoever else writes the contract: an orphan, a second child *)
(* and the operator (_run_single_round under --single-round).              *)
THEOREM RoundStaysTheChilds == Spec => []RoundIsTheChilds
  <1>1. (TypeOK /\ RoundIsTheChilds) => RoundIsTheChilds
    OBVIOUS
  <1> QED BY <1>1, TypeCorrect, PTL
=============================================================================
