----------------------- MODULE RunLoopApproval_proofs -----------------------
(***************************************************************************)
(* An approval in state.json was earned: for every number of rounds, runs, *)
(* commands and faults, a reviewer who was asked in that round of that run *)
(* approved it.                                                            *)
(*                                                                         *)
(* ApprovalIsEarned alone is not inductive: the child writes state.json    *)
(* from the contract in its memory, two steps after it has read a report   *)
(* that was in review_report.json for any time before.  The invariant      *)
(* follows the approval along that way (ApprovalIsBacked).  It holds on    *)
(* because the history okd only grows, a report is written only by a       *)
(* reviewer asked about that run and round, a child believes only reports  *)
(* that match the contract it holds, and every other write of state.json   *)
(* has an outcome of its own or none.                                      *)
(*                                                                         *)
(* And what was approved is the commit in head_sha, as long as neither the *)
(* host nor a parent alone goes down.  Run and round alone do not tell a   *)
(* request from one made for an earlier attempt of the same round; the     *)
(* second invariant shows that no other request can be out: whenever a     *)
(* round may be taken up again, no reviewer has been asked in it yet       *)
(* (WorkersTurn), and requests and reports of the round in state.json are  *)
(* about its commit (RequestsCurrent, ReportCurrent).                      *)
(***************************************************************************)
EXTENDS RunLoopSerial_proofs

-----------------------------------------------------------------------------
(* The invariant, over the values a step may put in the variables.         *)

Given(o, run, round) == \E a \in o : a.run = run /\ a.round = round

Grant(o, m) == m.outcome = "approved" => Given(o, m.run, m.round)

ReviewGrant(o, r) == r.verdict = "approve" => Given(o, r.run, r.round)

KidGrant(o, k) ==
    /\ Grant(o, k.mem)
    /\ k.pc = "approving" => Given(o, k.mem.run, k.mem.round)

KidsGrant(o, kids) == \A s \in Slots : KidGrant(o, kids[s])

Grants ==
    /\ Grant(okd, st)
    /\ Grant(okd, par.mem)
    /\ ReviewGrant(okd, rev)
    /\ KidsGrant(okd, kid)

ApprovalInv == TypeInv /\ Grants

LEMMA InvBacks == Grants => ApprovalIsBacked
  BY DEF Grants, ApprovalIsBacked, Backed, Earned, Grant, Given, ReviewGrant,
         KidsGrant, KidGrant

LEMMA BackedIsEarned == ApprovalIsBacked => ApprovalIsEarned
  BY DEF ApprovalIsBacked, ApprovalIsEarned, Backed

-----------------------------------------------------------------------------
(* Contracts that carry no approval, or one that was given.                *)

LEMMA NotApproved ==
    ASSUME NEW o, NEW m, m.outcome # "approved"
    PROVE  Grant(o, m)
  BY DEF Grant

LEMMA SavedGrant ==
    ASSUME NEW o, NEW f, NEW m, Grant(o, f), Grant(o, m)
    PROVE  Grant(o, Saved(f, m))
  BY SavedType

LEMMA FailedGrant ==
    ASSUME NEW o, NEW m \in Contract, NEW x \in FailureOutcomes
    PROVE  Grant(o, Failed(m, x))
  <1>1. x \in Outcomes /\ x # "approved"
    BY DEF Outcomes, FailureOutcomes
  <1> QED BY <1>1, FailedType, NotApproved

LEMMA GivenGrant ==
    ASSUME NEW o, NEW m, Given(o, m.run, m.round)
    PROVE  Grant(o, m)
  BY DEF Grant

LEMMA BlankGrant ==
    /\ \A o : Grant(o, Blank)
    /\ \A o : KidGrant(o, Free)
    /\ \A o : ReviewGrant(o, NoReview)
    /\ \A o, rc : Grant(o, Gone(rc).mem)
  BY BlankType DEF Grant, KidGrant, ReviewGrant, Free, NoReview, Gone

-----------------------------------------------------------------------------
(* The ways a step leaves its child.                                       *)

LEMMA OneKidGrant ==
    ASSUME KidOK, NEW o, KidsGrant(o, kid), NEW s \in Slots, NEW k, KidGrant(o, k),
           kid' = [kid EXCEPT ![s] = k]
    PROVE  KidsGrant(o, kid')
  BY DEF KidsGrant, KidOK

LEMMA GotoGrant ==
    ASSUME KidOK, KidsGrant(okd, kid), NEW s \in Slots, NEW pc, pc # "approving",
           Goto(s, pc)
    PROVE  KidsGrant(okd, kid')
  <1> DEFINE k == [kid[s] EXCEPT !.pc = pc]
  <1>1. kid[s] \in Kid /\ KidGrant(okd, kid[s])
    BY DEF KidOK, KidsGrant
  <1>2. KidGrant(okd, k)
    BY <1>1 DEF KidGrant, Kid
  <1>3. kid' = [kid EXCEPT ![s] = k]
    BY DEF Goto, KidOK
  <1> HIDE DEF k
  <1> QED BY <1>2, <1>3, OneKidGrant

LEMMA ExitGrant ==
    ASSUME KidOK, KidsGrant(okd, kid), NEW s \in Slots, NEW rc, Exit(s, rc)
    PROVE  KidsGrant(okd, kid')
  <1>1. KidGrant(okd, Ended(s, rc))
    BY BlankType DEF Ended, Free, KidGrant, Grant
  <1> QED BY <1>1, OneKidGrant DEF Exit

(* The contract a child holds next.                                        *)
LEMMA MemGrant ==
    ASSUME KidOK, KidsGrant(okd, kid), NEW s \in Slots, NEW m, Grant(okd, m),
           NEW pc, pc = "approving" => Given(okd, m.run, m.round), NEW rc,
           \/ kid' = [kid EXCEPT ![s].mem = m, ![s].pc = pc]
           \/ kid' = [kid EXCEPT ![s].mem = m, ![s].pc = pc, ![s].rc = rc]
    PROVE  KidsGrant(okd, kid')
  <1>1. kid[s] \in Kid
    BY DEF KidOK
  <1>2. CASE kid' = [kid EXCEPT ![s].mem = m, ![s].pc = pc]
    <2> DEFINE k == [kid[s] EXCEPT !.mem = m, !.pc = pc]
    <2>1. k.mem = m /\ k.pc = pc
      BY <1>1 DEF Kid
    <2>2. kid' = [kid EXCEPT ![s] = k]
      BY <1>2 DEF KidOK
    <2> HIDE DEF k
    <2> QED BY <2>1, <2>2, OneKidGrant DEF KidGrant
  <1>3. CASE kid' = [kid EXCEPT ![s].mem = m, ![s].pc = pc, ![s].rc = rc]
    <2> DEFINE k == [kid[s] EXCEPT !.mem = m, !.pc = pc, !.rc = rc]
    <2>1. k.mem = m /\ k.pc = pc
      BY <1>1 DEF Kid
    <2>2. kid' = [kid EXCEPT ![s] = k]
      BY <1>3 DEF KidOK
    <2> HIDE DEF k
    <2> QED BY <2>1, <2>2, OneKidGrant DEF KidGrant
  <1> QED BY <1>2, <1>3

LEMMA TransitGrant ==
    ASSUME KidOK, Grants, NEW s \in Slots, NEW m, Grant(okd, m),
           NEW pc, pc # "approving", Transit(s, m, pc)
    PROVE  Grant(okd, st') /\ KidsGrant(okd, kid')
  BY SavedGrant, MemGrant DEF Transit, Grants

LEMMA KidFailGrant ==
    ASSUME KidOK, Grants, NEW s \in Slots, NEW m \in Contract,
           NEW x \in FailureOutcomes, KidFail(s, m, x)
    PROVE  Grant(okd, st') /\ KidsGrant(okd, kid')
  <1>1. Grant(okd, Failed(m, x))
    BY FailedGrant
  <1> QED BY <1>1, SavedGrant, MemGrant DEF KidFail, Grants

LEMMA FailGrant ==
    ASSUME par \in Parent, Grants, NEW m \in Contract, NEW x \in FailureOutcomes,
           NEW rc, Fail(m, x, rc)
    PROVE  Grant(okd, st') /\ Grant(okd, par'.mem)
  <1>1. Grant(okd, Failed(m, x))
    BY FailedGrant
  <1>2. par'.mem = Failed(m, x)
    BY DEF Fail, Parent
  <1> QED BY <1>1, <1>2, SavedGrant DEF Fail, Grants

LEMMA DropReportsGrant ==
    ASSUME NEW t, NEW r, NEW n, ReviewGrant(okd, rev), DropReports(t, r, n)
    PROVE  ReviewGrant(okd, rev')
  BY BlankGrant DEF DropReports

-----------------------------------------------------------------------------
(* The approval's way, action by action.                                   *)

(* The parent writes failures, what it has read, and fresh contracts.      *)
LEMMA ParentGrants ==
    ASSUME ApprovalInv, ParentStep \/ BootstrapBlocked
    PROVE  Grants'
  <1> USE DEF ParentOnly, files
  <1>0. FilesOK /\ par \in Parent /\ KidOK /\ Grants
    BY TypeParts DEF ApprovalInv
  <1>a. /\ st \in Contract /\ par.mem \in Contract /\ Grant(okd, st)
        /\ Grant(okd, par.mem) /\ ReviewGrant(okd, rev) /\ KidsGrant(okd, kid)
    BY <1>0 DEF FilesOK, Parent, Grants
  <1>b. StartState \in Contract /\ Grant(okd, StartState)
    BY <1>a, BlankType, BlankGrant DEF StartState
  <1> SUFFICES /\ okd' = okd /\ Grant(okd, st') /\ Grant(okd, par'.mem)
               /\ ReviewGrant(okd, rev') /\ KidsGrant(okd, kid')
    BY DEF Grants, KidsGrant
  <1>1. CASE ResumeRefused
    BY <1>1, <1>a, BlankGrant DEF ResumeRefused
  <1>2. CASE Decide
    BY <1>0, <1>2, <1>a DEF Decide, Parent
  <1>3. CASE Bootstrap
    <2> DEFINE m == Bootstrapped(StartState, par.task, nrun + 1)
    <2>1. nrun + 1 \in Runs /\ par.task \in Tasks \cup {NoTask}
      <3>1. nrun \in Runs /\ nrun < MaxRuns
        BY <1>3, TypeParts DEF ApprovalInv, Bootstrap, HistoryOK
      <3>2. nrun + 1 \in Runs
        BY <3>1, RunsAssumption DEF Runs
      <3> QED BY <1>0, <3>2 DEF Parent
    <2>2. Grant(okd, m)
      BY <1>b, <2>1, BootstrappedType, NotApproved
    <2>3. /\ st' = Saved(StartState, m)
          /\ par' = [par EXCEPT !.pc = "mark", !.run = nrun + 1, !.round = 1, !.mem = m]
      BY <1>3 DEF Bootstrap
    <2> HIDE DEF m
    <2>4. par'.mem = m
      BY <1>0, <2>3 DEF Parent
    <2>5. ReviewGrant(okd, rev')
      BY <1>3, <1>a, BlankGrant DEF Bootstrap, CleanIfStale, RemoveBusFiles
    <2> QED BY <1>3, <1>a, <1>b, <2>2, <2>3, <2>4, <2>5, SavedGrant DEF Bootstrap
  <1>4. CASE BootstrapBlocked
    <2> DEFINE b == BlockedByDependencies(StartState, par.task, 1)
               m == Failed(b, "blocked_dependencies")
    <2>1. b \in Contract /\ "blocked_dependencies" \in FailureOutcomes
      BY <1>0, <1>b, BlockedType DEF Parent, FailureOutcomes
    <2>2. Grant(okd, m)
      BY <2>1, FailedGrant
    <2>3. /\ st' = Saved(StartState, m)
          /\ par' = [par EXCEPT !.pc = "failing", !.mem = m, !.rc = 3]
      BY <1>4 DEF BootstrapBlocked
    <2> HIDE DEF m, b
    <2>4. par'.mem = m
      BY <1>0, <2>3 DEF Parent
    <2>5. ReviewGrant(okd, rev')
      BY <1>4, <1>a, BlankGrant DEF BootstrapBlocked, CleanIfStale, RemoveBusFiles
    <2> QED BY <1>4, <1>a, <1>b, <2>2, <2>3, <2>4, <2>5, SavedGrant DEF BootstrapBlocked
  <1>5. CASE BootstrapNoCard
    <2>1. ReviewGrant(okd, rev')
      BY <1>5, <1>a, BlankGrant DEF BootstrapNoCard, CleanIfStale, RemoveBusFiles
    <2> QED BY <1>5, <1>a, <1>b, <2>1, BlankGrant DEF BootstrapNoCard
  <1>6. CASE Resume
    <2>1. CASE Fail(st, "invalid_resume_state", 3) \/ Fail(st, "state_task_mismatch", 3)
      <3>1. {"invalid_resume_state", "state_task_mismatch"} \subseteq FailureOutcomes
        BY DEF FailureOutcomes
      <3> QED BY <1>0, <1>6, <1>a, <2>1, <3>1, FailGrant DEF Resume
    <2>3. CASE par' = Gone(1) /\ st' = st
      BY <1>6, <1>a, <1>b, <2>3, BlankGrant DEF Resume
    <2>2. CASE /\ ~(Fail(st, "invalid_resume_state", 3) \/ Fail(st, "state_task_mismatch", 3))
               /\ ~(par' = Gone(1) /\ st' = st)
      <3> DEFINE m == Prepared(st, st.run, st.round)
      <3>1. /\ st' = Saved(st, m)
            /\ par' = [par EXCEPT !.pc = "mark", !.task = st.task,
                         !.run = st.run, !.round = st.round, !.mem = m]
        BY <1>6, <2>2 DEF Resume
      <3>2. Grant(okd, m)
        BY <1>a, PreparedType, NotApproved DEF Contract
      <3> HIDE DEF m
      <3>3. par'.mem = m
        BY <1>0, <3>1 DEF Parent
      <3> QED BY <1>6, <1>a, <3>1, <3>2, <3>3, SavedGrant DEF Resume
    <2> QED BY <2>1, <2>2, <2>3
  <1>7. CASE MarkInProgress
    <2>1. ReviewGrant(okd, rev')
      BY <1>7, <1>a, DropReportsGrant DEF MarkInProgress
    <2>2. Grant(okd, par'.mem)
      BY <1>0, <1>7, <1>a, BlankGrant DEF MarkInProgress, Parent
    <2> QED BY <1>7, <1>a, <2>1, <2>2 DEF MarkInProgress
  <1>8. ASSUME NEW s \in Slots, SpawnRound(s)
        PROVE  /\ okd' = okd /\ Grant(okd, st') /\ Grant(okd, par'.mem)
               /\ ReviewGrant(okd, rev') /\ KidsGrant(okd, kid')
    <2> DEFINE k == [Free EXCEPT !.pc = "begin", !.round = par.round]
    <2>1. KidGrant(okd, k)
      BY BlankType DEF KidGrant, Grant, Free
    <2>2. UNCHANGED kid \/ kid' = [kid EXCEPT ![s] = k]
      BY <1>8 DEF SpawnRound
    <2> HIDE DEF k
    <2>3. KidsGrant(okd, kid')
      BY <1>0, <1>a, <2>1, <2>2, OneKidGrant
    <2>4. Grant(okd, par'.mem)
      BY <1>0, <1>8, <1>a, BlankGrant DEF SpawnRound, Parent
    <2> QED BY <1>8, <1>a, <2>3, <2>4 DEF SpawnRound
  <1>9. CASE StopOnInterrupt
    BY <1>0, <1>9, <1>a DEF StopOnInterrupt, Parent
  <1>10. CASE MaxRoundsExhausted
    <2>1. Grant(okd, st')
      <3>1. Grant(okd, Moved(st, "max_rounds_exhausted"))
        BY <1>a, TimedOutType, NotApproved
      <3> QED BY <1>10, <1>a, <3>1, SavedGrant DEF MaxRoundsExhausted
    <2>2. Grant(okd, par'.mem)
      BY <1>0, <1>10, <1>a, BlankGrant DEF MaxRoundsExhausted, Parent
    <2> QED BY <1>10, <1>a, <2>1, <2>2 DEF MaxRoundsExhausted
  <1>11. ASSUME NEW s \in Slots,
                \/ ReapInterrupted(s) \/ ReapFailed(s) \/ ReapSuccess(s)
                \/ ReapNextRound(s) \/ ReapUnexpected(s)
         PROVE  /\ okd' = okd /\ Grant(okd, st') /\ Grant(okd, par'.mem)
                /\ ReviewGrant(okd, rev') /\ KidsGrant(okd, kid')
    <2>1. Reap(s)
      BY <1>11 DEF ReapInterrupted, ReapFailed, ReapSuccess, ReapNextRound, ReapUnexpected
    <2>2. KidsGrant(okd, kid')
      BY <1>0, <1>a, <2>1, OneKidGrant, BlankGrant DEF Reap
    <2>3. Grant(okd, st') /\ Grant(okd, par'.mem)
      <3>1. CASE ReapInterrupted(s)
        BY <1>0, <1>a, <3>1 DEF ReapInterrupted, Parent
      <3>2. CASE ReapFailed(s)
        <4>1. Fail(par.mem, "single_round_failed", 3)
          BY <3>2 DEF ReapFailed
        <4>2. "single_round_failed" \in FailureOutcomes
          BY DEF FailureOutcomes
        <4> QED BY <1>0, <1>a, <4>1, <4>2, FailGrant
      <3>3. CASE ReapSuccess(s)
        BY <1>a, <3>3, BlankGrant DEF ReapSuccess
      <3>4. CASE ReapNextRound(s)
        <4>1. /\ par' = [par EXCEPT !.pc = "loop", !.round = par.round + 1, !.mem = st]
              /\ st' = st
          BY <3>4 DEF ReapNextRound
        <4> QED BY <1>0, <1>a, <4>1 DEF Parent
      <3>5. CASE ReapUnexpected(s)
        <4>1. \/ Fail(st, "invalid_state_transition", 3)
              \/ Fail(st, "state_contract_mismatch", 3)
          BY <3>5 DEF ReapUnexpected
        <4>2. {"invalid_state_transition", "state_contract_mismatch"}
                 \subseteq FailureOutcomes
          BY DEF FailureOutcomes
        <4> QED BY <1>0, <1>a, <4>1, <4>2, FailGrant
      <3> QED BY <1>11, <3>1, <3>2, <3>3, <3>4, <3>5
    <2> QED BY <1>a, <2>1, <2>2, <2>3 DEF Reap
  <1>12. CASE FailInterrupted
    <2>1. Fail(st, "interrupted", 130) /\ "interrupted" \in FailureOutcomes
      BY <1>12 DEF FailInterrupted, FailureOutcomes
    <2> QED BY <1>0, <1>12, <1>a, <2>1, FailGrant DEF FailInterrupted
  <1>13. CASE FailTail
    BY <1>13, <1>a, BlankGrant DEF FailTail
  <1>14. CASE BlockTail
    BY <1>14, <1>a, BlankGrant DEF BlockTail
  <1> QED BY <1>1, <1>2, <1>3, <1>4, <1>5, <1>6, <1>7, <1>8, <1>9, <1>10,
             <1>11, <1>12, <1>13, <1>14 DEF ParentStep

(* The child turns a reviewer's word into an approval in two steps, and    *)
(* believes only the word on the run and round it holds.                   *)
LEMMA ChildGrants ==
    ASSUME ApprovalInv, NEW s \in Slots, KidStep(s) \/ KidTrouble(s)
    PROVE  Grants'
  <1> USE DEF KidOnly, files
  <1>0. FilesOK /\ par \in Parent /\ KidOK /\ Grants
    BY TypeParts DEF ApprovalInv
  <1> DEFINE m == kid[s].mem
  <1>a. /\ m \in Contract /\ KidGrant(okd, kid[s]) /\ Grant(okd, m)
        /\ m.outcome \in Outcomes /\ kid[s].head \in Heads /\ kid[s].round \in Rounds
        /\ m.run \in Runs
    BY <1>0 DEF KidOK, Kid, Grants, KidsGrant, KidGrant, Contract
  <1>b. /\ Grant(okd, st) /\ Grant(okd, par.mem) /\ ReviewGrant(okd, rev)
        /\ KidsGrant(okd, kid) /\ st \in Contract
    BY <1>0 DEF Grants, FilesOK
  <1>c. {"blocked_dependencies", "state_task_mismatch", "invalid_report",
         "validation_failure", "dispatch_failed"} \subseteq FailureOutcomes
    BY DEF FailureOutcomes
  <1>d. okd' = okd /\ par' = par
    BY DEF KidStep, KidTrouble, LoadRound, LoadBlocked, BootstrapRound, PrepareRound,
       DispatchWorker, RejectWork, RefusePatch, AcceptWork, AcceptNoChange,
       RefuseNoChange, WriteRequest, DispatchReviewer, WorkerTimeout, ReviewerTimeout,
       TimedOut, DispatchFailed, RejectReview, AcceptApproval, AcceptChanges,
       TakeReview, Approve, MarkDone, WriteSummary, WriteFixList, AdvanceRound,
       Return, KidFailTail, KidBlockTail, ChildTerminated, OrphanDies
  <1>e. ReviewGrant(okd, rev')
    <2>1. CASE DispatchWorker(s)
      BY <1>b, <2>1, DropReportsGrant DEF DispatchWorker
    <2>2. CASE WriteRequest(s)
      BY <1>b, <2>2, BlankGrant DEF WriteRequest
    <2>3. CASE ~DispatchWorker(s) /\ ~WriteRequest(s)
      <3>1. rev' = rev
        BY <2>3 DEF KidStep, KidTrouble, LoadRound, LoadBlocked, BootstrapRound,
           PrepareRound, RejectWork, RefusePatch, AcceptWork, AcceptNoChange,
           RefuseNoChange, DispatchReviewer, WorkerTimeout, ReviewerTimeout,
           TimedOut, DispatchFailed, RejectReview, AcceptApproval, AcceptChanges,
           TakeReview, Approve, MarkDone, WriteSummary, WriteFixList, AdvanceRound,
           Return, KidFailTail, KidBlockTail, ChildTerminated, OrphanDies
      <3> QED BY <1>b, <3>1
    <2> QED BY <2>1, <2>2, <2>3
  <1> SUFFICES Grant(okd, st') /\ KidsGrant(okd, kid')
    BY <1>b, <1>d, <1>e DEF Grants, KidsGrant
  <1> HIDE DEF m
  <1>1. CASE LoadRound(s)
    <2>1. CASE Exit(s, 1) \/ Exit(s, 3)
      BY <1>0, <1>1, <1>b, <2>1, ExitGrant DEF LoadRound
    <2>2. CASE ~(Exit(s, 1) \/ Exit(s, 3))
      <3> DEFINE k == IF kid[s].orphan /\ card.status # "in_progress" THEN Free
                      ELSE [kid[s] EXCEPT !.mem = st, !.pc = "loaded"]
      <3>1. kid' = [kid EXCEPT ![s] = k]
        BY <1>1, <2>2 DEF LoadRound
      <3>2. KidGrant(okd, k)
        BY <1>0, <1>b, BlankGrant DEF KidGrant, KidOK, Kid
      <3> HIDE DEF k
      <3> QED BY <1>0, <1>1, <1>b, <3>1, <3>2, OneKidGrant DEF LoadRound
    <2> QED BY <2>1, <2>2
  <1>2. CASE LoadBlocked(s)
    <2>1. BlockedByDependencies(st, card.task, 1) \in Contract
      BY <1>0, <1>b, BlockedType DEF FilesOK, Card
    <2> QED BY <1>0, <1>2, <1>c, <2>1, KidFailGrant DEF LoadBlocked
  <1>3. CASE BootstrapRound(s)
    <2> DEFINE b == Bootstrapped(kid[s].mem, card.task, nrun + 1)
    <2>1. nrun + 1 \in Runs /\ card.task \in Tasks \cup {NoTask}
      <3>1. nrun \in Runs /\ nrun < MaxRuns
        BY <1>3, TypeParts DEF ApprovalInv, BootstrapRound, HistoryOK
      <3>2. nrun + 1 \in Runs
        BY <3>1, RunsAssumption DEF Runs
      <3> QED BY <1>0, <3>2 DEF FilesOK, Card
    <2>2. Grant(okd, b)
      BY <1>a, <2>1, BootstrappedType, NotApproved DEF m
    <2>3. Transit(s, b, "loaded")
      BY <1>3 DEF BootstrapRound
    <2> HIDE DEF b
    <2> QED BY <1>0, <2>2, <2>3, TransitGrant
  <1>4. CASE PrepareRound(s)
    <2>1. CASE KidFail(s, kid[s].mem, "state_task_mismatch")
      BY <1>0, <1>a, <1>c, <2>1, KidFailGrant DEF m
    <2>2. CASE ~KidFail(s, kid[s].mem, "state_task_mismatch")
      <3> DEFINE p == Prepared(kid[s].mem, kid[s].mem.run, kid[s].round)
      <3>1. Transit(s, p, "prepared")
        BY <1>4, <2>2 DEF PrepareRound
      <3>2. Grant(okd, p)
        BY <1>a, PreparedType, NotApproved DEF m
      <3> HIDE DEF p
      <3> QED BY <1>0, <3>1, <3>2, TransitGrant
    <2> QED BY <2>1, <2>2
  <1>5. CASE DispatchWorker(s)
    <2>1. Exit(s, 3) \/ Goto(s, "work")
      BY <1>5 DEF DispatchWorker
    <2> QED BY <1>0, <1>5, <1>b, <2>1, ExitGrant, GotoGrant DEF DispatchWorker
  <1>6. CASE RejectWork(s)
    <2>1. KidFail(s, m, "invalid_report") \/ KidFail(s, m, "validation_failure")
      BY <1>6 DEF RejectWork, m
    <2> QED BY <1>0, <1>a, <1>c, <2>1, KidFailGrant
  <1>7. CASE RefusePatch(s)
    BY <1>0, <1>7, <1>b, ExitGrant DEF RefusePatch
  <1>8. CASE AcceptWork(s)
    <2> DEFINE k == [kid[s] EXCEPT !.head = work.head, !.pc = "worked"]
    <2>1. kid' = [kid EXCEPT ![s] = k]
      BY <1>0, <1>8 DEF AcceptWork, KidOK
    <2>2. KidGrant(okd, k)
      BY <1>0, <1>a DEF KidGrant, KidOK, Kid, m
    <2> HIDE DEF k
    <2> QED BY <1>0, <1>8, <1>b, <2>1, <2>2, OneKidGrant DEF AcceptWork
  <1>9. CASE AcceptNoChange(s)
    <2> DEFINE n == NoChange(Recorded(kid[s].mem, "no_change"))
    <2>1. Recorded(kid[s].mem, "no_change") \in Contract
      BY <1>a, RecordedType DEF m, Decisions
    <2>2. Grant(okd, n)
      BY <2>1, NoChangeType, NotApproved
    <2>3. Transit(s, n, "success")
      BY <1>9 DEF AcceptNoChange
    <2> HIDE DEF n
    <2> QED BY <1>0, <2>2, <2>3, TransitGrant
  <1>10. CASE RefuseNoChange(s)
    <2>1. Recorded(kid[s].mem, "no_change") \in Contract
      BY <1>a, RecordedType DEF m, Decisions
    <2> QED BY <1>0, <1>10, <1>c, <2>1, KidFailGrant DEF RefuseNoChange
  <1>11. CASE WriteRequest(s)
    <2>1. Exit(s, 3) \/ Goto(s, "requested")
      BY <1>11 DEF WriteRequest
    <2> QED BY <1>0, <1>11, <1>b, <2>1, ExitGrant, GotoGrant DEF WriteRequest
  <1>12. CASE DispatchReviewer(s)
    <2> DEFINE n == Submitted(kid[s].mem, kid[s].head)
    <2>1. Grant(okd, n)
      <3>1. n.outcome = m.outcome /\ n.run = m.run /\ n.round = m.round
        BY <1>a, SubmittedType DEF m
      <3> HIDE DEF n
      <3> QED BY <1>a, <3>1 DEF Grant
    <2>2. Transit(s, n, "review")
      BY <1>12 DEF DispatchReviewer
    <2> HIDE DEF n
    <2> QED BY <1>0, <2>1, <2>2, TransitGrant
  <1>13. CASE WorkerTimeout(s) \/ ReviewerTimeout(s)
    <2>1. PICK t \in {"worker_timeout", "reviewer_timeout"} :
             /\ st' = Saved(st, Moved(kid[s].mem, t))
             /\ kid' = [kid EXCEPT ![s].mem = Moved(kid[s].mem, t),
                                   ![s].pc = "blocking", ![s].rc = 2]
      <3>1. CASE WorkerTimeout(s)
        BY <3>1 DEF WorkerTimeout, TimedOut
      <3>2. CASE ReviewerTimeout(s)
        BY <3>2 DEF ReviewerTimeout, TimedOut
      <3> QED BY <1>13, <3>1, <3>2
    <2>2. Grant(okd, Moved(kid[s].mem, t))
      BY <1>a, TimedOutType, NotApproved DEF m
    <2> QED BY <1>0, <1>b, <2>1, <2>2, SavedGrant, MemGrant
  <1>14. CASE DispatchFailed(s)
    BY <1>0, <1>14, <1>a, <1>c, KidFailGrant DEF DispatchFailed, m
  <1>15. CASE RejectReview(s)
    BY <1>0, <1>15, <1>a, <1>c, KidFailGrant DEF RejectReview, m
  <1>16. CASE AcceptApproval(s)
    <2> DEFINE n == Recorded(kid[s].mem, "approve")
    <2>1. /\ rev.verdict = "approve" /\ rev.run = m.run /\ rev.round = m.round
          /\ kid' = [kid EXCEPT ![s].mem = n, ![s].pc = "approving"]
          /\ st' = st
      BY <1>16 DEF AcceptApproval, TakeReview, ReviewIn, Matches, m
    <2>2. Given(okd, m.run, m.round)
      BY <1>b, <2>1 DEF ReviewGrant
    <2>3. n.run = m.run /\ n.round = m.round
      BY <1>a, RecordedType DEF m, Decisions
    <2> HIDE DEF n
    <2> QED BY <1>0, <1>b, <2>1, <2>2, <2>3, GivenGrant, MemGrant
  <1>17. CASE AcceptChanges(s)
    <2> DEFINE n == Recorded(kid[s].mem, "changes_required")
    <2>1. kid' = [kid EXCEPT ![s].mem = n, ![s].pc = "retrying"] /\ st' = st
      BY <1>17 DEF AcceptChanges, TakeReview
    <2>2. n.run = m.run /\ n.round = m.round /\ n.outcome = m.outcome
      BY <1>a, RecordedType DEF m, Decisions
    <2> HIDE DEF n
    <2>3. Grant(okd, n)
      BY <1>a, <2>2 DEF Grant
    <2> QED BY <1>0, <1>b, <2>1, <2>3, MemGrant
  <1>18. CASE Approve(s)
    <2> DEFINE n == Approved(kid[s].mem)
    <2>1. n.run = m.run /\ n.round = m.round
      BY <1>a, ApprovedType DEF m
    <2>2. Given(okd, m.run, m.round)
      BY <1>18, <1>a DEF Approve, At, KidGrant, m
    <2>3. Transit(s, n, "success")
      BY <1>18 DEF Approve
    <2> HIDE DEF n
    <2> QED BY <1>0, <2>1, <2>2, <2>3, GivenGrant, TransitGrant
  <1>19. CASE MarkDone(s)
    <2>1. Exit(s, 1) \/ Goto(s, "summing")
      BY <1>19 DEF MarkDone
    <2> QED BY <1>0, <1>19, <1>b, <2>1, ExitGrant, GotoGrant DEF MarkDone
  <1>20. CASE WriteSummary(s)
    BY <1>0, <1>20, <1>b, GotoGrant DEF WriteSummary
  <1>21. CASE WriteFixList(s)
    <2>1. Exit(s, 3) \/ Goto(s, "retried")
      BY <1>21 DEF WriteFixList
    <2> QED BY <1>0, <1>21, <1>b, <2>1, ExitGrant, GotoGrant DEF WriteFixList
  <1>22. CASE AdvanceRound(s)
    <2> DEFINE n == Retried(kid[s].mem)
    <2>1. m.round <= MaxRounds
      BY <1>0, <1>22 DEF AdvanceRound, At, KidOK, RoundIsTheChilds, InRound, m
    <2>2. Grant(okd, n)
      BY <1>a, <2>1, RetriedType, NotApproved DEF m
    <2>3. Transit(s, n, "returning")
      BY <1>22 DEF AdvanceRound
    <2> HIDE DEF n
    <2> QED BY <1>0, <2>2, <2>3, TransitGrant
  <1>23. CASE Return(s) \/ ChildTerminated(s) \/ OrphanDies(s)
    <2>1. (Exit(s, 0) \/ Exit(s, 137) \/ Exit(s, 1)) /\ st' = st
      BY <1>23 DEF Return, ChildTerminated, OrphanDies
    <2> QED BY <1>0, <1>b, <2>1, ExitGrant
  <1>24. CASE KidFailTail(s) \/ KidBlockTail(s)
    <2>1. Exit(s, kid[s].rc) /\ st' = st
      BY <1>24 DEF KidFailTail, KidBlockTail
    <2> QED BY <1>0, <1>b, <2>1, ExitGrant
  <1> QED BY <1>1, <1>2, <1>3, <1>4, <1>5, <1>6, <1>7, <1>8, <1>9, <1>10,
             <1>11, <1>12, <1>13, <1>14, <1>15, <1>16, <1>17, <1>18, <1>19,
             <1>20, <1>21, <1>22, <1>23, <1>24
          DEF KidStep, KidTrouble

(* A report that says approve joins the history in the step that writes it.*)
LEMMA AgentGrants ==
    ASSUME ApprovalInv, Agents
    PROVE  Grants'
  <1>0. Grants
    BY DEF ApprovalInv
  <1>1. PICK j \in jobs :
           \/ \E head \in 0 .. Bad : DeliverWork(j, head)
           \/ \E verdict \in Verdicts : DeliverReview(j, verdict)
    BY DEF Agents
  <1>2. UNCHANGED <<st, par, kid>>
    BY <1>1 DEF DeliverWork, DeliverReview, AgentOnly
  <1>3. okd \subseteq okd' /\ ReviewGrant(okd', rev')
    <2>1. CASE \E head \in 0 .. Bad : DeliverWork(j, head)
      BY <1>0, <2>1 DEF DeliverWork, Grants
    <2>2. CASE \E verdict \in Verdicts : DeliverReview(j, verdict)
      <3>1. PICK verdict \in Verdicts : DeliverReview(j, verdict)
        BY <2>2
      <3>2. okd \subseteq okd'
        BY <3>1 DEF DeliverReview
      <3>3. /\ rev'.verdict = verdict /\ rev'.run = j.run /\ rev'.round = j.round
            /\ verdict = "approve" =>
                 [run |-> j.run, round |-> j.round, head |-> j.head] \in okd'
        BY <3>1 DEF DeliverReview
      <3> QED BY <3>2, <3>3 DEF ReviewGrant, Given
    <2> QED BY <1>1, <2>1, <2>2
  <1>4. \A run, round : Given(okd, run, round) => Given(okd', run, round)
    BY <1>3 DEF Given
  <1>5. Grant(okd', st) /\ Grant(okd', par.mem) /\ KidsGrant(okd', kid)
    BY <1>0, <1>4 DEF Grants, Grant, KidsGrant, KidGrant
  <1> QED BY <1>2, <1>3, <1>5 DEF Grants, KidsGrant

LEMMA OtherGrants ==
    ASSUME ApprovalInv, Operator \/ Environment \/ Quiescent \/ UNCHANGED vars
    PROVE  Grants'
  <1>0. Grants /\ KidOK /\ par \in Parent
    BY TypeParts DEF ApprovalInv
  <1>1. CASE Operator
    <2>1. PICK t \in Tasks, ext \in External, f \in Flags, dirty \in BOOLEAN :
             Invoke(t, ext, f, dirty)
      BY <1>1 DEF Operator
    <2>2. okd' = okd /\ kid' = kid
      BY <2>1 DEF Invoke, ParentOnly
    <2>3. Grant(okd, st') /\ ReviewGrant(okd, rev')
      BY <1>0, <2>1, BlankGrant DEF Invoke, RemoveBusFiles, Grants
    <2>4. par'.mem = Blank
      BY <2>1 DEF Invoke, Gone
    <2> QED BY <1>0, <2>2, <2>3, <2>4, BlankGrant DEF Grants, KidsGrant
  <1>2. CASE HostCrash \/ ParentKilled
    <2>1. okd' = okd /\ st' = st /\ rev' = rev /\ par' = Gone(137)
      BY <1>2 DEF HostCrash, ParentKilled, Fault, files
    <2>2. KidsGrant(okd, kid')
      <3>1. CASE HostCrash
        BY <3>1, BlankGrant DEF HostCrash, KidsGrant
      <3>2. CASE ParentKilled
        <4> SUFFICES ASSUME NEW s \in Slots PROVE KidGrant(okd, kid'[s])
          BY DEF KidsGrant
        <4>1. kid[s] \in Kid /\ KidGrant(okd, kid[s])
          BY <1>0 DEF KidOK, Grants, KidsGrant
        <4>2. kid'[s] = Free \/ kid'[s] = [kid[s] EXCEPT !.orphan = TRUE]
          BY <3>2 DEF ParentKilled
        <4> QED BY <4>1, <4>2, BlankGrant DEF KidGrant, Kid
      <3> QED BY <1>2, <3>1, <3>2
    <2> QED BY <1>0, <2>1, <2>2, BlankGrant DEF Grants, KidsGrant
  <1>3. CASE Interrupt
    <2>1. par'.mem = par.mem /\ UNCHANGED <<st, rev, okd, kid>>
      BY <1>0, <1>3 DEF Interrupt, Fault, files, Parent
    <2> QED BY <1>0, <2>1 DEF Grants, KidsGrant
  <1>4. CASE \E s \in Slots : ChildDies(s)
    <2>1. PICK s \in Slots : ChildDies(s)
      BY <1>4
    <2>2. KidsGrant(okd, kid')
      BY <1>0, <2>1, ExitGrant DEF ChildDies, Grants
    <2> QED BY <1>0, <2>1, <2>2 DEF ChildDies, Fault, files, Grants, KidsGrant
  <1>5. CASE Quiescent \/ UNCHANGED vars
    BY <1>0, <1>5 DEF Quiescent, vars, files, Grants, KidsGrant
  <1> QED BY <1>1, <1>2, <1>3, <1>4, <1>5 DEF Environment

LEMMA InitGrants == Init => Grants
  BY BlankGrant DEF Init, Grants, KidsGrant

LEMMA ApprovalStep == ApprovalInv /\ [Next]_vars => ApprovalInv'
  <1> SUFFICES ASSUME ApprovalInv, [Next]_vars PROVE ApprovalInv'
    OBVIOUS
  <1>1. TypeInv'
    BY NextTypes DEF ApprovalInv
  <1>2. Grants'
    BY ParentGrants, ChildGrants, AgentGrants, OtherGrants DEF Next
  <1> QED BY <1>1, <1>2 DEF ApprovalInv

(* The word of a reviewer stands behind every approval: in state.json, in  *)
(* the parent's and the children's memory, and in review_report.json.      *)
THEOREM ApprovalBacked == Spec => []ApprovalIsBacked
  <1>1. Init => ApprovalInv
    BY InitTypes, InitGrants DEF ApprovalInv
  <1>2. ApprovalInv => ApprovalIsBacked
    BY InvBacks DEF ApprovalInv
  <1> QED BY <1>1, <1>2, ApprovalStep, PTL DEF Spec

(* state.json never says approved of a round no reviewer approved.         *)
THEOREM ApprovalEarned == Spec => []ApprovalIsEarned
  BY ApprovalBacked, BackedIsEarned, PTL

-----------------------------------------------------------------------------
(* What was reviewed.                                                      *)

(* The approval a reviewer gives of what the contract m asks for.          *)
Word(m) == [run |-> m.run, round |-> m.round, head |-> m.head]

(* A request or a report, a, that the round in state.json, or one to come, *)
(* may still take for its own.                                             *)
Concerns(a, m) == InFlight(m) /\ a.run = m.run /\ a.round >= m.round

WorkersTurn ==
    InFlight(st) /\ par.pc \notin {"wait", "interrupted"} => st.phase = "awaiting_work"

RequestsCurrent ==
    \A j \in jobs : j.role = "reviewer" =>
        /\ j.run <= nrun
        /\ Concerns(j, st) =>
              st.phase = "awaiting_review" /\ j.round = st.round /\ j.head = st.head

ReportCurrent ==
    /\ rev.run <= nrun
    /\ rev.verdict = "approve" /\ Concerns(rev, st) =>
          st.phase = "awaiting_review" /\ rev.round = st.round /\ Word(st) \in okd

ChildHasWord ==
    \A s \in Slots : kid[s].pc = "approving" => Word(kid[s].mem) \in okd

HeadInv ==
    /\ WorkersTurn
    /\ RequestsCurrent
    /\ ReportCurrent
    /\ ChildHasWord
    /\ ApprovedHeadWasReviewed

(* From contract m to n nothing is asked of a reviewer, and nothing that   *)
(* was asked before concerns n unless it concerned m.                      *)
Same(m, n) ==
    /\ n.phase = m.phase /\ n.round = m.round /\ n.run = m.run
    /\ n.outcome = m.outcome /\ n.head = m.head

Ends(n) == ~InFlight(n) /\ n.outcome # "approved"

ToTheWorker(m, n, last) ==
    /\ n.phase = "awaiting_work" /\ n.outcome # "approved"
    /\ \/ n.run > last
       \/ n.run = m.run /\ m.phase = "awaiting_work" /\ n.round = m.round
       \/ n.run = m.run /\ InFlight(m) /\ n.round > m.round

Quiet(m, n, last) == Same(m, n) \/ Ends(n) \/ ToTheWorker(m, n, last)

LEMMA QuietHeads ==
    ASSUME TypeInv, TypeInv', HeadInv, Quiet(st, st', nrun),
           \A j \in jobs' : j.role = "reviewer" => j \in jobs,
           rev' = rev \/ rev' = NoReview, okd' = okd, nrun' \in {nrun, nrun + 1},
           WorkersTurn', ChildHasWord'
    PROVE  HeadInv'
  <1>1. /\ nrun \in Nat /\ st.run \in Nat /\ st'.run \in Nat
        /\ st.round \in Nat /\ st'.round \in Nat
        /\ rev.run \in Nat /\ rev.round \in Nat /\ rev'.run \in Nat
        /\ \A j \in jobs' : j.run \in Nat /\ j.round \in Nat
    BY DEF TypeInv, TypeOK, Contract, Runs, Rounds, RevRep, Job
  <1>2. ASSUME NEW a, a.run \in Nat, a.round \in Nat, a.run <= nrun, Concerns(a, st')
        PROVE  /\ Concerns(a, st)
               /\ st.phase = "awaiting_review" /\ a.round = st.round => Same(st, st')
    <2>1. InFlight(st') /\ a.run = st'.run /\ a.round >= st'.round
      BY <1>2 DEF Concerns
    <2>2. CASE Same(st, st')
      BY <2>1, <2>2 DEF Same, Concerns, InFlight
    <2>3. CASE ToTheWorker(st, st', nrun)
      <3>1. st'.run = st.run /\ a.round >= st.round
        BY <1>1, <1>2, <2>1, <2>3 DEF ToTheWorker
      <3>2. InFlight(st) /\ (st.phase = "awaiting_review" => st'.round > st.round)
        BY <1>1, <1>2, <2>1, <2>3 DEF ToTheWorker, InFlight
      <3> QED BY <1>1, <2>1, <3>1, <3>2 DEF Concerns
    <2> QED BY <2>1, <2>2, <2>3 DEF Quiet, Ends
  <1>3. RequestsCurrent'
    <2> SUFFICES ASSUME NEW j \in jobs', j.role = "reviewer"
                 PROVE  /\ j.run <= nrun'
                        /\ Concerns(j, st') => /\ st'.phase = "awaiting_review"
                                               /\ j.round = st'.round /\ j.head = st'.head
      BY DEF RequestsCurrent
    <2>1. j.run <= nrun
      BY DEF HeadInv, RequestsCurrent
    <2>2. ASSUME Concerns(j, st')
          PROVE  st'.phase = "awaiting_review" /\ j.round = st'.round /\ j.head = st'.head
      <3>1. Concerns(j, st) /\ (st.phase = "awaiting_review" /\ j.round = st.round => Same(st, st'))
        BY <1>1, <1>2, <2>1, <2>2
      <3> QED BY <3>1 DEF HeadInv, RequestsCurrent, Same
    <2> QED BY <1>1, <2>1, <2>2
  <1>4. ReportCurrent'
    <2>1. CASE rev' = NoReview
      <3>1. rev'.run = 0 /\ rev'.verdict # "approve"
        BY <2>1 DEF NoReview
      <3> QED BY <1>1, <3>1 DEF ReportCurrent
    <2>2. CASE rev' = rev
      <3>1. rev.run <= nrun
        BY DEF HeadInv, ReportCurrent
      <3>2. ASSUME rev.verdict = "approve", Concerns(rev, st')
            PROVE  st'.phase = "awaiting_review" /\ rev.round = st'.round /\ Word(st') \in okd
        <4>1. Concerns(rev, st) /\ (st.phase = "awaiting_review" /\ rev.round = st.round => Same(st, st'))
          BY <1>1, <1>2, <3>1, <3>2
        <4> QED BY <3>2, <4>1 DEF HeadInv, ReportCurrent, Same, Word
      <3> QED BY <1>1, <2>2, <3>1, <3>2 DEF ReportCurrent
    <2> QED BY <2>1, <2>2
  <1>5. ApprovedHeadWasReviewed'
    BY DEF Quiet, Same, Ends, ToTheWorker, HeadInv, ApprovedHeadWasReviewed
  <1> QED BY <1>3, <1>4, <1>5 DEF HeadInv

LEMMA ChildKeeps ==
    ASSUME TypeInv, HeadInv, okd' = okd, NEW s \in Slots, NEW k,
           kid' = [kid EXCEPT ![s] = k], k.pc # "approving"
    PROVE  ChildHasWord'
  <1>1. \A q \in Slots : kid'[q] = IF q = s THEN k ELSE kid[q]
    BY DEF TypeInv, TypeOK
  <1> QED BY <1>1 DEF HeadInv, ChildHasWord

LEMMA FailedEnds ==
    ASSUME NEW f, NEW m \in Contract, NEW o \in FailureOutcomes
    PROVE  Ends(Saved(f, Failed(m, o)))
  <1>1. Failed(m, o).phase = "done" /\ Failed(m, o).outcome # "approved"
    BY Failures, FailedType, FailedParts
  <1> QED BY <1>1, SavedParts DEF Ends, InFlight

LEMMA TimedOutEnds ==
    ASSUME NEW f, NEW m \in Contract,
           NEW t \in {"worker_timeout", "reviewer_timeout", "max_rounds_exhausted"}
    PROVE  Ends(Saved(f, Moved(m, t)))
  <1>1. Moved(m, t).phase = "done" /\ Moved(m, t).outcome # "approved"
    BY TimedOutType, TimedOutParts
  <1> QED BY <1>1, SavedParts DEF Ends, InFlight

(* A child that goes on, or ends, without a word to or from a reviewer.    *)
LEMMA ChildQuiet ==
    ASSUME TypeInv, TypeInv', SerialInv, HeadInv, NEW s \in Slots, Running(s),
           NEW k, kid' = [kid EXCEPT ![s] = k], k.pc # "approving",
           Quiet(st, st', nrun), UNCHANGED <<par, okd, nrun>>,
           \A j \in jobs' : j.role = "reviewer" => j \in jobs,
           rev' = rev \/ rev' = NoReview
    PROVE  HeadInv'
  <1>1. ChildHasWord'
    BY ChildKeeps
  <1>2. WorkersTurn'
    BY RunningParts DEF WorkersTurn
  <1> QED BY <1>1, <1>2, QuietHeads
LEMMA ChildHeads ==
    ASSUME TypeInv, TypeInv', SerialInv, HeadInv, NEW s \in Slots,
           KidStep(s) \/ KidTrouble(s) \/ ChildDies(s)
    PROVE  HeadInv'
  <1> USE DEF KidOnly
  <1> DEFINE m == kid[s].mem
  <1>0. Running(s)
    BY ChildRuns
  <1>1. /\ st \in Contract /\ nrun \in Nat /\ card \in Card /\ par \in Parent
        /\ kid \in [Slots -> Kid] /\ kid[s] \in Kid /\ m \in Contract
        /\ par.pc = "wait" /\ ~kid[s].orphan /\ card # NoCard
        /\ Stage(kid[s], st, par, fix) /\ Sound(st, nrun) /\ Open(par.mem, nrun)
        /\ Turn(par.mem, par)
    BY <1>0, RunningParts
  <1>2. /\ kid[s].pc \in ToWork => st.phase = "awaiting_work" /\ Open(st, nrun)
        /\ kid[s].pc \in ToReview => st.phase = "awaiting_review" /\ Open(st, nrun)
        /\ kid[s].pc \in Copied => m = st
    BY <1>1, SoundParts DEF Stage, Turn, InFlight
  <1>3. Same(st, st)
    BY DEF Same
  <1>4. WorkersTurn'
    <2>1. par' = par
      <3>1. CASE KidStep(s)
        BY <3>1 DEF KidStep, LoadRound, BootstrapRound, PrepareRound, DispatchWorker,
             RejectWork, AcceptWork, AcceptNoChange, RefuseNoChange, WriteRequest,
             DispatchReviewer, WorkerTimeout, ReviewerTimeout, TimedOut, RejectReview,
             AcceptApproval, AcceptChanges, TakeReview, Approve, MarkDone, WriteSummary,
             WriteFixList, AdvanceRound, Return, KidFailTail, KidBlockTail
      <3>2. CASE KidTrouble(s) \/ ChildDies(s)
        BY <3>2 DEF KidTrouble, LoadBlocked, RefusePatch, DispatchFailed,
             ChildTerminated, OrphanDies, ChildDies
      <3> QED BY <3>1, <3>2
    <2> QED BY <1>1, <2>1 DEF WorkersTurn
  <1> HIDE DEF m
  <1>a. ASSUME NEW rc, Exit(s, rc), UNCHANGED <<st, jobs, par, okd, nrun>>,
               rev' = rev \/ rev' = NoReview
        PROVE  HeadInv'
    <2>1. Ended(s, rc).pc # "approving"
      BY DEF Ended, Free
    <2> QED BY <1>0, <1>3, <1>a, <2>1, ChildQuiet DEF Exit, Quiet
  <1>b. ASSUME NEW pc, Goto(s, pc), pc # "approving", UNCHANGED <<st, par, okd, nrun>>,
               \A j \in jobs' : j.role = "reviewer" => j \in jobs,
               rev' = rev \/ rev' = NoReview
        PROVE  HeadInv'
    <2> DEFINE k == [kid[s] EXCEPT !.pc = pc]
    <2>1. kid' = [kid EXCEPT ![s] = k] /\ k.pc # "approving"
      BY <1>1, <1>b DEF Goto, Kid
    <2> HIDE DEF k
    <2> QED BY <1>0, <1>3, <1>b, <2>1, ChildQuiet DEF Quiet
  <1>c. ASSUME NEW w, NEW pc, kid' = [kid EXCEPT ![s].mem = w, ![s].pc = pc],
               pc # "approving", Quiet(st, st', nrun), UNCHANGED <<jobs, par, okd, nrun, rev>>
        PROVE  HeadInv'
    <2> DEFINE k == [kid[s] EXCEPT !.mem = w, !.pc = pc]
    <2>1. kid' = [kid EXCEPT ![s] = k] /\ k.pc # "approving"
      BY <1>1, <1>c DEF Kid
    <2> HIDE DEF k
    <2> QED BY <1>0, <1>c, <2>1, ChildQuiet
  <1>d. ASSUME NEW w \in Contract, NEW o \in FailureOutcomes, KidFail(s, w, o),
               UNCHANGED <<jobs, par, okd, nrun, rev>>
        PROVE  HeadInv'
    <2> DEFINE k == [kid[s] EXCEPT !.mem = Failed(w, o), !.pc = "failing", !.rc = 3]
    <2>1. kid' = [kid EXCEPT ![s] = k] /\ k.pc # "approving"
      BY <1>1, <1>d DEF KidFail, Kid
    <2>2. Quiet(st, st', nrun)
      BY <1>d, FailedEnds DEF KidFail, Quiet
    <2> HIDE DEF k
    <2> QED BY <1>0, <1>d, <2>1, <2>2, ChildQuiet
  <1>e. {"blocked_dependencies", "state_task_mismatch", "invalid_report",
         "validation_failure", "dispatch_failed"} \subseteq FailureOutcomes
    BY DEF FailureOutcomes
  <1>f. ASSUME NEW d \in Decisions  PROVE Recorded(m, d) \in Contract
    BY <1>1, RecordedType
  <1>5. CASE LoadRound(s)
    <2>1. CASE StaleArtifacts(st)
      <3>1. Exit(s, 3) /\ UNCHANGED <<st, jobs, par, okd, nrun, rev>>
        BY <1>1, <1>5, <2>1 DEF LoadRound
      <3> QED BY <1>a, <3>1
    <2>2. CASE ~StaleArtifacts(st)
      <3> DEFINE k == [kid[s] EXCEPT !.mem = st, !.pc = "loaded"]
      <3>1. /\ kid' = [kid EXCEPT ![s] = k] /\ k.pc # "approving"
            /\ UNCHANGED <<st, jobs, par, okd, nrun, rev>>
        BY <1>1, <1>5, <2>2 DEF LoadRound, Kid
      <3> HIDE DEF k
      <3> QED BY <1>0, <1>3, <3>1, ChildQuiet DEF Quiet
    <2> QED BY <2>1, <2>2
  <1>6. CASE LoadBlocked(s)
    <2>1. BlockedByDependencies(st, card.task, 1) \in Contract
      BY <1>1, BlockedType DEF Card
    <2> QED BY <1>6, <1>d, <1>e, <2>1 DEF LoadBlocked
  <1>7. CASE BootstrapRound(s)
    BY <1>2, <1>7 DEF BootstrapRound, At, Copied, ToWork, Open, m
  <1>8. CASE PrepareRound(s)
    <2>1. /\ kid[s].pc = "loaded" /\ m = st /\ st.phase = "awaiting_work"
          /\ UNCHANGED <<jobs, par, okd, nrun, rev>>
      BY <1>2, <1>8 DEF PrepareRound, At, Copied, ToWork
    <2>2. CASE m.task # card.task
      BY <1>1, <1>8, <1>d, <1>e, <2>1, <2>2 DEF PrepareRound, m
    <2>3. CASE m.task = card.task
      <3> DEFINE p == Prepared(m, m.run, kid[s].round)
      <3>1. Transit(s, p, "prepared")
        BY <1>8, <2>3 DEF PrepareRound, m
      <3>2. kid[s].round = st.round
        BY <1>1, <1>2, <2>1 DEF Stage, ToWork, Turn
      <3>3. p.phase = "awaiting_work" /\ p.run = st.run /\ p.round = st.round /\ p.outcome = "none"
        BY <1>1, <2>1, <3>2, PreparedType, PreparedParts DEF Contract
      <3> HIDE DEF p
      <3>4. Quiet(st, st', nrun)
        BY <2>1, <3>1, <3>3, SavedParts DEF Transit, Quiet, ToTheWorker
      <3> QED BY <1>c, <2>1, <3>1, <3>4 DEF Transit
    <2> QED BY <2>2, <2>3
  <1>9. CASE DispatchWorker(s)
    <2>1. /\ UNCHANGED <<st, par, okd, nrun>> /\ DropReports(m.task, m.run, m.round)
          /\ \/ Exit(s, 3) /\ UNCHANGED jobs
             \/ Goto(s, "work") /\ jobs' = jobs \cup {Asked("worker", m, 0)}
      BY <1>1, <1>9 DEF DispatchWorker, Piped, m
    <2>2. rev' = rev \/ rev' = NoReview
      BY <2>1 DEF DropReports
    <2>3. Asked("worker", m, 0).role # "reviewer"
      BY DEF Asked
    <2> QED BY <1>a, <1>b, <2>1, <2>2, <2>3
  <1>10. CASE RejectWork(s)
    BY <1>1, <1>10, <1>d, <1>e DEF RejectWork, m
  <1>11. CASE RefusePatch(s) \/ ChildTerminated(s) \/ OrphanDies(s) \/ ChildDies(s) \/ Return(s)
    <2>1. UNCHANGED <<st, jobs, par, okd, nrun, rev>> /\ \E rc \in {0, 1, 6, 137} : Exit(s, rc)
      BY <1>11 DEF RefusePatch, ChildTerminated, OrphanDies, ChildDies, Fault, Return, files
    <2> QED BY <1>a, <2>1
  <1>12. CASE AcceptWork(s)
    <2> DEFINE k == [kid[s] EXCEPT !.head = work.head, !.pc = "worked"]
    <2>1. /\ kid' = [kid EXCEPT ![s] = k] /\ k.pc # "approving"
          /\ UNCHANGED <<st, jobs, par, okd, nrun, rev>>
      BY <1>1, <1>12 DEF AcceptWork, Kid, files
    <2> HIDE DEF k
    <2> QED BY <1>0, <1>3, <2>1, ChildQuiet DEF Quiet
  <1>13. CASE AcceptNoChange(s)
    <2> DEFINE w == NoChange(Recorded(m, "no_change"))
    <2>1. Transit(s, w, "success") /\ UNCHANGED <<jobs, par, okd, nrun, rev>>
      BY <1>13 DEF AcceptNoChange, m
    <2>2. w.phase = "done" /\ w.outcome = "no_change_success"
      <3>1. "no_change" \in Decisions  BY DEF Decisions
      <3> QED BY <1>f, <3>1, NoChangeType, NoChangeParts
    <2> HIDE DEF w
    <2>3. Quiet(st, st', nrun)
      BY <2>1, <2>2, SavedParts DEF Transit, Quiet, Ends, InFlight
    <2> QED BY <1>c, <2>1, <2>3 DEF Transit
  <1>14. CASE RefuseNoChange(s)
    <2>1. "no_change" \in Decisions  BY DEF Decisions
    <2> QED BY <1>14, <1>d, <1>e, <1>f, <2>1 DEF RefuseNoChange, m
  <1>15. CASE WriteRequest(s)
    <2>1. /\ UNCHANGED <<st, jobs, par, okd, nrun>> /\ (rev' = rev \/ rev' = NoReview)
          /\ (Exit(s, 3) \/ Goto(s, "requested"))
      BY <1>15 DEF WriteRequest
    <2> QED BY <1>a, <1>b, <2>1
  <1>16. CASE DispatchReviewer(s)
    <2> DEFINE h == kid[s].head
               w == Submitted(m, h)
               j == Asked("reviewer", m, h)
    <2>1. /\ kid[s].pc = "requested" /\ Transit(s, w, "review") /\ jobs' = jobs \cup {j}
          /\ UNCHANGED <<par, okd, nrun, rev>>
      BY <1>1, <1>16 DEF DispatchReviewer, At, Piped, m
    <2>2. m = st /\ st.phase = "awaiting_work" /\ Open(st, nrun) /\ h \in Heads
      BY <1>1, <1>2, <2>1 DEF Copied, ToWork, Kid
    <2>3. /\ w.phase = "awaiting_review" /\ w.run = st.run /\ w.round = st.round
          /\ w.head = h /\ w.outcome = "none"
      BY <1>1, <2>2, SubmittedType, SubmittedParts DEF Open
    <2>4. j.run = st.run /\ j.round = st.round /\ j.head = h
      BY <2>2 DEF Asked
    <2> HIDE DEF w, j, h
    <2>5. /\ st'.phase = "awaiting_review" /\ st'.run = st.run /\ st'.round = st.round
          /\ st'.head = h /\ st'.outcome = "none"
      BY <2>1, <2>3, SavedParts DEF Transit
    <2>6. st.run <= nrun
      BY <1>1, <2>2 DEF Open
    <2>7. InFlight(st)
      BY <2>2 DEF InFlight
    <2>8. RequestsCurrent'
      <3> SUFFICES ASSUME NEW i \in jobs', i.role = "reviewer"
                   PROVE  /\ i.run <= nrun
                          /\ Concerns(i, st') => i.round = st'.round /\ i.head = st'.head
        BY <2>1, <2>5 DEF RequestsCurrent
      <3>1. CASE i = j
        BY <2>4, <2>5, <2>6, <3>1
      <3>2. CASE i \in jobs
        BY <2>2, <2>5, <2>7, <3>2 DEF HeadInv, RequestsCurrent, Concerns
      <3> QED BY <2>1, <3>1, <3>2
    <2>9. ReportCurrent'
      BY <2>1, <2>2, <2>5, <2>7 DEF HeadInv, ReportCurrent, Concerns
    <2>10. ApprovedHeadWasReviewed'
      BY <2>5 DEF ApprovedHeadWasReviewed
    <2>11. ChildHasWord'
      <3> DEFINE k == [kid[s] EXCEPT !.mem = w, !.pc = "review"]
      <3>1. kid' = [kid EXCEPT ![s] = k] /\ k.pc # "approving"
        BY <1>1, <2>1 DEF Transit, Kid
      <3> HIDE DEF k
      <3> QED BY <2>1, <3>1, ChildKeeps
    <2> QED BY <1>4, <2>8, <2>9, <2>10, <2>11 DEF HeadInv
  <1>17. CASE WorkerTimeout(s) \/ ReviewerTimeout(s)
    <2>1. PICK t \in {"worker_timeout", "reviewer_timeout"} :
             /\ st' = Saved(st, Moved(m, t))
             /\ kid' = [kid EXCEPT ![s].mem = Moved(m, t),
                                   ![s].pc = "blocking", ![s].rc = 2]
             /\ UNCHANGED <<jobs, par, okd, nrun, rev>>
      BY <1>17 DEF WorkerTimeout, ReviewerTimeout, TimedOut, m
    <2> DEFINE k == [kid[s] EXCEPT !.mem = Moved(m, t), !.pc = "blocking", !.rc = 2]
    <2>2. kid' = [kid EXCEPT ![s] = k] /\ k.pc # "approving"
      BY <1>1, <2>1 DEF Kid
    <2>3. Quiet(st, st', nrun)
      BY <1>1, <2>1, TimedOutEnds DEF Quiet
    <2> HIDE DEF k
    <2> QED BY <1>0, <2>1, <2>2, <2>3, ChildQuiet
  <1>18. CASE DispatchFailed(s)
    BY <1>1, <1>18, <1>d, <1>e DEF DispatchFailed, m
  <1>19. CASE RejectReview(s)
    BY <1>1, <1>19, <1>d, <1>e DEF RejectReview, m
  <1>20. CASE AcceptApproval(s)
    <2> DEFINE w == Recorded(m, "approve")
    <2>1. /\ kid[s].pc = "review" /\ rev.verdict = "approve" /\ Matches(rev, m)
          /\ kid' = [kid EXCEPT ![s].mem = w, ![s].pc = "approving"]
          /\ UNCHANGED <<st, jobs, okd, nrun, rev>>
      BY <1>20 DEF AcceptApproval, TakeReview, ReviewIn, At, m
    <2>2. m = st /\ InFlight(st)
      BY <1>2, <2>1 DEF Copied, ToReview, InFlight
    <2>3. Concerns(rev, st)
      BY <1>1, <2>1, <2>2 DEF Matches, Concerns, Contract, Rounds
    <2>4. Word(st) \in okd
      BY <2>1, <2>3 DEF HeadInv, ReportCurrent
    <2>5. w.run = st.run /\ w.round = st.round /\ w.head = st.head
      <3>1. "approve" \in Decisions  BY DEF Decisions
      <3> QED BY <1>1, <2>2, <3>1, RecordedType, RecordedParts
    <2> HIDE DEF w
    <2>6. ChildHasWord'
      <3>1. kid'[s].mem = w /\ \A q \in Slots : q # s => kid'[q] = kid[q]
        BY <1>1, <2>1 DEF Kid
      <3>2. Word(w) = Word(st)
        BY <2>5 DEF Word
      <3>3. \A q \in Slots : q # s /\ kid'[q].pc = "approving" => Word(kid'[q].mem) \in okd
        BY <3>1 DEF HeadInv, ChildHasWord
      <3>4. Word(kid'[s].mem) \in okd
        BY <2>4, <3>1, <3>2
      <3>5. okd' = okd
        BY <2>1
      <3>6. \A q \in Slots : kid'[q].pc = "approving" => Word(kid'[q].mem) \in okd'
        BY <3>3, <3>4, <3>5
      <3> QED BY <3>6, Zenon DEF ChildHasWord, Word
    <2>7. RequestsCurrent'
      BY <2>1 DEF HeadInv, RequestsCurrent, Concerns, InFlight
    <2>9. ApprovedHeadWasReviewed'
      BY <2>1 DEF HeadInv, ApprovedHeadWasReviewed
    <2>8. ReportCurrent'
      BY <2>1 DEF HeadInv, ReportCurrent, Concerns, Word
    <2> QED BY <1>4, <2>6, <2>7, <2>8, <2>9 DEF HeadInv
  <1>21. CASE AcceptChanges(s)
    BY <1>3, <1>21, <1>c DEF AcceptChanges, TakeReview, Quiet
  <1>22. CASE Approve(s)
    <2> DEFINE w == Approved(m)
    <2>1. kid[s].pc = "approving" /\ Transit(s, w, "success") /\ UNCHANGED <<jobs, par, okd, nrun, rev>>
      BY <1>22 DEF Approve, At, m
    <2>2. Word(m) \in okd
      BY <2>1 DEF HeadInv, ChildHasWord, m
    <2>3. w.phase = "done" /\ Word(w) = Word(m)
      BY <1>1, ApprovedType, ApprovedParts DEF Word
    <2> HIDE DEF w
    <2>4. ~InFlight(st') /\ Word(st') \in okd'
      BY <2>1, <2>2, <2>3, SavedParts DEF Transit, InFlight, Word
    <2>5. ChildHasWord'
      <3> DEFINE k == [kid[s] EXCEPT !.mem = w, !.pc = "success"]
      <3>1. kid' = [kid EXCEPT ![s] = k] /\ k.pc # "approving"
        BY <1>1, <2>1 DEF Transit, Kid
      <3> HIDE DEF k
      <3> QED BY <2>1, <3>1, ChildKeeps
    <2> QED BY <1>4, <2>1, <2>4, <2>5
         DEF HeadInv, RequestsCurrent, ReportCurrent, ApprovedHeadWasReviewed, Concerns, Word
  <1>23. CASE MarkDone(s)
    <2>1. /\ UNCHANGED <<st, jobs, par, okd, nrun, rev>>
          /\ (Exit(s, 1) \/ Goto(s, "summing"))
      BY <1>23 DEF MarkDone
    <2> QED BY <1>a, <1>b, <2>1
  <1>24. CASE WriteSummary(s)
    BY <1>24, <1>b DEF WriteSummary
  <1>25. CASE WriteFixList(s)
    <2>1. /\ UNCHANGED <<st, jobs, par, okd, nrun, rev>>
          /\ (Exit(s, 3) \/ Goto(s, "retried"))
      BY <1>25 DEF WriteFixList
    <2> QED BY <1>a, <1>b, <2>1
  <1>26. CASE AdvanceRound(s)
    <2> DEFINE w == Retried(m)
    <2>1. kid[s].pc = "retried" /\ Transit(s, w, "returning") /\ UNCHANGED <<jobs, par, okd, nrun, rev>>
      BY <1>26 DEF AdvanceRound, At, m
    <2>2. m = Recorded(st, "changes_required") /\ Open(st, nrun) /\ st.phase = "awaiting_review"
      BY <1>1, <1>2, <2>1 DEF Stage, ToReview, m
    <2>3. /\ w.phase = "awaiting_work" /\ w.round = st.round + 1 /\ w.run = st.run
          /\ w.outcome = "none"
      <3>1. Open(w, nrun) /\ w.phase = "awaiting_work" /\ w.round = st.round + 1 /\ w.run = st.run
        BY <1>1, <2>2, RetriesOpen
      <3> QED BY <3>1 DEF Open
    <2> HIDE DEF w
    <2>4. Quiet(st, st', nrun)
      <3>1. st'.phase = "awaiting_work" /\ st'.round = st.round + 1 /\ st'.run = st.run
            /\ st'.outcome = "none"
        BY <2>1, <2>3, SavedParts DEF Transit
      <3>2. st'.round > st.round /\ InFlight(st)
        BY <1>1, <2>2, <3>1 DEF InFlight, Contract, Rounds
      <3> QED BY <3>1, <3>2 DEF Quiet, ToTheWorker
    <2> QED BY <1>c, <2>1, <2>4 DEF Transit
  <1>27. CASE KidFailTail(s) \/ KidBlockTail(s)
    <2>1. UNCHANGED <<st, jobs, par, okd, nrun, rev>> /\ Exit(s, kid[s].rc)
      BY <1>27 DEF KidFailTail, KidBlockTail
    <2> QED BY <1>a, <2>1
  <1> QED BY <1>5, <1>6, <1>7, <1>8, <1>9, <1>10, <1>11, <1>12, <1>13, <1>14, <1>15,
        <1>16, <1>17, <1>18, <1>19, <1>20, <1>21, <1>22, <1>23, <1>24, <1>25, <1>26,
        <1>27 DEF KidStep, KidTrouble
LEMMA AgentHeads ==
    ASSUME TypeInv, HeadInv, Agents
    PROVE  HeadInv'
  <1>1. PICK j \in jobs : \/ \E head \in 0 .. Bad : DeliverWork(j, head)
                          \/ \E verdict \in Verdicts : DeliverReview(j, verdict)
    BY DEF Agents
  <1>2. UNCHANGED <<st, par, kid, nrun>> /\ jobs' \subseteq jobs /\ okd \subseteq okd'
    BY <1>1 DEF DeliverWork, DeliverReview, AgentOnly
  <1>3. RequestsCurrent'
    BY <1>2 DEF HeadInv, RequestsCurrent, Concerns, InFlight
  <1>4. WorkersTurn' /\ ApprovedHeadWasReviewed'
    BY <1>2 DEF HeadInv, WorkersTurn, ApprovedHeadWasReviewed, InFlight
  <1>5. ChildHasWord'
    <2>1. \A s \in Slots : kid'[s].pc = "approving" => Word(kid'[s].mem) \in okd'
      BY <1>2 DEF HeadInv, ChildHasWord
    <2> QED BY <2>1, Zenon DEF ChildHasWord, Word
  <1>6. ReportCurrent'
    <2>1. CASE rev' = rev
      BY <1>2, <2>1 DEF HeadInv, ReportCurrent, Concerns, InFlight, Word
    <2>2. CASE \E verdict \in Verdicts : DeliverReview(j, verdict)
      <3>1. PICK verdict \in Verdicts : DeliverReview(j, verdict)
        BY <2>2
      <3>2. /\ j.role = "reviewer" /\ rev'.run = j.run /\ rev'.round = j.round
            /\ rev'.verdict = "approve" =>
                  okd' = okd \cup {[run |-> j.run, round |-> j.round, head |-> j.head]}
        BY <3>1 DEF DeliverReview
      <3>3. /\ j.run <= nrun
            /\ Concerns(j, st) =>
                  st.phase = "awaiting_review" /\ j.round = st.round /\ j.head = st.head
        BY <3>2 DEF HeadInv, RequestsCurrent
      <3>4. Concerns(rev', st) => Concerns(j, st) /\ j.run = st.run
        BY <3>2 DEF Concerns
      <3>5. ASSUME rev'.verdict = "approve", Concerns(rev', st)
            PROVE  st.phase = "awaiting_review" /\ rev'.round = st.round /\ Word(st) \in okd'
        BY <3>2, <3>3, <3>4, <3>5 DEF Word
      <3> QED BY <1>2, <3>2, <3>3, <3>5 DEF ReportCurrent
    <2> QED BY <1>1, <2>1, <2>2 DEF DeliverWork
  <1> QED BY <1>3, <1>4, <1>5, <1>6 DEF HeadInv

LEMMA OperatorHeads ==
    ASSUME TypeInv, TypeInv', HeadInv, Operator
    PROVE  HeadInv'
  <1>1. PICK t \in Tasks, ext \in External, f \in Flags, dirty \in BOOLEAN :
           Invoke(t, ext, f, dirty)
    BY DEF Operator
  <1>2. /\ par.pc = "none" /\ UNCHANGED <<kid, jobs, okd, nrun>>
        /\ (st' = Blank /\ rev' = NoReview) \/ UNCHANGED <<st, rev>>
    <2>1. CASE f.reset
      BY <1>1, <2>1 DEF Invoke, ParentOnly, RemoveBusFiles
    <2>2. CASE ~f.reset
      BY <1>1, <2>2 DEF Invoke, ParentOnly
    <2> QED BY <2>1, <2>2
  <1>3. Quiet(st, st', nrun)
    BY <1>2 DEF Quiet, Same, Ends, Blank, InFlight
  <1>4. WorkersTurn'
    BY <1>2 DEF HeadInv, WorkersTurn, Blank, InFlight
  <1>5. ChildHasWord'
    <2>1. \A s \in Slots : kid'[s].pc = "approving" => Word(kid'[s].mem) \in okd'
      BY <1>2 DEF HeadInv, ChildHasWord
    <2> QED BY <2>1, Zenon DEF ChildHasWord, Word
  <1> QED BY <1>2, <1>3, <1>4, <1>5, QuietHeads

LEMMA FaultHeads ==
    ASSUME "parent" \notin Faults, "host" \notin Faults,
           TypeInv, TypeInv', SerialInv, HeadInv, Environment
    PROVE  HeadInv'
  <1>1. CASE Interrupt
    <2>1. par'.pc = par.pc /\ UNCHANGED <<files, jobs, okd, nrun, kid>>
      BY <1>1 DEF Interrupt, Fault, TypeInv, TypeOK, Parent
    <2>2. UNCHANGED <<st, rev>>
      BY <2>1 DEF files
    <2>3. Quiet(st, st', nrun)
      BY <2>2 DEF Quiet, Same
    <2>4. WorkersTurn'
      BY <2>1, <2>2 DEF HeadInv, WorkersTurn, InFlight
    <2>5. ChildHasWord'
      <3>1. \A s \in Slots : kid'[s].pc = "approving" => Word(kid'[s].mem) \in okd'
        BY <2>1 DEF HeadInv, ChildHasWord
      <3> QED BY <3>1, Zenon DEF ChildHasWord, Word
    <2> QED BY <2>1, <2>2, <2>3, <2>4, <2>5, QuietHeads
  <1>2. ~ParentKilled /\ ~HostCrash
    BY DEF ParentKilled, HostCrash, Fault
  <1> QED BY <1>1, <1>2, ChildHeads DEF Environment

LEMMA ParentHeads ==
    ASSUME TypeInv, TypeInv', SerialInv, SerialInv', HeadInv,
           ParentStep \/ BootstrapBlocked
    PROVE  HeadInv'
  <1> USE DEF ParentOnly, files
  <1>0. /\ st \in Contract /\ nrun \in Nat /\ par \in Parent /\ par.mem \in Contract
        /\ kid \in [Slots -> Kid] /\ Sound(st, nrun)
    BY DEF SerialInv, TypeInv, TypeOK, Parent, Runs
  <1>1. ChildHasWord' /\ UNCHANGED <<jobs, okd>> /\ nrun' \in {nrun, nrun + 1}
    <2>1. UNCHANGED <<jobs, okd>> /\ nrun' \in {nrun, nrun + 1}
      <3>1. CASE \E s \in Slots : Reap(s)
        BY <1>0, <3>1 DEF Reap
      <3>2. CASE Bootstrap
        BY <1>0, <3>2 DEF Bootstrap
      <3>3. CASE ~Bootstrap /\ ~\E s \in Slots : Reap(s)
        BY <1>0, <3>3 DEF ParentStep, ResumeRefused, Decide, BootstrapBlocked, BootstrapNoCard,
             Resume, MarkInProgress, SpawnRound, StopOnInterrupt, MaxRoundsExhausted,
             ReapInterrupted, ReapFailed, ReapSuccess, ReapNextRound, ReapUnexpected,
             FailInterrupted, FailTail, BlockTail
      <3> QED BY <3>1, <3>2, <3>3
    <2>2. \A q \in Slots : kid'[q].pc = "approving" => kid'[q] = kid[q]
      <3>1. CASE \E s \in Slots : Reap(s)
        BY <1>0, <3>1 DEF Reap, Free
      <3>2. CASE \E s \in Slots : SpawnRound(s)
        <4>1. PICK s \in Slots : SpawnRound(s)
          BY <3>2
        <4>2. kid' = kid \/ kid' = [kid EXCEPT ![s] = [Free EXCEPT !.pc = "begin",
                                                               !.round = par.round]]
          BY <4>1 DEF SpawnRound
        <4>3. [Free EXCEPT !.pc = "begin", !.round = par.round].pc = "begin"
          BY DEF Free
        <4> QED BY <1>0, <4>2, <4>3
      <3>3. CASE UNCHANGED kid
        BY <3>3
      <3> QED BY <3>1, <3>2, <3>3 DEF ParentStep, ResumeRefused, Decide, BootstrapBlocked,
           BootstrapNoCard, Bootstrap, Resume, MarkInProgress, StopOnInterrupt,
           MaxRoundsExhausted, ReapInterrupted, ReapFailed, ReapSuccess, ReapNextRound,
           ReapUnexpected, FailInterrupted, FailTail, BlockTail
    <2>3. \A s \in Slots : kid'[s].pc = "approving" => Word(kid'[s].mem) \in okd'
      BY <2>1, <2>2 DEF HeadInv, ChildHasWord
    <2> QED BY <2>1, <2>3, Zenon DEF ChildHasWord, Word
  <1>2. {"blocked_dependencies", "invalid_resume_state", "state_task_mismatch",
         "max_rounds_exhausted", "single_round_failed", "interrupted",
         "invalid_state_transition", "state_contract_mismatch"} \subseteq FailureOutcomes
    BY DEF FailureOutcomes
  (* It leaves state.json alone, when it was the worker's turn or the round *)
  (* is being waited for; or writes one that asks nothing of a reviewer.    *)
  <1>3. ASSUME UNCHANGED <<st, nrun>>,
               \/ par.pc \notin {"wait", "interrupted"}
               \/ par'.pc \in {"wait", "interrupted"}
               \/ st.phase \in {"awaiting_work", "done"}
        PROVE  Quiet(st, st', nrun) /\ WorkersTurn'
    BY <1>3 DEF HeadInv, WorkersTurn, Quiet, Same, InFlight
  <1>4. ASSUME Ends(st')
        PROVE  Quiet(st, st', nrun) /\ WorkersTurn'
    BY <1>4 DEF WorkersTurn, Quiet, Ends
  <1>5. ASSUME ToTheWorker(st, st', nrun)
        PROVE  Quiet(st, st', nrun) /\ WorkersTurn'
    BY <1>5 DEF WorkersTurn, Quiet, ToTheWorker
  <1>6. ASSUME NEW m \in Contract, NEW o \in FailureOutcomes, NEW rc, Fail(m, o, rc)
        PROVE  Quiet(st, st', nrun) /\ WorkersTurn'
    <2>1. Ends(st')
      BY <1>6, FailedEnds DEF Fail
    <2> QED BY <1>4, <2>1
  <1>7. (rev' = rev \/ rev' = NoReview) /\ Quiet(st, st', nrun) /\ WorkersTurn'
    <2>1. CASE ResumeRefused
      BY <1>3, <2>1 DEF ResumeRefused
    <2>2. CASE Decide
      BY <1>3, <2>2 DEF Decide
    <2>3. CASE Bootstrap
      <3> DEFINE m == Bootstrapped(StartState, par.task, nrun + 1)
      <3>1. /\ par.pc = "start" /\ st' = Saved(StartState, m) /\ nrun < MaxRuns
            /\ CleanIfStale
        BY <2>3 DEF Bootstrap, StartsFresh
      <3>2. StartState \in Contract /\ par.task \in Tasks \cup {NoTask} /\ nrun + 1 \in Runs
        <4>1. StartState \in Contract  BY <1>0, BlankType DEF StartState
        <4>2. nrun + 1 \in Runs  BY <1>0, <3>1, RunsAssumption DEF Runs
        <4>3. par.task \in Tasks \cup {NoTask}  BY <1>0 DEF Parent
        <4> QED BY <4>1, <4>2, <4>3
      <3>3. m.phase = "awaiting_work" /\ m.outcome = "none" /\ m.run = nrun + 1
        BY <3>2, BootstrappedType, BootstrappedParts
      <3> HIDE DEF m
      <3>4. ToTheWorker(st, st', nrun)
        BY <1>0, <3>1, <3>3, SavedParts DEF ToTheWorker
      <3> QED BY <1>5, <3>1, <3>4 DEF CleanIfStale, RemoveBusFiles
    <2>4. CASE BootstrapNoCard
      <3>1. par.pc = "start" /\ CleanIfStale /\ st' = StartState /\ nrun' = nrun
        BY <2>4 DEF BootstrapNoCard, StartsFresh
      <3>2. CASE CleansStale
        BY <1>4, <3>1, <3>2
           DEF StartState, Ends, Blank, InFlight, CleanIfStale, RemoveBusFiles
      <3>3. CASE ~CleansStale
        BY <1>3, <3>1, <3>3 DEF StartState, CleanIfStale
      <3> QED BY <3>2, <3>3
    <2>5. CASE BootstrapBlocked
      <3> DEFINE b == BlockedByDependencies(StartState, par.task, 1)
      <3>1. CleanIfStale /\ st' = Saved(StartState, Failed(b, "blocked_dependencies"))
        BY <2>5 DEF BootstrapBlocked
      <3>2. b \in Contract
        BY <1>0, BlankType, BlockedType DEF StartState, Parent
      <3> HIDE DEF b
      <3>3. Ends(st')
        BY <1>2, <3>1, <3>2, FailedEnds
      <3> QED BY <1>4, <3>1, <3>3 DEF CleanIfStale, RemoveBusFiles
    <2>6. CASE Resume
      <3>1. par.pc = "resume" /\ st.phase # "done" /\ UNCHANGED <<rev, nrun>>
        BY <2>6 DEF Resume
      <3>2. CASE st.task = NoTask \/ st.round < 1
        BY <1>0, <1>2, <1>6, <2>6, <3>1, <3>2 DEF Resume
      <3>5. CASE ~(st.task = NoTask \/ st.round < 1) /\ card = NoCard
        BY <1>3, <2>6, <3>1, <3>5 DEF Resume
      <3>3. CASE ~(st.task = NoTask \/ st.round < 1) /\ card # NoCard /\ card.task # st.task
        BY <1>0, <1>2, <1>6, <2>6, <3>1, <3>3 DEF Resume
      <3>4. CASE ~(st.task = NoTask \/ st.round < 1) /\ card # NoCard /\ card.task = st.task
        <4> DEFINE m == Prepared(st, st.run, st.round)
        <4>1. st' = Saved(st, m)
          BY <2>6, <3>4 DEF Resume
        <4>2. /\ m.phase = "awaiting_work" /\ m.outcome = "none" /\ m.run = st.run
              /\ m.round = st.round
          BY <1>0, PreparedType, PreparedParts DEF Contract
        <4> HIDE DEF m
        <4>3. st.phase = "awaiting_work"
          <5>1. InFlight(st)
            BY <1>0, <3>1, <3>4, SoundParts DEF Blank, InFlight, Contract, Phases
          <5> QED BY <3>1, <5>1 DEF HeadInv, WorkersTurn
        <4>4. ToTheWorker(st, st', nrun)
          BY <4>1, <4>2, <4>3, SavedParts DEF ToTheWorker
        <4> QED BY <1>5, <3>1, <4>4
      <3> QED BY <3>2, <3>3, <3>4, <3>5
    <2>7. CASE MarkInProgress
      BY <1>3, <2>7 DEF MarkInProgress, DropReports
    <2>8. CASE \E s \in Slots : SpawnRound(s)
      BY <1>3, <2>8 DEF SpawnRound
    <2>9. CASE StopOnInterrupt
      BY <1>3, <2>9 DEF StopOnInterrupt
    <2>10. CASE MaxRoundsExhausted
      <3>1. CASE Allowed(st, "max_rounds_exhausted")
        <4>1. Ends(st') /\ rev' = rev
          BY <1>0, <2>10, <3>1, TimedOutEnds DEF MaxRoundsExhausted
        <4> QED BY <1>4, <4>1
      <3>2. CASE ~Allowed(st, "max_rounds_exhausted")
        BY <1>3, <2>10, <3>2 DEF MaxRoundsExhausted
      <3> QED BY <3>1, <3>2
    <2>11. CASE \E s \in Slots : Reap(s) /\ ReapInterrupted(s)
      <3>1. UNCHANGED <<st, rev, nrun>> /\ par'.pc = "interrupted"
        BY <1>0, <2>11 DEF ReapInterrupted, Reap, Parent
      <3> QED BY <1>3, <3>1
    <2>12. CASE \E s \in Slots : ReapFailed(s) \/ ReapUnexpected(s)
      BY <1>0, <1>2, <1>6, <2>12 DEF ReapFailed, ReapUnexpected, Reap
    <2>13. CASE \E s \in Slots : ReapSuccess(s)
      BY <1>3, <2>13 DEF ReapSuccess, Reap, TerminalSuccess
    <2>14. CASE \E s \in Slots : ReapNextRound(s)
      BY <1>3, <2>14 DEF ReapNextRound, Reap, AwaitingNext
    <2>15. CASE FailInterrupted
      BY <1>0, <1>2, <1>6, <2>15 DEF FailInterrupted
    <2>16. CASE FailTail \/ BlockTail
      BY <1>3, <2>16 DEF FailTail, BlockTail
    <2> QED BY <2>1, <2>2, <2>3, <2>4, <2>5, <2>6, <2>7, <2>8, <2>9, <2>10, <2>11, <2>12,
          <2>13, <2>14, <2>15, <2>16 DEF ParentStep, ReapInterrupted
  <1> QED BY <1>1, <1>7, QuietHeads

LEMMA InitHeads == Init => HeadInv
  <1> SUFFICES ASSUME Init PROVE HeadInv
    OBVIOUS
  <1>1. /\ st = Blank /\ jobs = {} /\ rev = NoReview /\ nrun = 0
        /\ \A s \in Slots : kid[s].pc = "free"
    BY DEF Init, Free
  <1> QED BY <1>1 DEF HeadInv, WorkersTurn, RequestsCurrent, ReportCurrent, ChildHasWord,
        ApprovedHeadWasReviewed, Blank, NoReview, InFlight

LEMMA NextHeads ==
    ASSUME "parent" \notin Faults, "host" \notin Faults,
           TypeInv, SerialInv, HeadInv, [Next]_vars
    PROVE  HeadInv'
  <1>1. TypeInv' /\ SerialInv'
    BY NextTypes, NextSerial
  <1>2. CASE UNCHANGED vars \/ Quiescent
    <2>1. UNCHANGED <<st, rev, par, kid, jobs, okd, nrun>>
      BY <1>2 DEF Quiescent, vars, files
    <2>2. Quiet(st, st', nrun) /\ WorkersTurn'
      BY <2>1 DEF HeadInv, WorkersTurn, Quiet, Same, InFlight
    <2>3. ChildHasWord'
      <3>1. \A s \in Slots : kid'[s].pc = "approving" => Word(kid'[s].mem) \in okd'
        BY <2>1 DEF HeadInv, ChildHasWord
      <3> QED BY <3>1, Zenon DEF ChildHasWord, Word
    <2> QED BY <1>1, <2>1, <2>2, <2>3, QuietHeads
  <1> QED BY <1>1, <1>2, ParentHeads, ChildHeads, AgentHeads, OperatorHeads, FaultHeads DEF Next

(* What the reviewer looked at is what state.json records as approved, as  *)
(* long as neither the host nor a parent alone goes down: then no round is *)
(* taken up again with a review of its first attempt still on its way.     *)
THEOREM ApprovedHeadReviewed ==
    ASSUME "parent" \notin Faults, "host" \notin Faults
    PROVE  Spec => []ApprovedHeadWasReviewed
  <1>1. TypeInv /\ SerialInv /\ HeadInv /\ [Next]_vars => HeadInv'
    BY NextHeads
  <1>2. HeadInv => ApprovedHeadWasReviewed
    BY DEF HeadInv
  <1> QED BY <1>1, <1>2, InitHeads, SerialSpec, PTL DEF Spec
=============================================================================
