------------------------ MODULE RunLoopSerial_proofs ------------------------
(***************************************************************************)
(* Theorems about RunLoop, for every value of its other constants, as long *)
(* as no child outlives its parent: Faults may hold host crashes, deaths   *)
(* of a child and interrupts, but no kill of the parent alone.  Then one   *)
(* process at a time holds the contract, and the invariant below says what *)
(* each of its stages knows of state.json.  Without host crashes either,   *)
(* the last section adds what it has told the card and the summary.        *)
(***************************************************************************)
EXTENDS RunLoop_proofs

-----------------------------------------------------------------------------
(* The contracts that occur.                                               *)

(* Before round m.round, every round was sent back.                        *)
Trail(m) ==
    \A n \in 1 .. MaxRounds + 1 :
        m.details[n] = IF n < m.round THEN "changes_required" ELSE "none"

ApprovedTrail(m) ==
    /\ m.details[m.round] = "approve"
    /\ \A n \in 1 .. m.round - 1 : m.details[n] = "changes_required"
    /\ \A n \in m.round + 1 .. MaxRounds + 1 : m.details[n] = "none"

(* A round in progress and a run that has ended; last is the newest run id.*)
Open(m, last) ==
    /\ InFlight(m)
    /\ m.outcome = "none"
    /\ m.task # NoTask
    /\ m.run \in 1 .. last
    /\ m.round >= 1
    /\ m.phase = "awaiting_review" => m.round <= MaxRounds
    /\ Trail(m)

Closed(m, last) ==
    /\ m.phase = "done"
    /\ m.outcome # "none"
    /\ m.run \in 0 .. last
    /\ m.outcome \in SuccessOutcomes => m.run # 0
    /\ m.outcome = "approved" => ApprovedTrail(m)

Sound(m, last) == m = Blank \/ Open(m, last) \/ Closed(m, last)

(* It is the turn of the worker in the round the parent p is at.           *)
Turn(m, p) ==
    /\ m.phase = "awaiting_work"
    /\ m.task = p.task /\ m.run = p.run /\ m.round = p.round

-----------------------------------------------------------------------------
(* The invariant.                                                          *)

(* One child at most, and only while its parent waits for it.              *)
Alone(k, p) ==
    /\ \A s \in Slots : k[s].pc # "free" => p.pc = "wait" /\ ~k[s].orphan
    /\ \A s \in Slots : k[s].pc = "free" => k[s] = Free
    /\ \A s, q \in Slots : k[s].pc # "free" /\ k[q].pc # "free" => s = q

(* What the parent p relies on: its card is there, the contract it will    *)
(* write back if the round fails is the one it began the round with, and   *)
(* so is state.json (m) until the child is started.                        *)
Held(p, m, c, last) ==
    /\ p.pc \in {"mark", "loop", "wait"} =>
          c # NoCard /\ Open(p.mem, last) /\ Turn(p.mem, p)
    /\ p.pc \in {"mark", "loop"} => Turn(m, p)
    /\ p.pc \in {"start", "resume"} => p.task # NoTask /\ (c # NoCard \/ m = Blank)
    /\ p.pc \in {"failing", "blocking"} => p.rc # 0
    /\ p.intr \/ p.pc = "interrupted" => "interrupt" \in Faults

ToWork   == {"begin", "loaded", "prepared", "work", "worked", "requested"}
ToReview == {"review", "approving", "retrying", "retried"}
Copied   == {"loaded", "prepared", "work", "worked", "requested", "review",
             "success", "summing", "returning", "failing", "blocking"}

(* What a child k knows of state.json (m) and of the fix list (f) at each  *)
(* point of its round.                                                     *)
Stage(k, m, p, f) ==
    /\ k.round = p.round
    /\ m.task = p.task /\ m.run = p.run
    /\ k.pc \in ToWork => Turn(m, p)
    /\ k.pc \in ToReview => m.phase = "awaiting_review" /\ m.round = p.round
    /\ k.pc \in Copied => k.mem = m
    /\ k.pc = "approving" => k.mem = Recorded(m, "approve")
    /\ k.pc \in {"retrying", "retried"} => k.mem = Recorded(m, "changes_required")
    /\ k.pc = "retried" => f.run = m.run /\ f.round = m.round + 1
    /\ k.pc \in {"success", "summing"} => TerminalSuccess(m)
    /\ k.pc = "returning" \/ (k.pc = "exited" /\ k.rc = 0) =>
          TerminalSuccess(m) \/ AwaitingNext(m, p.round)
    /\ k.pc \in {"failing", "blocking"} =>
          /\ m.phase = "done" /\ m.outcome \in FailureOutcomes
          /\ m.round = p.round /\ k.rc # 0
    /\ k.pc = "exited" /\ k.rc # 0 /\ ~p.intr /\ "child" \notin Faults =>
          m.round = p.round /\ (InFlight(m) \/ m.outcome \in FailureOutcomes)

Stages(k, m, p, f) == \A s \in Slots : k[s].pc # "free" => Stage(k[s], m, p, f)

(* Whoever may take the next round up again finds its fix list.            *)
FixReady(m, f) == InFlight(m) /\ m.round > 1 => f.run = m.run /\ f.round >= m.round

SerialInv ==
    /\ Sound(st, nrun)
    /\ Alone(kid, par)
    /\ Held(par, st, card, nrun)
    /\ Stages(kid, st, par, fix)
    /\ FixReady(st, fix)
    /\ ExitZeroIsSuccess

(* What a step may do to state.json: what the protocol allows, or, where a *)
(* child may die or an interrupt come, let the parent overrule a round.    *)
Overruled ==
    \/ "child" \in Faults
    \/ "interrupt" \in Faults /\ st'.run = st.run /\ st'.round = st.round

Lawful == [Protocol!Next]_(Protocol!vars) \/ Overruled

-----------------------------------------------------------------------------
USE RoundsAssumption, RunsAssumption, HeadsAssumption, TaskAssumption

(* What the table of transitions makes of a contract, key by key.          *)

LEMMA MovedParts ==
    ASSUME NEW s \in Contract, NEW t \in DOMAIN Transitions,
           t = "reviewer_changes_required" => s.round <= MaxRounds
    PROVE  /\ Moved(s, t).phase = Transitions[t].to
           /\ Moved(s, t).details = IF Transitions[t].clears THEN NoDetails
                                    ELSE s.details
           /\ Moved(s, t).head = IF Transitions[t].clears THEN 0 ELSE s.head
  BY DEF Moved, Contract

LEMMA FailedParts ==
    ASSUME NEW s \in Contract, NEW o \in Outcomes
    PROVE  /\ Failed(s, o).phase = "done"
           /\ Failed(s, o).task = s.task
           /\ Failed(s, o).details = s.details
  <1>1. "terminal_error" \in DOMAIN Transitions
    BY DEF Transitions
  <1>2. /\ Transitions["terminal_error"].to = "done"
        /\ ~Transitions["terminal_error"].clears
    BY DEF Transitions, Rule
  <1>3. /\ Moved(s, "terminal_error") \in Contract
        /\ Moved(s, "terminal_error").phase = "done"
        /\ Moved(s, "terminal_error").task = s.task
        /\ Moved(s, "terminal_error").details = s.details
    BY <1>1, <1>2, MovedType, MovedParts
  <1> QED BY <1>3 DEF Failed, Contract

LEMMA BootstrappedParts ==
    ASSUME NEW s \in Contract, NEW t \in Tasks \cup {NoTask}, NEW r \in Runs
    PROVE  /\ Bootstrapped(s, t, r).phase = "awaiting_work"
           /\ Bootstrapped(s, t, r).task = t
           /\ Bootstrapped(s, t, r).run = r
           /\ Bootstrapped(s, t, r).details = NoDetails
  <1>1. "bootstrap" \in DOMAIN Transitions
    BY DEF Transitions
  <1>2. Transitions["bootstrap"].to = "awaiting_work" /\ Transitions["bootstrap"].clears
    BY DEF Transitions, Rule
  <1>3. /\ Moved(s, "bootstrap") \in Contract
        /\ Moved(s, "bootstrap").phase = "awaiting_work"
        /\ Moved(s, "bootstrap").details = NoDetails
    BY <1>1, <1>2, MovedType, MovedParts
  <1> QED BY <1>3 DEF Bootstrapped, Contract

LEMMA PreparedParts ==
    ASSUME NEW s \in Contract, NEW r \in Runs, NEW n \in Rounds
    PROVE  /\ Prepared(s, r, n).phase = "awaiting_work"
           /\ Prepared(s, r, n).task = s.task
           /\ Prepared(s, r, n).run = r
           /\ Prepared(s, r, n).head = s.head
           /\ Prepared(s, r, n).details = s.details
  <1>1. "prepare_round" \in DOMAIN Transitions
    BY DEF Transitions
  <1>2. Transitions["prepare_round"].to = "awaiting_work"
    BY DEF Transitions, Rule
  <1>3. /\ Moved(s, "prepare_round") \in Contract
        /\ Moved(s, "prepare_round").phase = "awaiting_work"
        /\ Moved(s, "prepare_round").task = s.task
    BY <1>1, <1>2, MovedType, MovedParts
  <1> QED BY <1>3 DEF Prepared, Contract

LEMMA SubmittedParts ==
    ASSUME NEW s \in Contract, NEW h \in Heads
    PROVE  /\ Submitted(s, h).phase = "awaiting_review"
           /\ Submitted(s, h).task = s.task
           /\ Submitted(s, h).head = h
           /\ Submitted(s, h).details = s.details
  <1>1. "worker_completed" \in DOMAIN Transitions
    BY DEF Transitions
  <1>2. /\ Transitions["worker_completed"].to = "awaiting_review"
        /\ ~Transitions["worker_completed"].clears
    BY DEF Transitions, Rule
  <1>3. /\ Moved(s, "worker_completed") \in Contract
        /\ Moved(s, "worker_completed").phase = "awaiting_review"
        /\ Moved(s, "worker_completed").task = s.task
        /\ Moved(s, "worker_completed").details = s.details
    BY <1>1, <1>2, MovedType, MovedParts
  <1> QED BY <1>3 DEF Submitted, Contract

LEMMA NoChangeParts ==
    ASSUME NEW s \in Contract
    PROVE  /\ NoChange(s).phase = "done"
           /\ NoChange(s).task = s.task
           /\ NoChange(s).run = s.run
           /\ NoChange(s).round = s.round
  <1>1. "worker_no_change_success" \in DOMAIN Transitions
    BY DEF Transitions
  <1>2. Transitions["worker_no_change_success"].to = "done"
    BY DEF Transitions, Rule
  <1>3. /\ Moved(s, "worker_no_change_success") \in Contract
        /\ Moved(s, "worker_no_change_success").phase = "done"
        /\ Moved(s, "worker_no_change_success").task = s.task
        /\ Moved(s, "worker_no_change_success").run = s.run
        /\ Moved(s, "worker_no_change_success").round = s.round
    BY <1>1, <1>2, MovedType, MovedParts
  <1> QED BY <1>3 DEF NoChange, Contract

LEMMA ApprovedParts ==
    ASSUME NEW s \in Contract
    PROVE  /\ Approved(s).phase = "done"
           /\ Approved(s).outcome = "approved"
           /\ Approved(s).task = s.task
           /\ Approved(s).head = s.head
           /\ Approved(s).details = s.details
  <1>1. "reviewer_approved" \in DOMAIN Transitions
    BY DEF Transitions
  <1>2. /\ Transitions["reviewer_approved"].to = "done"
        /\ Transitions["reviewer_approved"].outcome = "approved"
        /\ ~Transitions["reviewer_approved"].clears
    BY DEF Transitions, Rule
  <1> QED BY <1>1, <1>2, MovedType, MovedParts DEF Approved

LEMMA RetriedParts ==
    ASSUME NEW s \in Contract, s.round <= MaxRounds
    PROVE  /\ Retried(s).phase = "awaiting_work"
           /\ Retried(s).round = s.round + 1
           /\ Retried(s).task = s.task
           /\ Retried(s).run = s.run
           /\ Retried(s).details = s.details
  <1>1. "reviewer_changes_required" \in DOMAIN Transitions
    BY DEF Transitions
  <1>2. Transitions["reviewer_changes_required"].to = "awaiting_work"
    BY DEF Transitions, Rule
  <1>3. /\ Moved(s, "reviewer_changes_required") \in Contract
        /\ Moved(s, "reviewer_changes_required").phase = "awaiting_work"
        /\ Moved(s, "reviewer_changes_required").round = s.round + 1
        /\ Moved(s, "reviewer_changes_required").task = s.task
        /\ Moved(s, "reviewer_changes_required").run = s.run
    BY <1>1, <1>2, MovedType, MovedParts
  <1> QED BY <1>3 DEF Retried, Contract

LEMMA TimedOutParts ==
    ASSUME NEW s \in Contract,
           NEW t \in {"worker_timeout", "reviewer_timeout", "max_rounds_exhausted"}
    PROVE  /\ Moved(s, t).phase = "done"
           /\ Moved(s, t).round = s.round
           /\ Moved(s, t).run = s.run
           /\ Moved(s, t).task = s.task
  <1>1. t \in DOMAIN Transitions /\ t # "reviewer_changes_required"
    BY DEF Transitions
  <1>2. Transitions[t].to = "done"
    BY DEF Transitions, Rule
  <1> QED BY <1>1, <1>2, MovedType, MovedParts

LEMMA RecordedParts ==
    ASSUME NEW s \in Contract, NEW d \in Decisions
    PROVE  /\ Recorded(s, d).phase = s.phase
           /\ Recorded(s, d).task = s.task
           /\ Recorded(s, d).head = s.head
           /\ Recorded(s, d).details = [s.details EXCEPT ![s.round] = d]
  BY DEF Recorded, Contract

(* _save_state writes what it is given whenever the phase moves on.        *)
LEMMA SavedMoved ==
    ASSUME NEW f, NEW s, f.phase # s.phase
    PROVE  Saved(f, s) = s
  BY DEF Saved, SameContract

(* A round prepared again is the contract it was.                          *)
LEMMA PreparedAgain ==
    ASSUME NEW s \in Contract, s.phase = "awaiting_work", s.outcome = "none"
    PROVE  Prepared(s, s.run, s.round) = s
  <1> DEFINE p == Prepared(s, s.run, s.round)
  <1>1. s.run \in Runs /\ s.round \in Rounds
    BY DEF Contract
  <1>2. /\ p \in Contract
        /\ p.phase = s.phase /\ p.round = s.round /\ p.task = s.task
        /\ p.run = s.run /\ p.outcome = s.outcome /\ p.head = s.head
        /\ p.details = s.details
    BY <1>1, PreparedType, PreparedParts
  <1> HIDE DEF p
  <1>3. p = s
    BY <1>2 DEF Contract
  <1> QED BY <1>3 DEF p

-----------------------------------------------------------------------------
(* From one sound contract to the next.                                    *)

LEMMA Failures ==
    \A o \in FailureOutcomes :
        o \in Outcomes /\ o # "none" /\ o \notin SuccessOutcomes /\ o # "approved"
  BY DEF FailureOutcomes, Outcomes, SuccessOutcomes

LEMMA FailsClosed ==
    ASSUME NEW m \in Contract, NEW last \in Nat, m.run \in 0 .. last,
           NEW o \in FailureOutcomes
    PROVE  Closed(Failed(m, o), last)
  BY Failures, FailedType, FailedParts DEF Closed

LEMMA TimesOutClosed ==
    ASSUME NEW m \in Contract, NEW last \in Nat, m.run \in 0 .. last,
           NEW t \in {"worker_timeout", "reviewer_timeout", "max_rounds_exhausted"}
    PROVE  Closed(Moved(m, t), last) /\ Moved(m, t).outcome \in FailureOutcomes
  <1>1. t \in FailureOutcomes
    BY DEF FailureOutcomes
  <1> QED BY <1>1, Failures, TimedOutType, TimedOutParts DEF Closed

LEMMA BeginsOpen ==
    ASSUME NEW s \in Contract, NEW t \in Tasks, NEW r \in Runs, NEW last \in Nat,
           r \in 1 .. last
    PROVE  Open(Bootstrapped(s, t, r), last)
  <1> DEFINE m == Bootstrapped(s, t, r)
  <1>1. /\ m.phase = "awaiting_work" /\ m.round = 1 /\ m.task = t /\ m.run = r
        /\ m.outcome = "none" /\ m.details = NoDetails
    BY BootstrappedType, BootstrappedParts
  <1> HIDE DEF m
  <1>2. Trail(m)
    BY <1>1 DEF Trail, NoDetails, Rounds
  <1> QED BY <1>1, <1>2 DEF Open, InFlight, m

LEMMA ReopensOpen ==
    ASSUME NEW s \in Contract, NEW last \in Nat, Open(s, last)
    PROVE  Open(Prepared(s, s.run, s.round), last)
  <1> DEFINE m == Prepared(s, s.run, s.round)
  <1>1. s.run \in Runs /\ s.round \in Rounds
    BY DEF Contract
  <1>2. /\ m.phase = "awaiting_work" /\ m.round = s.round /\ m.task = s.task
        /\ m.run = s.run /\ m.outcome = "none" /\ m.details = s.details
    BY <1>1, PreparedType, PreparedParts
  <1> HIDE DEF m
  <1>3. Trail(m)
    BY <1>2 DEF Open, Trail
  <1> QED BY <1>2, <1>3 DEF Open, InFlight, m

LEMMA SubmitsOpen ==
    ASSUME NEW s \in Contract, NEW h \in Heads, NEW last \in Nat, Open(s, last),
           s.round <= MaxRounds
    PROVE  Open(Submitted(s, h), last)
  <1> DEFINE m == Submitted(s, h)
  <1>1. /\ m.phase = "awaiting_review" /\ m.round = s.round /\ m.task = s.task
        /\ m.run = s.run /\ m.outcome = s.outcome /\ m.details = s.details
    BY SubmittedType, SubmittedParts
  <1> HIDE DEF m
  <1>2. Trail(m)
    BY <1>1 DEF Open, Trail
  <1> QED BY <1>1, <1>2 DEF Open, InFlight, m

LEMMA RetriesOpen ==
    ASSUME NEW s \in Contract, NEW last \in Nat, Open(s, last),
           s.phase = "awaiting_review"
    PROVE  /\ Open(Retried(Recorded(s, "changes_required")), last)
           /\ Retried(Recorded(s, "changes_required")).phase = "awaiting_work"
           /\ Retried(Recorded(s, "changes_required")).round = s.round + 1
           /\ Retried(Recorded(s, "changes_required")).task = s.task
           /\ Retried(Recorded(s, "changes_required")).run = s.run
  <1> DEFINE r == Recorded(s, "changes_required")
             m == Retried(r)
  <1>1. "changes_required" \in Decisions
    BY DEF Decisions
  <1>2. /\ r \in Contract /\ r.round = s.round /\ r.task = s.task /\ r.run = s.run
        /\ r.details = [s.details EXCEPT ![s.round] = "changes_required"]
    BY <1>1, RecordedType, RecordedParts
  <1>3. s.round \in Rounds /\ s.round >= 1 /\ s.round <= MaxRounds
        /\ s.details \in [Rounds -> Decisions]
    BY DEF Open, Contract
  <1> HIDE DEF r
  <1>4. /\ m.phase = "awaiting_work" /\ m.round = s.round + 1 /\ m.task = s.task
        /\ m.run = s.run /\ m.outcome = "none" /\ m.details = r.details
    BY <1>2, <1>3, RetriedType, RetriedParts
  <1> HIDE DEF m
  <1>5. Trail(m)
    <2> SUFFICES ASSUME NEW n \in 1 .. MaxRounds + 1
                 PROVE  m.details[n] = IF n < m.round THEN "changes_required" ELSE "none"
      BY DEF Trail
    <2>1. s.details[n] = IF n < s.round THEN "changes_required" ELSE "none"
      BY DEF Open, Trail
    <2>2. n \in Rounds
      BY DEF Rounds
    <2>3. m.details[n] = IF n = s.round THEN "changes_required" ELSE s.details[n]
      BY <1>2, <1>3, <1>4, <2>2
    <2>4. n \in Int /\ s.round \in Int
      BY <1>3 DEF Rounds
    <2> QED BY <1>4, <2>1, <2>3, <2>4
  <1>6. Open(m, last)
    BY <1>3, <1>4, <1>5 DEF Open, InFlight, Rounds
  <1> QED BY <1>4, <1>6 DEF m, r

LEMMA ApprovesClosed ==
    ASSUME NEW s \in Contract, NEW last \in Nat, Open(s, last),
           s.phase = "awaiting_review"
    PROVE  /\ Closed(Approved(Recorded(s, "approve")), last)
           /\ Approved(Recorded(s, "approve")).phase = "done"
           /\ Approved(Recorded(s, "approve")).outcome = "approved"
           /\ Approved(Recorded(s, "approve")).task = s.task
           /\ Approved(Recorded(s, "approve")).run = s.run
           /\ Approved(Recorded(s, "approve")).round = s.round
  <1> DEFINE r == Recorded(s, "approve")
             m == Approved(r)
  <1>1. "approve" \in Decisions
    BY DEF Decisions
  <1>2. /\ r \in Contract /\ r.round = s.round /\ r.task = s.task /\ r.run = s.run
        /\ r.details = [s.details EXCEPT ![s.round] = "approve"]
    BY <1>1, RecordedType, RecordedParts
  <1>3. s.round \in Rounds /\ s.round >= 1 /\ s.details \in [Rounds -> Decisions]
        /\ s.run \in 1 .. last
    BY DEF Open, Contract
  <1> HIDE DEF r
  <1>4. /\ m.phase = "done" /\ m.round = s.round /\ m.task = s.task
        /\ m.run = s.run /\ m.outcome = "approved" /\ m.details = r.details
    BY <1>2, ApprovedType, ApprovedParts
  <1> HIDE DEF m
  <1>5. ApprovedTrail(m)
    <2>1. m.details[m.round] = "approve"
      BY <1>2, <1>3, <1>4
    <2>2. ASSUME NEW n \in 1 .. MaxRounds + 1, n # m.round
          PROVE  m.details[n] = IF n < m.round THEN "changes_required" ELSE "none"
      <3>1. s.details[n] = IF n < s.round THEN "changes_required" ELSE "none"
        BY DEF Open, Trail
      <3>2. n \in Rounds
        BY DEF Rounds
      <3>3. m.details[n] = s.details[n]
        BY <1>2, <1>3, <1>4, <2>2, <3>2
      <3> QED BY <1>4, <3>1, <3>3
    <2>3. m.round \in 1 .. MaxRounds + 1
      BY <1>3, <1>4 DEF Rounds
    <2>4. ASSUME NEW n \in 1 .. m.round - 1
          PROVE  m.details[n] = "changes_required"
      <3>1. n \in 1 .. MaxRounds + 1 /\ n # m.round /\ n < m.round
        BY <2>3
      <3> QED BY <2>2, <3>1
    <2>5. ASSUME NEW n \in m.round + 1 .. MaxRounds + 1
          PROVE  m.details[n] = "none"
      <3>1. n \in 1 .. MaxRounds + 1 /\ n # m.round /\ ~(n < m.round)
        BY <2>3
      <3> QED BY <2>2, <3>1
    <2> QED BY <2>1, <2>4, <2>5 DEF ApprovedTrail
  <1>6. Closed(m, last)
    BY <1>3, <1>4, <1>5 DEF Closed
  <1> QED BY <1>4, <1>6 DEF m, r

LEMMA NoChangeCloses ==
    ASSUME NEW s \in Contract, NEW last \in Nat, Open(s, last)
    PROVE  /\ Closed(NoChange(Recorded(s, "no_change")), last)
           /\ NoChange(Recorded(s, "no_change")).phase = "done"
           /\ NoChange(Recorded(s, "no_change")).outcome = "no_change_success"
           /\ NoChange(Recorded(s, "no_change")).task = s.task
           /\ NoChange(Recorded(s, "no_change")).run = s.run
           /\ NoChange(Recorded(s, "no_change")).round = s.round
  <1> DEFINE r == Recorded(s, "no_change")
             m == NoChange(r)
  <1>1. "no_change" \in Decisions
    BY DEF Decisions
  <1>2. r \in Contract /\ r.round = s.round /\ r.task = s.task /\ r.run = s.run
    BY <1>1, RecordedType, RecordedParts
  <1> HIDE DEF r
  <1>3. /\ m.phase = "done" /\ m.round = s.round /\ m.task = s.task
        /\ m.run = s.run /\ m.outcome = "no_change_success"
    BY <1>2, NoChangeType, NoChangeParts
  <1> HIDE DEF m
  <1>4. Closed(m, last)
    BY <1>3 DEF Closed, Open
  <1> QED BY <1>3, <1>4 DEF m, r

LEMMA SavedSound ==
    ASSUME NEW f, NEW s, NEW last, Sound(f, last), Sound(s, last)
    PROVE  Sound(Saved(f, s), last)
  BY SavedType

(* A sound contract in flight is open, and its run is not a later one.     *)
LEMMA SoundParts ==
    ASSUME NEW m, NEW last \in Nat, Sound(m, last)
    PROVE  /\ m.run \in 0 .. last
           /\ InFlight(m) => Open(m, last)
           /\ m.phase = "done" => Closed(m, last)
           /\ m = Blank \/ m.phase # "idle"
           /\ m.outcome = "approved" => ApprovedTrail(m)
           /\ m.outcome \in SuccessOutcomes => Closed(m, last)
  <1> USE DEF InFlight
  <1>1. CASE m = Blank
    BY <1>1 DEF Blank, SuccessOutcomes
  <1>2. CASE Open(m, last)
    BY <1>2 DEF Open, SuccessOutcomes
  <1>3. CASE Closed(m, last)
    BY <1>3 DEF Closed
  <1> QED BY <1>1, <1>2, <1>3 DEF Sound

-----------------------------------------------------------------------------
(* The steps of the protocol.                                              *)

LEMMA Stutters ==
    ASSUME UNCHANGED <<st, nrun>>
    PROVE  Lawful
  BY DEF Lawful, Protocol!vars

LEMMA Begins ==
    ASSUME nrun' = nrun + 1, st'.run = nrun', st'.round = 1,
           st'.phase = "awaiting_work", st'.outcome = "none"
    PROVE  Lawful
  BY DEF Lawful, Protocol!Next, Protocol!Begin

LEMMA Forgets ==
    ASSUME st' = Blank, nrun' = nrun
    PROVE  Lawful
  BY DEF Lawful, Protocol!Next, Protocol!Forget, Blank

LEMMA Reopens ==
    ASSUME InFlight(st), st'.phase = "awaiting_work", nrun' = nrun,
           st'.round = st.round, st'.run = st.run, st'.outcome = st.outcome
    PROVE  Lawful
  BY DEF Lawful, Protocol!Next, Protocol!Reopen, Protocol!InFlight, InFlight

LEMMA Submits ==
    ASSUME st.phase = "awaiting_work", st'.phase = "awaiting_review", nrun' = nrun,
           st'.round = st.round, st'.run = st.run, st'.outcome = st.outcome
    PROVE  Lawful
  BY DEF Lawful, Protocol!Next, Protocol!Submit

LEMMA Retries ==
    ASSUME st.phase = "awaiting_review", st.round <= MaxRounds,
           st'.phase = "awaiting_work", st'.round = st.round + 1, nrun' = nrun,
           st'.run = st.run, st'.outcome = st.outcome
    PROVE  Lawful
  BY DEF Lawful, Protocol!Next, Protocol!Retry

LEMMA Succeeds ==
    ASSUME \/ st.phase = "awaiting_work" /\ st'.outcome = "no_change_success"
           \/ st.phase = "awaiting_review" /\ st'.outcome = "approved",
           st'.phase = "done", nrun' = nrun, st'.round = st.round, st'.run = st.run
    PROVE  Lawful
  BY DEF Lawful, Protocol!Next, Protocol!Succeed

LEMMA Fails ==
    ASSUME InFlight(st), st'.phase = "done", st'.outcome \in FailureOutcomes,
           nrun' = nrun, st'.round = st.round, st'.run = st.run
    PROVE  Lawful
  BY DEF Lawful, Protocol!Next, Protocol!Fail, Protocol!InFlight, InFlight

LEMMA Renames ==
    ASSUME st.phase = "done", st.outcome \in FailureOutcomes,
           st'.phase = "done", st'.outcome \in FailureOutcomes,
           nrun' = nrun, st'.round = st.round, st'.run = st.run
    PROVE  Lawful
  BY DEF Lawful, Protocol!Next, Protocol!Rename

LEMMA Refuses ==
    ASSUME st'.phase = "done", nrun' = nrun,
           \/ /\ st'.outcome = "blocked_dependencies"
              /\ ~InFlight(st) /\ st'.run = st.run
              /\ st'.round = IF st.round < 1 THEN 1 ELSE st.round
           \/ /\ st'.outcome = "blocked_dependencies"
              /\ st'.run = 0 /\ st'.round = 1
           \/ /\ st'.outcome = "invalid_resume_state"
              /\ st.phase = "idle" /\ st'.run = st.run /\ st'.round = st.round
    PROVE  Lawful
  BY DEF Lawful, Protocol!Next, Protocol!Refuse, Protocol!InFlight, InFlight

-----------------------------------------------------------------------------
(* A step of the child that is running.                                    *)

Running(s) == s \in Slots /\ TypeInv /\ SerialInv /\ kid[s].pc # "free"

LEMMA RunningParts ==
    ASSUME NEW s \in Slots, Running(s)
    PROVE  /\ st \in Contract /\ nrun \in Nat /\ card \in Card /\ fix \in FixList
           /\ kid \in [Slots -> Kid] /\ kid[s] \in Kid /\ kid[s].mem \in Contract
           /\ par \in Parent /\ par.pc = "wait" /\ ~kid[s].orphan /\ card # NoCard
           /\ par.round \in Rounds /\ par.round <= MaxRounds
           /\ Open(par.mem, nrun) /\ Turn(par.mem, par)
           /\ Stage(kid[s], st, par, fix)
           /\ Sound(st, nrun) /\ FixReady(st, fix)
  <1>1. /\ st \in Contract /\ nrun \in Nat /\ card \in Card /\ fix \in FixList
        /\ kid \in [Slots -> Kid] /\ par \in Parent
    BY DEF Running, TypeInv, TypeOK, Runs
  <1>2. kid[s] \in Kid /\ kid[s].mem \in Contract /\ kid[s].round <= MaxRounds
    BY <1>1 DEF Running, TypeInv, RoundIsTheChilds, Kid
  <1>3. par.pc = "wait" /\ ~kid[s].orphan
    BY DEF Running, SerialInv, Alone
  <1>4. card # NoCard /\ Open(par.mem, nrun) /\ Turn(par.mem, par)
    BY <1>3 DEF Running, SerialInv, Held
  <1>5. Stage(kid[s], st, par, fix) /\ Sound(st, nrun) /\ FixReady(st, fix)
    BY DEF Running, SerialInv, Stages
  <1>6. par.round \in Rounds /\ par.round <= MaxRounds
    BY <1>1, <1>2, <1>5 DEF Stage, Parent
  <1> QED BY <1>1, <1>2, <1>3, <1>4, <1>5, <1>6

LEMMA ChildMoves ==
    ASSUME NEW s \in Slots, Running(s),
           NEW k, kid' = [kid EXCEPT ![s] = k], k.pc # "free", ~k.orphan,
           UNCHANGED <<par, nrun>>, card' # NoCard,
           Sound(st', nrun), Stage(k, st', par, fix'), FixReady(st', fix')
    PROVE  SerialInv'
  <1>1. kid \in [Slots -> Kid] /\ par.pc = "wait"
    BY RunningParts
  <1>2. kid'[s] = k /\ \A q \in Slots : q # s => kid'[q] = kid[q] /\ kid[q].pc = "free"
    BY <1>1 DEF Running, SerialInv, Alone
  <1>3. Alone(kid', par')
    BY <1>1, <1>2 DEF Running, SerialInv, Alone
  <1>4. Stages(kid', st', par', fix')
    BY <1>2 DEF Stages
  <1>5. Held(par', st', card', nrun')
    BY <1>1 DEF Running, SerialInv, Held
  <1>6. ExitZeroIsSuccess'
    BY <1>1 DEF ExitZeroIsSuccess, Finished
  <1> QED BY <1>3, <1>4, <1>5, <1>6 DEF SerialInv

LEMMA MarkedCard ==
    ASSUME NEW x, x # "absent", card \in Card, card # NoCard, SetBusCard(x)
    PROVE  card' # NoCard /\ card'.status = x
  <1>1. card' = [card EXCEPT !.status = x]
    BY DEF SetBusCard
  <1>2. card'.status = x
    BY <1>1 DEF Card
  <1> QED BY <1>2 DEF NoCard

(* It goes on to another point of its round and leaves state.json alone.   *)
LEMMA ChildGoes ==
    ASSUME NEW s \in Slots, Running(s),
           NEW k \in Kid, kid' = [kid EXCEPT ![s] = k], k.pc # "free", ~k.orphan,
           UNCHANGED <<st, par, nrun>>, card' # NoCard,
           Stage(k, st, par, fix'), FixReady(st, fix')
    PROVE  SerialInv' /\ Lawful
  BY RunningParts, ChildMoves, Stutters

LEMMA ChildExits ==
    ASSUME NEW s \in Slots, Running(s), NEW rc \in ExitCodes, Exit(s, rc),
           UNCHANGED <<st, par, nrun>>, card' # NoCard, FixReady(st, fix'),
           rc = 0 => TerminalSuccess(st) \/ AwaitingNext(st, par.round),
           \/ rc = 0 \/ par.intr \/ "child" \in Faults
           \/ st.round = par.round /\ (InFlight(st) \/ st.outcome \in FailureOutcomes)
    PROVE  SerialInv' /\ Lawful
  <1> DEFINE k == [Free EXCEPT !.pc = "exited", !.round = kid[s].round, !.rc = rc]
  <1>1. kid[s] \in Kid /\ ~kid[s].orphan /\ Stage(kid[s], st, par, fix)
    BY RunningParts
  <1>2. kid' = [kid EXCEPT ![s] = k]
    BY <1>1 DEF Exit, Ended
  <1>3. "exited" \in KidPc /\ kid[s].round \in Rounds
    BY <1>1 DEF KidPc, Kid
  <1>4. k \in Kid /\ k.pc = "exited" /\ k.round = kid[s].round /\ k.rc = rc /\ ~k.orphan
    BY <1>3, Nothing DEF Kid, Free
  <1> HIDE DEF k
  <1>5. Stage(k, st, par, fix')
    BY <1>1, <1>4 DEF Stage, ToWork, ToReview, Copied
  <1> QED BY <1>2, <1>4, <1>5, ChildGoes

(* The round ends in a failure it reports itself.                          *)
LEMMA ChildFails ==
    ASSUME NEW s \in Slots, Running(s), NEW m \in Contract, NEW o \in FailureOutcomes,
           KidFail(s, m, o), InFlight(st),
           m.task = st.task, m.run = st.run, m.round = st.round, st.round = par.round,
           UNCHANGED <<par, nrun, card, fix>>
    PROVE  SerialInv' /\ Lawful
  <1> DEFINE w == Failed(m, o)
             k == [kid[s] EXCEPT !.mem = w, !.pc = "failing", !.rc = 3]
  <1>1. /\ kid[s] \in Kid /\ ~kid[s].orphan /\ Stage(kid[s], st, par, fix)
        /\ kid \in [Slots -> Kid] /\ nrun \in Nat /\ st \in Contract
        /\ Sound(st, nrun) /\ card # NoCard
    BY RunningParts
  <1>2. o \in Outcomes
    BY Failures
  <1>3. /\ w \in Contract /\ w.phase = "done" /\ w.outcome = o /\ w.round = m.round
        /\ w.run = m.run /\ w.task = m.task
    BY <1>2, FailedType, FailedParts
  <1>4. Closed(w, nrun)
    BY <1>1, SoundParts, FailsClosed
  <1>5. st' = Saved(st, w) /\ kid' = [kid EXCEPT ![s].mem = w, ![s].pc = "failing", ![s].rc = 3]
    BY DEF KidFail
  <1> HIDE DEF w
  <1>6. st' = w
    BY <1>3, <1>5, SavedMoved DEF InFlight
  <1>7. /\ k \in Kid /\ k.pc = "failing" /\ k.mem = w /\ k.rc = 3
        /\ k.round = kid[s].round /\ ~k.orphan
    BY <1>1, <1>3 DEF Kid, KidPc, ExitCodes
  <1>8. kid' = [kid EXCEPT ![s] = k]
    BY <1>1, <1>5
  <1> HIDE DEF k
  <1>9. Stage(k, w, par, fix)
    BY <1>1, <1>3, <1>7 DEF Stage, ToWork, ToReview, Copied
  <1>10. FixReady(w, fix)
    BY <1>3 DEF FixReady, InFlight
  <1>11. SerialInv'
    BY <1>1, <1>4, <1>6, <1>7, <1>8, <1>9, <1>10, ChildMoves DEF Sound
  <1>12. Lawful
    BY <1>3, <1>6, Fails
  <1> QED BY <1>11, <1>12

(* It writes the contract w in a phase of its own.                         *)
LEMMA ChildWrites ==
    ASSUME NEW s \in Slots, Running(s), NEW w \in Contract, NEW pc \in KidPc,
           Transit(s, w, pc), w = st \/ st.phase # w.phase, Sound(w, nrun),
           w.task = st.task, w.run = st.run, pc # "free", FixReady(w, fix),
           pc \in ToWork => Turn(w, par),
           pc \in ToReview =>
              pc = "review" /\ w.phase = "awaiting_review" /\ w.round = par.round,
           pc = "success" => TerminalSuccess(w),
           pc = "returning" => AwaitingNext(w, par.round),
           pc \notin {"summing", "failing", "blocking", "exited"},
           UNCHANGED <<par, nrun, card, fix>>
    PROVE  SerialInv' /\ st' = w
  <1> DEFINE k == [kid[s] EXCEPT !.mem = w, !.pc = pc]
  <1>1. /\ kid[s] \in Kid /\ ~kid[s].orphan /\ Stage(kid[s], st, par, fix)
        /\ kid \in [Slots -> Kid] /\ card # NoCard
    BY RunningParts
  <1>2. st' = w
    BY SavedMoved DEF Transit, Saved
  <1>3. k \in Kid /\ k.pc = pc /\ k.mem = w /\ k.round = kid[s].round /\ ~k.orphan
    BY <1>1 DEF Kid
  <1>4. kid' = [kid EXCEPT ![s] = k]
    BY <1>1 DEF Transit
  <1> HIDE DEF k
  <1>5. Stage(k, w, par, fix)
    BY <1>1, <1>3 DEF Stage, ToWork, ToReview, Copied
  <1> QED BY <1>1, <1>2, <1>3, <1>4, <1>5, ChildMoves

LEMMA ChildRuns ==
    ASSUME NEW s \in Slots, TypeInv, SerialInv,
           KidStep(s) \/ KidTrouble(s) \/ ChildDies(s)
    PROVE  Running(s)
  <1>1. CASE OrphanDies(s)
    BY <1>1 DEF OrphanDies, SerialInv, Alone, Free
  <1>2. CASE ~OrphanDies(s)
    <2>1. kid[s].pc # "free"
      BY <1>2 DEF KidStep, KidTrouble, LoadRound, BootstrapRound, PrepareRound,
           DispatchWorker, RejectWork, AcceptWork, AcceptNoChange, RefuseNoChange,
           WriteRequest, DispatchReviewer, WorkerTimeout, ReviewerTimeout, TimedOut,
           RejectReview, AcceptApproval, AcceptChanges, TakeReview, ReportIn, ReviewIn,
           Approve, MarkDone, WriteSummary, WriteFixList, AdvanceRound, Return,
           KidFailTail, KidBlockTail, LoadBlocked, RefusePatch, DispatchFailed,
           ChildTerminated, ChildDies, Own, At
    <2> QED BY <2>1 DEF Running
  <1> QED BY <1>1, <1>2

LEMMA ChildSerial ==
    ASSUME NEW s \in Slots, TypeInv, SerialInv,
           KidStep(s) \/ KidTrouble(s) \/ ChildDies(s)
    PROVE  SerialInv' /\ Lawful
  <1> USE DEF KidOnly
  <1> DEFINE k == kid[s]
             m == kid[s].mem
  <1>2. Running(s)
    BY ChildRuns
  <1>3. /\ st \in Contract /\ nrun \in Nat /\ card \in Card /\ fix \in FixList
        /\ kid \in [Slots -> Kid] /\ k \in Kid /\ m \in Contract
        /\ par \in Parent /\ par.pc = "wait" /\ ~k.orphan /\ card # NoCard
        /\ par.round \in Rounds /\ par.round <= MaxRounds
        /\ Open(par.mem, nrun) /\ Turn(par.mem, par)
        /\ Stage(k, st, par, fix)
        /\ Sound(st, nrun) /\ FixReady(st, fix)
    BY <1>2, RunningParts
  <1>4. /\ k.pc \in ToWork => /\ Turn(st, par) /\ InFlight(st) /\ Open(st, nrun)
                              /\ st.round = par.round
        /\ k.pc \in ToReview => /\ st.phase = "awaiting_review" /\ st.round = par.round
                                /\ InFlight(st) /\ Open(st, nrun)
        /\ k.pc \in Copied => m = st
    BY <1>3, SoundParts DEF Stage, Turn, InFlight
  <1>5. \A rc \in {0, 1, 2, 3, 4, 5, 6, 130, 137} : rc \in ExitCodes
    BY DEF ExitCodes
  <1>6. \A pc \in ToWork \cup ToReview \cup Copied : pc \in KidPc
    BY DEF ToWork, ToReview, Copied, KidPc
  <1>7. st.round \in Int /\ (st.round = par.round => st.round <= MaxRounds)
    BY <1>3 DEF Contract, Rounds
  <1> HIDE DEF k, m
  <1>a. CASE LoadRound(s)
    <2>0. k.pc = "begin" /\ Turn(st, par) /\ InFlight(st) /\ st.round = par.round
      BY <1>a, <1>4 DEF LoadRound, At, ToWork, k
    <2>1. CASE StaleArtifacts(st)
      <3>1. Exit(s, 3) /\ UNCHANGED <<st, par, nrun, card, fix>>
        BY <1>3, <1>a, <2>1 DEF LoadRound
      <3> QED BY <1>2, <1>3, <1>5, <2>0, <3>1, ChildExits
    <2>2. CASE ~StaleArtifacts(st)
      <3> DEFINE new == [kid[s] EXCEPT !.mem = st, !.pc = "loaded"]
      <3>1. /\ kid' = [kid EXCEPT ![s] = new] /\ SetBusCard("in_progress")
            /\ UNCHANGED <<st, par, nrun, fix>>
        BY <1>3, <1>a, <2>2 DEF LoadRound, k
      <3>2. /\ new \in Kid /\ new.pc = "loaded" /\ new.mem = st /\ new.round = k.round
            /\ ~new.orphan
        BY <1>3 DEF Kid, KidPc, k
      <3> HIDE DEF new
      <3>3. Stage(new, st, par, fix)
        BY <1>3, <2>0, <3>2 DEF Stage, ToWork, ToReview, Copied
      <3>4. card' # NoCard
        BY <1>3, <3>1, MarkedCard
      <3> QED BY <1>2, <1>3, <3>1, <3>2, <3>3, <3>4, ChildGoes
    <2> QED BY <2>1, <2>2
  <1>b. CASE LoadBlocked(s)
    <2> DEFINE b == BlockedByDependencies(st, card.task, 1)
    <2>1. k.pc = "begin" /\ InFlight(st) /\ st.round = par.round /\ Open(st, nrun)
      BY <1>b, <1>4 DEF LoadBlocked, At, ToWork, k
    <2>2. b \in Contract
      BY <1>3, BlockedType DEF Card
    <2>3. b.task = st.task /\ b.run = st.run /\ b.round = st.round
      <3>1. st.task # NoTask /\ ~(st.round < 1)
        BY <1>7, <2>1 DEF Open
      <3>2. b = [st EXCEPT !.task = st.task, !.round = st.round]
        BY <3>1 DEF BlockedByDependencies
      <3> HIDE DEF b
      <3> QED BY <1>3, <3>2 DEF Contract
    <2>4. KidFail(s, b, "blocked_dependencies") /\ UNCHANGED <<par, nrun, card, fix>>
      BY <1>b DEF LoadBlocked
    <2> HIDE DEF b
    <2>5. "blocked_dependencies" \in FailureOutcomes
      BY DEF FailureOutcomes
    <2> QED BY <1>2, <2>1, <2>2, <2>3, <2>4, <2>5, ChildFails
  <1>c. CASE BootstrapRound(s)
    <2>1. k.pc = "loaded" /\ m.task = NoTask
      BY <1>c DEF BootstrapRound, At, k, m
    <2> QED BY <1>4, <2>1 DEF ToWork, Copied, Open
  <1>d. CASE PrepareRound(s)
    <2>1. k.pc = "loaded" /\ m = st /\ Turn(st, par) /\ InFlight(st) /\ Open(st, nrun)
          /\ st.round = par.round /\ UNCHANGED <<par, nrun, card, fix>>
      BY <1>d, <1>4 DEF PrepareRound, At, ToWork, Copied, k
    <2>2. CASE KidFail(s, m, "state_task_mismatch")
      <3>1. "state_task_mismatch" \in FailureOutcomes
        BY DEF FailureOutcomes
      <3> QED BY <1>2, <1>3, <2>1, <2>2, <3>1, ChildFails
    <2>3. CASE Transit(s, Prepared(m, m.run, k.round), "prepared")
      <3>1. k.round = st.round
        BY <1>3, <2>1 DEF Stage
      <3>2. Prepared(m, m.run, k.round) = st
        BY <1>3, <2>1, <3>1, PreparedAgain DEF Turn, Open
      <3>3. Transit(s, st, "prepared")
        BY <2>3, <3>2
      <3>4. SerialInv' /\ st' = st
        BY <1>2, <1>3, <1>6, <2>1, <3>3, ChildWrites DEF ToWork, ToReview, Copied, Stage
      <3> QED BY <2>1, <3>4, Stutters
    <2> QED BY <1>d, <2>2, <2>3 DEF PrepareRound, k, m
  <1>e. CASE DispatchWorker(s)
    <2>1. k.pc = "prepared" /\ Turn(st, par) /\ InFlight(st) /\ st.round = par.round
          /\ m = st /\ UNCHANGED <<st, par, nrun, card, fix>>
      BY <1>e, <1>4 DEF DispatchWorker, At, ToWork, Copied, k
    <2>2. CASE Exit(s, 3)
      BY <1>2, <1>3, <1>5, <2>1, <2>2, ChildExits
    <2>3. CASE Goto(s, "work")
      <3> DEFINE new == [kid[s] EXCEPT !.pc = "work"]
      <3>1. /\ new \in Kid /\ new.pc = "work" /\ new.mem = st /\ new.round = k.round
            /\ ~new.orphan /\ kid' = [kid EXCEPT ![s] = new]
        BY <1>3, <2>1, <2>3 DEF Goto, Kid, KidPc, k, m
      <3> HIDE DEF new
      <3>2. Stage(new, st, par, fix)
        BY <1>3, <2>1, <3>1 DEF Stage, ToWork, ToReview, Copied
      <3> QED BY <1>2, <1>3, <2>1, <3>1, <3>2, ChildGoes
    <2> QED BY <1>e, <2>2, <2>3 DEF DispatchWorker
  <1>f. CASE RejectWork(s)
    <2>1. k.pc = "work" /\ InFlight(st) /\ st.round = par.round /\ m = st
      BY <1>f, <1>4 DEF RejectWork, ReportIn, At, ToWork, Copied, k
    <2>2. PICK o \in FailureOutcomes :
             KidFail(s, m, o) /\ UNCHANGED <<par, nrun, card, fix>>
      BY <1>f DEF RejectWork, FailureOutcomes, m
    <2> QED BY <1>2, <1>3, <2>1, <2>2, ChildFails
  <1>g. CASE RefusePatch(s)
    <2>1. k.pc = "work" /\ InFlight(st) /\ st.round = par.round /\ Exit(s, 6)
          /\ UNCHANGED <<st, par, nrun, card, fix>>
      BY <1>g, <1>4 DEF RefusePatch, ReportIn, At, ToWork, k, files
    <2> QED BY <1>2, <1>3, <1>5, <2>1, ChildExits
  <1>h. CASE AcceptWork(s)
    <2>1. k.pc = "work" /\ Turn(st, par) /\ m = st /\ UNCHANGED <<st, par, nrun, card, fix>>
      BY <1>h, <1>4 DEF AcceptWork, ReportIn, At, ToWork, Copied, k, files
    <2> DEFINE new == [kid[s] EXCEPT !.head = work.head, !.pc = "worked"]
    <2>2. work.head \in Heads
      BY <1>h DEF AcceptWork, Heads
    <2>3. /\ new \in Kid /\ new.pc = "worked" /\ new.mem = st /\ new.round = k.round
          /\ ~new.orphan
      BY <1>3, <2>1, <2>2 DEF Kid, KidPc, k, m
    <2>4. kid' = [kid EXCEPT ![s] = new]
      BY <1>h, <1>3 DEF AcceptWork
    <2> HIDE DEF new
    <2>5. Stage(new, st, par, fix)
      BY <1>3, <2>1, <2>3 DEF Stage, ToWork, ToReview, Copied
    <2> QED BY <1>2, <1>3, <2>1, <2>3, <2>4, <2>5, ChildGoes
  <1>i. CASE AcceptNoChange(s)
    <2> DEFINE w == NoChange(Recorded(st, "no_change"))
    <2>1. k.pc = "work" /\ st.phase = "awaiting_work" /\ m = st /\ Open(st, nrun)
          /\ UNCHANGED <<par, nrun, card, fix>>
      BY <1>i, <1>4 DEF AcceptNoChange, ReportIn, At, ToWork, Copied, Turn, k
    <2>2. Transit(s, w, "success")
      BY <1>i, <2>1 DEF AcceptNoChange, m
    <2>3. w \in Contract
      BY <1>3, RecordedType, NoChangeType DEF Decisions
    <2>4. /\ Closed(w, nrun) /\ w.phase = "done" /\ w.outcome = "no_change_success"
          /\ w.task = st.task /\ w.run = st.run /\ w.round = st.round
      BY <1>3, <2>1, NoChangeCloses
    <2> HIDE DEF w
    <2>5. FixReady(w, fix) /\ TerminalSuccess(w)
      BY <2>4 DEF FixReady, InFlight, TerminalSuccess, SuccessOutcomes
    <2>6. SerialInv' /\ st' = w
      BY <1>2, <1>6, <2>1, <2>2, <2>3, <2>4, <2>5, ChildWrites
         DEF ToWork, ToReview, Copied, Sound
    <2> QED BY <2>1, <2>4, <2>6, Succeeds
  <1>j. CASE RefuseNoChange(s)
    <2> DEFINE w == Recorded(st, "no_change")
    <2>1. k.pc = "work" /\ InFlight(st) /\ st.round = par.round /\ m = st
      BY <1>j, <1>4 DEF RefuseNoChange, ReportIn, At, ToWork, Copied, k
    <2>2. KidFail(s, w, "validation_failure") /\ UNCHANGED <<par, nrun, card, fix>>
      BY <1>j, <2>1 DEF RefuseNoChange, m
    <2>3. "no_change" \in Decisions /\ "validation_failure" \in FailureOutcomes
      BY DEF Decisions, FailureOutcomes
    <2>4. w \in Contract /\ w.task = st.task /\ w.run = st.run /\ w.round = st.round
      BY <1>3, <2>3, RecordedType, RecordedParts
    <2> HIDE DEF w
    <2> QED BY <1>2, <2>1, <2>2, <2>3, <2>4, ChildFails
  <1>k. CASE WriteRequest(s)
    <2>1. k.pc = "worked" /\ Turn(st, par) /\ InFlight(st) /\ st.round = par.round
          /\ m = st /\ UNCHANGED <<st, par, nrun, card, fix>>
      BY <1>k, <1>4 DEF WriteRequest, At, ToWork, Copied, k
    <2>2. CASE Exit(s, 3)
      BY <1>2, <1>3, <1>5, <2>1, <2>2, ChildExits
    <2>3. CASE Goto(s, "requested")
      <3> DEFINE new == [kid[s] EXCEPT !.pc = "requested"]
      <3>1. /\ new \in Kid /\ new.pc = "requested" /\ new.mem = st /\ new.round = k.round
            /\ ~new.orphan /\ kid' = [kid EXCEPT ![s] = new]
        BY <1>3, <2>1, <2>3 DEF Goto, Kid, KidPc, k, m
      <3> HIDE DEF new
      <3>2. Stage(new, st, par, fix)
        BY <1>3, <2>1, <3>1 DEF Stage, ToWork, ToReview, Copied
      <3> QED BY <1>2, <1>3, <2>1, <3>1, <3>2, ChildGoes
    <2> QED BY <1>k, <2>2, <2>3 DEF WriteRequest
  <1>l. CASE DispatchReviewer(s)
    <2> DEFINE w == Submitted(st, k.head)
    <2>1. k.pc = "requested" /\ Turn(st, par) /\ m = st /\ Open(st, nrun)
          /\ st.round = par.round /\ UNCHANGED <<par, nrun, card, fix>>
      BY <1>l, <1>4 DEF DispatchReviewer, At, ToWork, Copied, k
    <2>2. Transit(s, w, "review")
      BY <1>l, <2>1 DEF DispatchReviewer, k, m
    <2>3. k.head \in Heads
      BY <1>3 DEF Kid
    <2>4. /\ w \in Contract /\ w.outcome = st.outcome /\ w.round = st.round
          /\ w.run = st.run /\ w.phase = "awaiting_review" /\ w.task = st.task
      BY <1>3, <2>3, SubmittedType, SubmittedParts
    <2>5. Open(w, nrun)
      BY <1>3, <1>7, <2>1, <2>3, SubmitsOpen
    <2> HIDE DEF w
    <2>6. FixReady(w, fix)
      BY <1>3, <2>1, <2>4 DEF FixReady, InFlight, Turn
    <2>7. SerialInv' /\ st' = w
      BY <1>2, <1>6, <2>1, <2>2, <2>4, <2>5, <2>6, ChildWrites
         DEF ToWork, ToReview, Copied, Sound, Turn
    <2> QED BY <2>1, <2>4, <2>7, Submits DEF Turn
  <1>m. CASE WorkerTimeout(s) \/ ReviewerTimeout(s)
    <2>1. PICK t \in {"worker_timeout", "reviewer_timeout"} :
             /\ st' = Saved(st, Moved(m, t))
             /\ kid' = [kid EXCEPT ![s].mem = Moved(m, t),
                                   ![s].pc = "blocking", ![s].rc = 2]
             /\ UNCHANGED <<par, nrun, card, fix>>
             /\ k.pc \in {"work", "review"}
      BY <1>m DEF WorkerTimeout, ReviewerTimeout, TimedOut, At, k, m
    <2>2. m = st /\ InFlight(st) /\ st.round = par.round
      BY <1>4, <2>1 DEF ToWork, ToReview, Copied
    <2> DEFINE w == Moved(st, t)
               new == [kid[s] EXCEPT !.mem = w, !.pc = "blocking", !.rc = 2]
    <2>3. /\ w \in Contract /\ w.phase = "done" /\ w.round = st.round
          /\ w.run = st.run /\ w.task = st.task /\ w.outcome \in FailureOutcomes
          /\ Closed(w, nrun)
      <3>1. t \in {"worker_timeout", "reviewer_timeout", "max_rounds_exhausted"}
        OBVIOUS
      <3>2. st.run \in 0 .. nrun
        BY <1>3, SoundParts
      <3>3. Closed(w, nrun) /\ w.outcome \in FailureOutcomes
        BY <1>3, <3>1, <3>2, TimesOutClosed
      <3> QED BY <1>3, <3>1, <3>3, TimedOutType, TimedOutParts
    <2>4. st' = Saved(st, w) /\ kid' = [kid EXCEPT ![s].mem = w, ![s].pc = "blocking", ![s].rc = 2]
      BY <2>1, <2>2
    <2> HIDE DEF w
    <2>5. st' = w
      BY <2>2, <2>3, <2>4, SavedMoved DEF InFlight
    <2>6. /\ new \in Kid /\ new.pc = "blocking" /\ new.mem = w /\ new.rc = 2
          /\ new.round = k.round /\ ~new.orphan
      BY <1>3, <1>5, <2>3 DEF Kid, KidPc, k
    <2>7. kid' = [kid EXCEPT ![s] = new]
      BY <1>3, <2>4
    <2> HIDE DEF new
    <2>8. Stage(new, w, par, fix)
      BY <1>3, <2>2, <2>3, <2>6 DEF Stage, ToWork, ToReview, Copied
    <2>9. FixReady(w, fix)
      BY <2>3 DEF FixReady, InFlight
    <2>10. SerialInv'
      BY <1>2, <1>3, <2>1, <2>3, <2>5, <2>6, <2>7, <2>8, <2>9, ChildMoves, ZenonT(60) DEF Sound
    <2> QED BY <2>1, <2>2, <2>3, <2>5, <2>10, Fails
  <1>n. CASE DispatchFailed(s)
    <2>1. k.pc \in {"work", "review"} /\ KidFail(s, m, "dispatch_failed")
          /\ UNCHANGED <<par, nrun, card, fix>>
      BY <1>n DEF DispatchFailed, At, k, m
    <2>2. InFlight(st) /\ st.round = par.round /\ m = st
      BY <1>4, <2>1 DEF ToWork, ToReview, Copied
    <2>3. "dispatch_failed" \in FailureOutcomes
      BY DEF FailureOutcomes
    <2> QED BY <1>2, <1>3, <2>1, <2>2, <2>3, ChildFails
  <1>o. CASE RejectReview(s)
    <2>1. k.pc = "review" /\ KidFail(s, m, "invalid_report")
          /\ UNCHANGED <<par, nrun, card, fix>>
      BY <1>o DEF RejectReview, ReviewIn, At, k, m
    <2>2. InFlight(st) /\ st.round = par.round /\ m = st
      BY <1>4, <2>1 DEF ToReview, Copied
    <2>3. "invalid_report" \in FailureOutcomes
      BY DEF FailureOutcomes
    <2> QED BY <1>2, <1>3, <2>1, <2>2, <2>3, ChildFails
  <1>p. CASE AcceptApproval(s) \/ AcceptChanges(s)
    <2>1. PICK d \in Decisions, pc \in {"approving", "retrying"} :
             /\ TakeReview(s, d, pc)
             /\ d = IF pc = "approving" THEN "approve" ELSE "changes_required"
      BY <1>p DEF AcceptApproval, AcceptChanges, Decisions
    <2>2. k.pc = "review" /\ UNCHANGED <<st, par, nrun, card, fix>>
      BY <2>1 DEF TakeReview, ReviewIn, At, k
    <2>3. m = st /\ st.phase = "awaiting_review" /\ st.round = par.round
      BY <1>4, <2>2 DEF ToReview, Copied
    <2> DEFINE w == Recorded(st, d)
               new == [kid[s] EXCEPT !.mem = w, !.pc = pc]
    <2>4. w \in Contract
      BY <1>3, RecordedType
    <2>5. /\ new \in Kid /\ new.pc = pc /\ new.mem = w /\ new.round = k.round
          /\ ~new.orphan
      BY <1>3, <1>6, <2>4 DEF Kid, ToReview, k
    <2>6. kid' = [kid EXCEPT ![s] = new]
      BY <1>3, <2>1, <2>3 DEF TakeReview, m
    <2> HIDE DEF new
    <2>7. Stage(new, st, par, fix)
      BY <1>3, <2>1, <2>3, <2>5 DEF Stage, ToWork, ToReview, Copied
    <2>8. new.pc # "free"
      BY <2>5
    <2> QED BY <1>2, <1>3, <2>2, <2>5, <2>6, <2>7, <2>8, ChildGoes
  <1>q. CASE Approve(s)
    <2> DEFINE w == Approved(Recorded(st, "approve"))
    <2>1. k.pc = "approving" /\ st.phase = "awaiting_review" /\ Open(st, nrun)
          /\ UNCHANGED <<par, nrun, card, fix>>
      BY <1>q, <1>4 DEF Approve, At, ToReview, k
    <2>2. m = Recorded(st, "approve")
      BY <1>3, <2>1 DEF Stage, m, k
    <2>3. Transit(s, w, "success")
      BY <1>q, <2>2 DEF Approve, m
    <2>4. w \in Contract
      BY <1>3, RecordedType, ApprovedType DEF Decisions
    <2>5. /\ Closed(w, nrun) /\ w.phase = "done" /\ w.outcome = "approved"
          /\ w.task = st.task /\ w.run = st.run /\ w.round = st.round
      BY <1>3, <2>1, ApprovesClosed
    <2> HIDE DEF w
    <2>6. FixReady(w, fix) /\ TerminalSuccess(w)
      BY <2>5 DEF FixReady, InFlight, TerminalSuccess, SuccessOutcomes
    <2>7. SerialInv' /\ st' = w
      BY <1>2, <1>6, <2>1, <2>3, <2>4, <2>5, <2>6, ChildWrites
         DEF ToWork, ToReview, Copied, Sound
    <2> QED BY <2>1, <2>5, <2>7, Succeeds
  <1>r. CASE MarkDone(s)
    <2> DEFINE new == [kid[s] EXCEPT !.pc = "summing"]
    <2>1. k.pc = "success" /\ m = st /\ TerminalSuccess(st)
          /\ UNCHANGED <<st, par, nrun, fix>>
      BY <1>r, <1>3, <1>4 DEF MarkDone, At, Stage, Copied, k
    <2>2. SetBusCard("done") /\ kid' = [kid EXCEPT ![s] = new]
      BY <1>r, <1>3 DEF MarkDone, Goto, k
    <2>3. /\ new \in Kid /\ new.pc = "summing" /\ new.mem = st /\ new.round = k.round
          /\ ~new.orphan
      BY <1>3, <2>1 DEF Kid, KidPc, k, m
    <2> HIDE DEF new
    <2>4. Stage(new, st, par, fix)
      BY <1>3, <2>1, <2>3 DEF Stage, ToWork, ToReview, Copied
    <2>5. card' # NoCard
      BY <1>3, <2>2, MarkedCard
    <2> QED BY <1>2, <1>3, <2>1, <2>2, <2>3, <2>4, <2>5, ChildGoes
  <1>s. CASE WriteSummary(s)
    <2> DEFINE new == [kid[s] EXCEPT !.pc = "returning"]
    <2>1. k.pc = "summing" /\ m = st /\ TerminalSuccess(st)
          /\ UNCHANGED <<st, par, nrun, card, fix>>
      BY <1>s, <1>3, <1>4 DEF WriteSummary, At, Stage, Copied, k
    <2>2. kid' = [kid EXCEPT ![s] = new]
      BY <1>s, <1>3 DEF WriteSummary, Goto
    <2>3. /\ new \in Kid /\ new.pc = "returning" /\ new.mem = st /\ new.round = k.round
          /\ ~new.orphan
      BY <1>3, <2>1 DEF Kid, KidPc, k, m
    <2> HIDE DEF new
    <2>4. Stage(new, st, par, fix)
      BY <1>3, <2>1, <2>3 DEF Stage, ToWork, ToReview, Copied
    <2> QED BY <1>2, <1>3, <2>1, <2>2, <2>3, <2>4, ChildGoes
  <1>t. CASE WriteFixList(s)
    <2>1. k.pc = "retrying" /\ st.phase = "awaiting_review" /\ InFlight(st)
          /\ st.round = par.round /\ UNCHANGED <<st, par, nrun, card>>
      BY <1>t, <1>4 DEF WriteFixList, At, ToReview, k
    <2>2. m = Recorded(st, "changes_required")
      BY <1>3, <2>1 DEF Stage, m, k
    <2>3. m.run = st.run /\ k.round = st.round
      BY <1>3, <2>1, <2>2, RecordedType DEF Stage, Decisions
    <2>4. fix'.run = st.run /\ fix'.round = st.round + 1
      BY <1>t, <2>3 DEF WriteFixList, NextFixes, k, m
    <2>5. FixReady(st, fix')
      BY <1>7, <2>4 DEF FixReady
    <2>6. CASE Exit(s, 3)
      BY <1>2, <1>3, <1>5, <2>1, <2>5, <2>6, ChildExits
    <2>7. CASE Goto(s, "retried")
      <3> DEFINE new == [kid[s] EXCEPT !.pc = "retried"]
      <3>1. /\ new \in Kid /\ new.pc = "retried" /\ new.mem = m /\ new.round = k.round
            /\ ~new.orphan /\ kid' = [kid EXCEPT ![s] = new]
        BY <1>3, <2>7 DEF Goto, Kid, KidPc, k, m
      <3> HIDE DEF new
      <3>2. Stage(new, st, par, fix')
        BY <1>3, <2>1, <2>2, <2>4, <3>1 DEF Stage, ToWork, ToReview, Copied
      <3> QED BY <1>2, <1>3, <2>1, <2>5, <3>1, <3>2, ChildGoes
    <2> QED BY <1>t, <2>6, <2>7 DEF WriteFixList
  <1>u. CASE AdvanceRound(s)
    <2> DEFINE w == Retried(Recorded(st, "changes_required"))
    <2>1. k.pc = "retried" /\ st.phase = "awaiting_review" /\ Open(st, nrun)
          /\ st.round = par.round /\ UNCHANGED <<par, nrun, card, fix>>
      BY <1>u, <1>4 DEF AdvanceRound, At, ToReview, k
    <2>2. m = Recorded(st, "changes_required")
      BY <1>3, <2>1 DEF Stage, m, k
    <2>3. Transit(s, w, "returning")
      BY <1>u, <2>2 DEF AdvanceRound, m
    <2>4. w \in Contract /\ w.outcome = "none"
      BY <1>3, <1>7, <2>1, RecordedType, RetriedType DEF Decisions
    <2>5. /\ Open(w, nrun) /\ w.phase = "awaiting_work" /\ w.round = st.round + 1
          /\ w.task = st.task /\ w.run = st.run
      BY <1>3, <2>1, RetriesOpen
    <2> HIDE DEF w
    <2>6. FixReady(w, fix) /\ AwaitingNext(w, par.round)
      BY <1>3, <1>7, <2>1, <2>5 DEF FixReady, Stage, AwaitingNext
    <2>7. SerialInv' /\ st' = w
      BY <1>2, <1>6, <2>1, <2>3, <2>4, <2>5, <2>6, ChildWrites
         DEF ToWork, ToReview, Copied, Sound
    <2>8. st.outcome = "none" /\ st.round <= MaxRounds
      BY <1>7, <2>1 DEF Open
    <2> QED BY <2>1, <2>4, <2>5, <2>7, <2>8, Retries
  <1>v. CASE Return(s)
    <2>1. k.pc = "returning" /\ Exit(s, 0) /\ UNCHANGED <<st, par, nrun, card, fix>>
      BY <1>v DEF Return, At, files, k
    <2>2. TerminalSuccess(st) \/ AwaitingNext(st, par.round)
      BY <1>3, <2>1 DEF Stage
    <2> QED BY <1>2, <1>3, <1>5, <2>1, <2>2, ChildExits
  <1>w. CASE KidFailTail(s) \/ KidBlockTail(s)
    <2>1. k.pc \in {"failing", "blocking"} /\ Exit(s, k.rc) /\ SetBusCard("blocked")
          /\ UNCHANGED <<st, par, nrun, fix>>
      BY <1>w DEF KidFailTail, KidBlockTail, At, k
    <2>2. st.outcome \in FailureOutcomes /\ st.round = par.round /\ k.rc # 0
      BY <1>3, <2>1 DEF Stage
    <2>3. k.rc \in ExitCodes
      BY <1>3 DEF Kid
    <2>4. card' # NoCard
      BY <1>3, <2>1, MarkedCard
    <2> QED BY <1>2, <1>3, <2>1, <2>2, <2>3, <2>4, ChildExits
  <1>x. CASE ChildTerminated(s)
    <2>1. par.intr /\ Exit(s, 137) /\ UNCHANGED <<st, par, nrun, card, fix>>
      BY <1>x DEF ChildTerminated, files
    <2> QED BY <1>2, <1>3, <1>5, <2>1, ChildExits
  <1>y. CASE OrphanDies(s)
    BY <1>3, <1>y DEF OrphanDies, k
  <1>z. CASE ChildDies(s)
    <2>1. "child" \in Faults /\ Exit(s, 1) /\ UNCHANGED <<st, par, nrun, card, fix>>
      BY <1>z DEF ChildDies, Fault, files
    <2> QED BY <1>2, <1>3, <1>5, <2>1, ChildExits
  <1> QED BY <1>a, <1>b, <1>c, <1>d, <1>e, <1>f, <1>g, <1>h, <1>i, <1>j, <1>k, <1>l,
             <1>m, <1>n, <1>o, <1>p, <1>q, <1>r, <1>s, <1>t, <1>u, <1>v, <1>w, <1>x,
             <1>y, <1>z DEF KidStep, KidTrouble

-----------------------------------------------------------------------------
(* A step of the parent.                                                   *)

(* The keys _save_state compares are those of what it is given.            *)
LEMMA SavedParts ==
    ASSUME NEW f, NEW s
    PROVE  /\ Saved(f, s).phase = s.phase
           /\ Saved(f, s).round = s.round
           /\ Saved(f, s).outcome = s.outcome
           /\ Saved(f, s).task = s.task
           /\ Saved(f, s).run = s.run
           /\ Saved(f, s).head = s.head
  BY DEF Saved, SameContract

(* With nobody to wait for there is no child.                              *)
LEMMA ParentMoves ==
    ASSUME SerialInv, par.pc # "wait", UNCHANGED kid, par'.pc # "wait",
           Sound(st', nrun'), Held(par', st', card', nrun'), FixReady(st', fix'),
           ExitZeroIsSuccess'
    PROVE  SerialInv'
  <1>1. \A s \in Slots : kid[s].pc = "free" /\ kid[s] = Free
    BY DEF SerialInv, Alone
  <1>2. Alone(kid', par') /\ Stages(kid', st', par', fix')
    BY <1>1 DEF Alone, Stages
  <1> QED BY <1>2 DEF SerialInv

LEMMA ReapMoves ==
    ASSUME NEW s \in Slots, TypeInv, SerialInv, Reap(s), par'.pc # "wait",
           Sound(st', nrun), Held(par', st', card', nrun), FixReady(st', fix),
           ExitZeroIsSuccess'
    PROVE  SerialInv'
  <1>1. kid \in [Slots -> Kid] /\ kid' = [kid EXCEPT ![s] = Free] /\ kid[s].pc # "free"
        /\ UNCHANGED <<fix, nrun>>
    BY DEF TypeInv, TypeOK, Reap, Own
  <1>2. \A q \in Slots : kid'[q] = Free
    BY <1>1 DEF SerialInv, Alone
  <1>3. Alone(kid', par') /\ Stages(kid', st', par', fix')
    <2>1. Free.pc = "free"
      BY DEF Free
    <2> QED BY <1>2, <2>1 DEF Alone, Stages
  <1> QED BY <1>1, <1>3 DEF SerialInv

LEMMA GoneHeld ==
    ASSUME NEW rc, NEW m, NEW c, NEW last
    PROVE  Held(Gone(rc), m, c, last) /\ Gone(rc).pc = "none" /\ Gone(rc).rc = rc
  BY DEF Held, Gone

LEMMA SoundFields ==
    ASSUME NEW m, NEW last, Sound(m, last), m.outcome \in FailureOutcomes
    PROVE  m.phase = "done"
  BY DEF Sound, Blank, Open, Closed, FailureOutcomes

LEMMA FailsSound ==
    ASSUME NEW m \in Contract, NEW last \in Nat, m.run \in 0 .. last,
           NEW o \in FailureOutcomes, NEW f, Sound(f, last)
    PROVE  Sound(Saved(f, Failed(m, o)), last) /\ ~InFlight(Saved(f, Failed(m, o)))
  <1>1. Sound(Failed(m, o), last)
    BY FailsClosed DEF Sound
  <1>2. Failed(m, o).phase = "done"
    BY Failures, FailedParts
  <1> QED BY <1>1, <1>2, SavedSound, SavedParts DEF InFlight

LEMMA ParentSerial ==
    ASSUME TypeInv, SerialInv, ParentStep \/ BootstrapBlocked
    PROVE  SerialInv' /\ Lawful
  <1> USE DEF ParentOnly, files
  <1>0. /\ st \in Contract /\ nrun \in Nat /\ nrun \in Runs /\ card \in Card
        /\ fix \in FixList /\ par \in Parent /\ par.mem \in Contract
        /\ kid \in [Slots -> Kid]
        /\ Sound(st, nrun) /\ Held(par, st, card, nrun) /\ FixReady(st, fix)
        /\ Stages(kid, st, par, fix) /\ Alone(kid, par)
    BY DEF SerialInv, TypeInv, TypeOK, Parent, Runs
  <1>a. /\ st.run \in 0 .. nrun
        /\ InFlight(st) => Open(st, nrun)
        /\ st = Blank \/ st.phase # "idle"
    BY <1>0, SoundParts
  <1>b. Blank \in Contract /\ Sound(Blank, nrun) /\ Blank.run = 0 /\ Blank.phase = "idle"
        /\ ~InFlight(Blank)
    BY BlankType DEF Sound, Blank, InFlight
  <1>c. {"blocked_dependencies", "invalid_resume_state", "state_task_mismatch",
         "max_rounds_exhausted", "single_round_failed", "interrupted"} \subseteq FailureOutcomes
    BY DEF FailureOutcomes
  <1>1. CASE ResumeRefused
    <2>1. /\ par.pc = "resume" /\ st.phase = "done" /\ UNCHANGED <<st, fix, nrun, kid>>
          /\ SetBusCard(IF TerminalSuccess(st) THEN "done" ELSE "blocked")
          /\ par' = Gone(IF TerminalSuccess(st) THEN 0 ELSE 3)
      BY <1>1 DEF ResumeRefused, SetCards
    <2>2. card # NoCard
      BY <1>0, <1>b, <2>1 DEF Held
    <2>3. ExitZeroIsSuccess'
      <3>1. CASE TerminalSuccess(st)
        <4>1. card'.status = "done"
          BY <1>0, <2>1, <2>2, <3>1, MarkedCard
        <4> QED BY <2>1, <3>1, <4>1 DEF ExitZeroIsSuccess, TerminalSuccess
      <3>2. CASE ~TerminalSuccess(st)
        BY <2>1, <3>2, GoneHeld DEF ExitZeroIsSuccess
      <3> QED BY <3>1, <3>2
    <2> QED BY <1>0, <2>1, <2>3, ParentMoves, GoneHeld, Stutters
  <1>2. CASE Decide
    <2>1. /\ par.pc = "start" /\ par' = [par EXCEPT !.pc = "resume", !.resume = TRUE]
          /\ UNCHANGED <<st, fix, nrun, kid, card>>
      BY <1>2 DEF Decide
    <2>2. /\ par'.pc = "resume" /\ par'.intr = par.intr /\ par'.task = par.task
      BY <1>0, <2>1 DEF Parent
    <2>3. Held(par', st', card', nrun') /\ ExitZeroIsSuccess'
      BY <1>0, <2>1, <2>2 DEF Held, ExitZeroIsSuccess, Finished
    <2> QED BY <1>0, <2>1, <2>2, <2>3, ParentMoves, Stutters
  <1>3. CASE Bootstrap
    <2> DEFINE m == Bootstrapped(StartState, par.task, nrun + 1)
    <2>1. /\ par.pc = "start" /\ card # NoCard /\ nrun < MaxRuns /\ nrun' = nrun + 1
          /\ st' = Saved(StartState, m) /\ UNCHANGED <<card, kid>>
          /\ par' = [par EXCEPT !.pc = "mark", !.run = nrun + 1, !.round = 1, !.mem = m]
      BY <1>3 DEF Bootstrap, StartsFresh
    <2>2. /\ StartState \in Contract /\ StartState.run \in 0 .. nrun
          /\ nrun + 1 \in Runs /\ nrun' \in Nat /\ par.task \in Tasks
          /\ nrun + 1 \in 1 .. nrun'
      <3>1. StartState \in Contract /\ StartState.run \in 0 .. nrun
        BY <1>0, <1>a, <1>b DEF StartState
      <3>2. nrun + 1 \in Runs /\ nrun' \in Nat /\ nrun + 1 \in 1 .. nrun'
        BY <1>0, <2>1 DEF Runs
      <3>3. par.task \in Tasks
        BY <1>0, <2>1 DEF Held, Parent
      <3> QED BY <3>1, <3>2, <3>3
    <2>3. m \in Contract /\ m.outcome = "none" /\ m.round = 1 /\ m.phase = "awaiting_work"
          /\ m.task = par.task /\ m.run = nrun + 1
      BY <2>2, BootstrappedType, BootstrappedParts
    <2>4. Open(m, nrun')
      BY <2>2, BeginsOpen
    <2> HIDE DEF m
    <2>5. st' = m
      <3>1. StartState.run # m.run
        BY <1>0, <2>2, <2>3
      <3> QED BY <2>1, <3>1 DEF Saved, SameContract
    <2>6. /\ par'.pc = "mark" /\ par'.run = nrun + 1 /\ par'.round = 1 /\ par'.mem = m
          /\ par'.task = par.task /\ par'.intr = par.intr
      BY <1>0, <2>1 DEF Parent
    <2>7. Held(par', st', card', nrun') /\ ExitZeroIsSuccess'
      BY <1>0, <2>1, <2>3, <2>4, <2>5, <2>6 DEF Held, Turn, ExitZeroIsSuccess, Finished
    <2>8. FixReady(st', fix')
      BY <2>3, <2>5 DEF FixReady
    <2>9. Sound(st', nrun')
      BY <2>4, <2>5 DEF Sound
    <2>10. Lawful
      BY <2>1, <2>3, <2>5, Begins
    <2> QED BY <2>1, <2>6, <2>7, <2>8, <2>9, <2>10, ParentMoves
  <1>4. CASE BootstrapBlocked
    <2> DEFINE b == BlockedByDependencies(StartState, par.task, 1)
               m == Failed(b, "blocked_dependencies")
    <2>1. /\ par.pc = "start" /\ st' = Saved(StartState, m) /\ UNCHANGED <<card, kid, nrun>>
          /\ InFlight(st) => CleansStale
          /\ par' = [par EXCEPT !.pc = "failing", !.mem = m, !.rc = 3]
      BY <1>4 DEF BootstrapBlocked, StartsFresh
    <2>2. StartState \in Contract /\ Sound(StartState, nrun) /\ StartState.run \in 0 .. nrun
      BY <1>0, <1>a, <1>b DEF StartState
    <2>3. /\ b \in Contract /\ b.run = StartState.run
          /\ b.round = IF StartState.round < 1 THEN 1 ELSE StartState.round
      <3>1. b \in Contract
        BY <1>0, <2>2, BlockedType DEF Parent
      <3>2. /\ b.run = StartState.run
            /\ b.round = IF StartState.round < 1 THEN 1 ELSE StartState.round
        BY <2>2 DEF BlockedByDependencies, Contract
      <3> QED BY <3>1, <3>2
    <2> HIDE DEF b
    <2>4. /\ m.phase = "done" /\ m.outcome = "blocked_dependencies"
          /\ m.run = b.run /\ m.round = b.round
      BY <1>c, <2>3, Failures, FailedType, FailedParts
    <2>5. Sound(st', nrun) /\ ~InFlight(st')
      BY <1>0, <1>c, <2>1, <2>2, <2>3, FailsSound
    <2> HIDE DEF m
    <2>6. /\ st'.phase = "done" /\ st'.outcome = "blocked_dependencies"
          /\ st'.run = b.run /\ st'.round = b.round
      BY <2>1, <2>4, SavedParts
    <2>7. Lawful
      <3>1. CASE CleansStale
        <4>1. st'.run = 0 /\ st'.round = 1
          BY <2>3, <2>6, <3>1 DEF StartState, Blank
        <4> QED BY <2>1, <2>6, <4>1, Refuses
      <3>2. CASE ~CleansStale
        <4>1. StartState = st /\ ~InFlight(st)
          BY <2>1, <3>2 DEF StartState
        <4> QED BY <2>1, <2>3, <2>6, <4>1, Refuses
      <3> QED BY <3>1, <3>2
    <2>8. par'.pc = "failing" /\ par'.rc = 3 /\ par'.intr = par.intr
      BY <1>0, <2>1 DEF Parent
    <2>9. Held(par', st', card', nrun') /\ ExitZeroIsSuccess'
      BY <1>0, <2>1, <2>8 DEF Held, ExitZeroIsSuccess, Finished
    <2>10. FixReady(st', fix')
      BY <2>5 DEF FixReady
    <2> QED BY <2>1, <2>5, <2>7, <2>8, <2>9, <2>10, ParentMoves
  <1>5. CASE BootstrapNoCard
    <2>1. par.pc = "start" /\ st = Blank /\ st' = Blank /\ par' = Gone(1)
          /\ UNCHANGED <<kid, nrun>>
      BY <1>0, <1>5 DEF BootstrapNoCard, StartsFresh, StartState, Held
    <2>2. ExitZeroIsSuccess'
      BY <2>1, GoneHeld DEF ExitZeroIsSuccess
    <2>3. FixReady(st', fix')
      BY <1>b, <2>1 DEF FixReady
    <2> QED BY <1>b, <2>1, <2>2, <2>3, ParentMoves, GoneHeld, Stutters
  <1>6. CASE Resume
    <2>1. par.pc = "resume" /\ st.phase # "done" /\ UNCHANGED <<card, fix, nrun, kid>>
      BY <1>6 DEF Resume
    <2>2. ASSUME NEW o \in FailureOutcomes, Fail(st, o, 3),
                 (o = "invalid_resume_state" /\ st.phase = "idle") \/ InFlight(st)
          PROVE  SerialInv' /\ Lawful
      <3> DEFINE m == Failed(st, o)
      <3>1. /\ st' = Saved(st, m)
            /\ par' = [par EXCEPT !.pc = "failing", !.mem = m, !.rc = 3]
        BY <2>2 DEF Fail
      <3>2. m.phase = "done" /\ m.outcome = o /\ m.run = st.run /\ m.round = st.round
        BY <1>0, Failures, FailedType, FailedParts
      <3>3. Sound(st', nrun) /\ ~InFlight(st')
        BY <1>0, <1>a, <3>1, FailsSound
      <3> HIDE DEF m
      <3>4. /\ st'.phase = "done" /\ st'.outcome = o /\ st'.run = st.run
            /\ st'.round = st.round
        BY <3>1, <3>2, SavedParts
      <3>5. Lawful
        BY <2>1, <2>2, <3>4, Refuses, Fails
      <3>6. par'.pc = "failing" /\ par'.rc = 3 /\ par'.intr = par.intr
        BY <1>0, <3>1 DEF Parent
      <3>7. Held(par', st', card', nrun') /\ ExitZeroIsSuccess'
        BY <1>0, <2>1, <3>6 DEF Held, ExitZeroIsSuccess, Finished
      <3>8. FixReady(st', fix')
        BY <3>3 DEF FixReady
      <3> QED BY <2>1, <3>3, <3>5, <3>6, <3>7, <3>8, ParentMoves
    <2>3. CASE st.task = NoTask \/ st.round < 1
      <3>1. Fail(st, "invalid_resume_state", 3)
        BY <1>6, <2>3 DEF Resume
      <3>2. ~Open(st, nrun)
        <4>1. st.round \in Int
          BY <1>0 DEF Contract, Rounds
        <4> QED BY <2>3, <4>1 DEF Open
      <3>3. st.phase = "idle"
        BY <1>0, <2>1, <3>2 DEF Sound, Closed, Blank
      <3> QED BY <1>c, <2>2, <3>1, <3>3
    <2>4. ASSUME ~(st.task = NoTask \/ st.round < 1) PROVE Open(st, nrun) /\ InFlight(st)
      BY <1>0, <2>1, <2>4 DEF Sound, Closed, Blank, Open
    <2>7. CASE ~(st.task = NoTask \/ st.round < 1) /\ card = NoCard
      <3>1. par' = Gone(1) /\ st' = st
        BY <1>6, <2>7 DEF Resume
      <3>2. ExitZeroIsSuccess'
        BY <3>1, GoneHeld DEF ExitZeroIsSuccess
      <3>3. FixReady(st', fix')
        BY <1>0, <2>1, <3>1
      <3> QED BY <1>0, <1>b, <2>1, <3>1, <3>2, <3>3, ParentMoves, GoneHeld, Stutters
    <2>5. CASE ~(st.task = NoTask \/ st.round < 1) /\ card # NoCard /\ card.task # st.task
      <3>1. Fail(st, "state_task_mismatch", 3)
        BY <1>6, <2>5 DEF Resume
      <3> QED BY <1>c, <2>2, <2>4, <2>5, <3>1
    <2>6. CASE ~(st.task = NoTask \/ st.round < 1) /\ card # NoCard /\ card.task = st.task
      <3> DEFINE m == Prepared(st, st.run, st.round)
      <3>1. /\ st' = Saved(st, m)
            /\ par' = [par EXCEPT !.pc = "mark", !.task = st.task,
                         !.run = st.run, !.round = st.round, !.mem = m]
        BY <1>6, <2>6 DEF Resume
      <3>2. Open(st, nrun) /\ InFlight(st) /\ st.run \in Runs /\ st.round \in Rounds
        BY <1>0, <2>4, <2>6 DEF Contract
      <3>3. /\ m \in Contract /\ m.outcome = "none" /\ m.round = st.round
            /\ m.phase = "awaiting_work" /\ m.task = st.task /\ m.run = st.run
        <4>1. st \in Contract
          BY <1>0
        <4> QED BY <3>2, <4>1, PreparedType, PreparedParts
      <3>4. Open(m, nrun)
        BY <1>0, <3>2, ReopensOpen
      <3> HIDE DEF m
      <3>5. /\ st'.phase = "awaiting_work" /\ st'.round = st.round /\ st'.run = st.run
            /\ st'.task = st.task /\ st'.outcome = "none" /\ Sound(st', nrun)
        BY <1>0, <3>1, <3>3, <3>4, SavedParts, SavedSound DEF Sound
      <3>6. /\ par'.pc = "mark" /\ par'.run = st.run /\ par'.round = st.round
            /\ par'.mem = m /\ par'.task = st.task /\ par'.intr = par.intr
        BY <1>0, <3>1 DEF Parent
      <3>7. card # NoCard
        BY <2>6 DEF NoCard
      <3>8. Held(par', st', card', nrun') /\ ExitZeroIsSuccess'
        BY <1>0, <2>1, <3>3, <3>4, <3>5, <3>6, <3>7
           DEF Held, Turn, ExitZeroIsSuccess, Finished
      <3>9. FixReady(st', fix')
        BY <1>0, <2>1, <3>2, <3>5 DEF FixReady
      <3>10. Lawful
        BY <2>1, <3>2, <3>5, Reopens DEF Open
      <3> QED BY <2>1, <3>5, <3>6, <3>8, <3>9, <3>10, ParentMoves
    <2> QED BY <2>3, <2>5, <2>6, <2>7
  <1>7. CASE MarkInProgress
    <2>1. /\ par.pc = "mark" /\ SetBusCard("in_progress") /\ UNCHANGED <<st, fix, nrun, kid>>
          /\ par' = Gone(3) \/ par' = [par EXCEPT !.pc = "loop"]
      BY <1>7 DEF MarkInProgress, SetCards
    <2>2. card' # NoCard
      BY <1>0, <2>1, MarkedCard DEF Held
    <2>3. Held(par', st', card', nrun') /\ par'.pc # "wait" /\ ExitZeroIsSuccess'
      <3>1. CASE par' = Gone(3)
        BY <3>1, GoneHeld DEF ExitZeroIsSuccess
      <3>2. CASE par' = [par EXCEPT !.pc = "loop"]
        <4>1. /\ par'.pc = "loop" /\ par'.run = par.run /\ par'.round = par.round
              /\ par'.mem = par.mem /\ par'.task = par.task /\ par'.intr = par.intr
          BY <1>0, <3>2 DEF Parent
        <4> QED BY <1>0, <2>1, <2>2, <4>1 DEF Held, Turn, ExitZeroIsSuccess, Finished
      <3> QED BY <2>1, <3>1, <3>2
    <2> QED BY <1>0, <2>1, <2>3, ParentMoves, Stutters
  <1>8. ASSUME NEW s \in Slots, SpawnRound(s) PROVE SerialInv' /\ Lawful
    <2>1. par.pc = "loop" /\ UNCHANGED <<st, card, fix, nrun>>
      BY <1>8 DEF SpawnRound
    <2>2. CASE StateForeign
      <3>1. par' = Gone(3) /\ UNCHANGED kid
        BY <1>8, <2>2 DEF SpawnRound
      <3>2. ExitZeroIsSuccess'
        BY <3>1, GoneHeld DEF ExitZeroIsSuccess
      <3> QED BY <1>0, <2>1, <3>1, <3>2, ParentMoves, GoneHeld, Stutters
    <2>3. CASE ~StateForeign
      <3> DEFINE k == [Free EXCEPT !.pc = "begin", !.round = par.round]
      <3>1. par' = [par EXCEPT !.pc = "wait"] /\ kid' = [kid EXCEPT ![s] = k]
        BY <1>8, <2>3 DEF SpawnRound
      <3>2. k.pc = "begin" /\ k.round = par.round /\ ~k.orphan
        BY DEF Free
      <3> HIDE DEF k
      <3>3. /\ par'.pc = "wait" /\ par'.run = par.run /\ par'.round = par.round
            /\ par'.mem = par.mem /\ par'.task = par.task /\ par'.intr = par.intr
        BY <1>0, <3>1 DEF Parent
      <3>4. \A q \in Slots : kid[q] = Free
        BY <1>0, <2>1 DEF Alone
      <3>5. kid'[s] = k /\ \A q \in Slots \ {s} : kid'[q] = Free
        BY <1>0, <3>1, <3>4
      <3>6. Alone(kid', par')
        <4>1. Free.pc = "free"
          BY DEF Free
        <4>2. \A q \in Slots : kid'[q].pc # "free" => q = s /\ ~kid'[q].orphan
          BY <3>2, <3>5, <4>1
        <4>3. \A q \in Slots : kid'[q].pc = "free" => kid'[q] = Free
          BY <3>2, <3>5
        <4> QED BY <3>3, <4>2, <4>3 DEF Alone
      <3>7. Stage(k, st, par', fix)
        BY <1>0, <2>1, <3>2, <3>3 DEF Stage, ToWork, ToReview, Copied, Held, Turn
      <3>8. Stages(kid', st', par', fix')
        BY <2>1, <3>5, <3>7 DEF Stages, Free
      <3>9. Held(par', st', card', nrun') /\ ExitZeroIsSuccess'
        BY <1>0, <2>1, <3>3 DEF Held, Turn, ExitZeroIsSuccess, Finished
      <3> QED BY <1>0, <2>1, <3>6, <3>8, <3>9, Stutters DEF SerialInv
    <2> QED BY <2>2, <2>3
  <1>9. CASE StopOnInterrupt
    <2>1. /\ par.pc = "loop" /\ par.intr /\ par' = [par EXCEPT !.pc = "interrupted"]
          /\ UNCHANGED <<st, card, fix, nrun, kid>>
      BY <1>9 DEF StopOnInterrupt
    <2>2. par'.pc = "interrupted"
      BY <1>0, <2>1 DEF Parent
    <2>3. Held(par', st', card', nrun') /\ ExitZeroIsSuccess'
      BY <1>0, <2>1, <2>2 DEF Held, ExitZeroIsSuccess, Finished
    <2> QED BY <1>0, <2>1, <2>2, <2>3, ParentMoves, Stutters
  <1>10. CASE MaxRoundsExhausted
    <2>1. par.pc = "loop" /\ UNCHANGED <<card, fix, nrun, kid>> /\ InFlight(st)
      BY <1>0, <1>10 DEF MaxRoundsExhausted, Held, Turn, InFlight
    <2>2. CASE Allowed(st, "max_rounds_exhausted")
      <3> DEFINE m == Moved(st, "max_rounds_exhausted")
      <3>1. st' = Saved(st, m) /\ par' = [par EXCEPT !.pc = "blocking", !.rc = 2]
        BY <1>10, <2>2 DEF MaxRoundsExhausted
      <3>2. /\ m.phase = "done" /\ m.run = st.run /\ m.round = st.round
            /\ m.outcome \in FailureOutcomes /\ Closed(m, nrun)
        BY <1>0, <1>a, TimedOutParts, TimesOutClosed
      <3> HIDE DEF m
      <3>3. /\ st'.phase = "done" /\ st'.run = st.run /\ st'.round = st.round
            /\ st'.outcome \in FailureOutcomes /\ Sound(st', nrun)
        BY <1>0, <3>1, <3>2, SavedParts, SavedSound DEF Sound
      <3>4. par'.pc = "blocking" /\ par'.rc = 2 /\ par'.intr = par.intr
        BY <1>0, <3>1 DEF Parent
      <3>5. Held(par', st', card', nrun') /\ ExitZeroIsSuccess'
        BY <1>0, <2>1, <3>4 DEF Held, ExitZeroIsSuccess, Finished
      <3>6. FixReady(st', fix')
        BY <3>3 DEF FixReady, InFlight
      <3> QED BY <2>1, <3>3, <3>4, <3>5, <3>6, ParentMoves, Fails
    <2>3. CASE ~Allowed(st, "max_rounds_exhausted")
      <3>1. par' = Gone(5) /\ UNCHANGED st
        BY <1>10, <2>3 DEF MaxRoundsExhausted
      <3>2. ExitZeroIsSuccess'
        BY <3>1, GoneHeld DEF ExitZeroIsSuccess
      <3> QED BY <1>0, <2>1, <3>1, <3>2, ParentMoves, GoneHeld, Stutters
    <2> QED BY <2>2, <2>3
  <1>11. ASSUME NEW s \in Slots,
                \/ ReapInterrupted(s) \/ ReapFailed(s) \/ ReapSuccess(s)
                \/ ReapNextRound(s) \/ ReapUnexpected(s)
         PROVE  SerialInv' /\ Lawful
    <2> DEFINE k == kid[s]
    <2>1. /\ Reap(s) /\ par.pc = "wait" /\ k.pc = "exited" /\ UNCHANGED <<fix, nrun>>
      BY <1>11 DEF ReapInterrupted, ReapFailed, ReapSuccess, ReapNextRound,
                   ReapUnexpected, Reap
    <2>2. /\ Stage(k, st, par, fix) /\ card # NoCard
          /\ Open(par.mem, nrun) /\ Turn(par.mem, par)
      BY <1>0, <2>1 DEF Stages, Held
    <2> HIDE DEF k
    <2>3. CASE ReapInterrupted(s)
      <3>1. par.intr /\ par' = [par EXCEPT !.pc = "interrupted"] /\ UNCHANGED <<st, card>>
        BY <2>3 DEF ReapInterrupted
      <3>2. par'.pc = "interrupted"
        BY <1>0, <3>1 DEF Parent
      <3>3. Held(par', st', card', nrun) /\ ExitZeroIsSuccess'
        BY <1>0, <3>1, <3>2 DEF Held, ExitZeroIsSuccess, Finished
      <3> QED BY <1>0, <2>1, <3>1, <3>2, <3>3, ReapMoves, Stutters
    <2>4. CASE ReapFailed(s)
      <3> DEFINE m == Failed(par.mem, "single_round_failed")
      <3>1. /\ ~par.intr /\ k.rc # 0 /\ UNCHANGED card /\ st' = Saved(st, m)
            /\ par' = [par EXCEPT !.pc = "failing", !.mem = m, !.rc = 3]
        BY <2>4 DEF ReapFailed, Fail, k
      <3>2. /\ m.phase = "done" /\ m.outcome = "single_round_failed"
            /\ m.run = par.run /\ m.round = par.round
        BY <1>0, <1>c, <2>2, Failures, FailedType, FailedParts DEF Turn
      <3>3. Sound(st', nrun) /\ ~InFlight(st')
        <4>1. par.mem.run \in 0 .. nrun
          BY <1>0, <2>2 DEF Open
        <4> QED BY <1>0, <1>c, <3>1, <4>1, FailsSound
      <3> HIDE DEF m
      <3>4. /\ st'.phase = "done" /\ st'.outcome \in FailureOutcomes /\ st'.run = par.run
            /\ st'.round = par.round
        BY <1>c, <3>1, <3>2, SavedParts
      <3>5. Lawful
        <4>1. CASE "child" \in Faults
          BY <4>1 DEF Lawful, Overruled
        <4>2. CASE "child" \notin Faults
          <5>1. /\ st.run = par.run /\ st.round = par.round
                /\ InFlight(st) \/ st.outcome \in FailureOutcomes
            BY <2>1, <2>2, <3>1, <4>2 DEF Stage
          <5>2. CASE InFlight(st)
            BY <2>1, <3>4, <5>1, <5>2, Fails
          <5>3. CASE st.outcome \in FailureOutcomes
            BY <1>0, <2>1, <3>4, <5>1, <5>3, SoundFields, Renames
          <5> QED BY <5>1, <5>2, <5>3
        <4> QED BY <4>1, <4>2
      <3>6. par'.pc = "failing" /\ par'.rc = 3 /\ par'.intr = par.intr
        BY <1>0, <3>1 DEF Parent
      <3>7. Held(par', st', card', nrun) /\ ExitZeroIsSuccess'
        BY <1>0, <3>1, <3>6 DEF Held, ExitZeroIsSuccess, Finished
      <3>8. FixReady(st', fix)
        BY <3>3 DEF FixReady
      <3> QED BY <1>0, <2>1, <3>3, <3>5, <3>6, <3>7, <3>8, ReapMoves
    <2>5. CASE ReapSuccess(s)
      <3>1. TerminalSuccess(st) /\ SetBusCard("done") /\ par' = Gone(0) /\ UNCHANGED st
        BY <2>5 DEF ReapSuccess, SetCards
      <3>2. card'.status = "done"
        BY <1>0, <2>2, <3>1, MarkedCard
      <3>3. ExitZeroIsSuccess'
        BY <3>1, <3>2 DEF ExitZeroIsSuccess, TerminalSuccess
      <3> QED BY <1>0, <2>1, <3>1, <3>3, ReapMoves, GoneHeld, Stutters
    <2>6. CASE ReapNextRound(s)
      <3>1. /\ SameRun /\ AwaitingNext(st, par.round) /\ UNCHANGED <<st, card>>
            /\ par' = [par EXCEPT !.pc = "loop", !.round = par.round + 1, !.mem = st]
        BY <2>6 DEF ReapNextRound
      <3>2. Open(st, nrun)
        BY <1>a, <3>1 DEF AwaitingNext, InFlight
      <3>3. /\ par'.pc = "loop" /\ par'.run = par.run /\ par'.round = par.round + 1
            /\ par'.mem = st /\ par'.task = par.task /\ par'.intr = par.intr
        BY <1>0, <3>1 DEF Parent
      <3>4. Turn(st, par')
        BY <3>1, <3>3 DEF Turn, SameRun, AwaitingNext
      <3>5. Held(par', st', card', nrun) /\ ExitZeroIsSuccess'
        BY <1>0, <2>2, <3>1, <3>2, <3>3, <3>4 DEF Held, ExitZeroIsSuccess, Finished
      <3> QED BY <1>0, <2>1, <3>1, <3>3, <3>5, ReapMoves, Stutters
    <2>7. CASE ReapUnexpected(s)
      <3>1. ~(SameRun /\ (TerminalSuccess(st) \/ AwaitingNext(st, par.round))) /\ k.rc = 0
        BY <2>7 DEF ReapUnexpected, k
      <3> QED BY <2>1, <2>2, <3>1 DEF Stage, SameRun
    <2> QED BY <1>11, <2>3, <2>4, <2>5, <2>6, <2>7
  <1>12. CASE FailInterrupted
    <2> DEFINE m == Failed(st, "interrupted")
    <2>1. /\ par.pc = "interrupted" /\ st' = Saved(st, m) /\ UNCHANGED <<card, fix, nrun, kid>>
          /\ par' = [par EXCEPT !.pc = "failing", !.mem = m, !.rc = 130]
      BY <1>12 DEF FailInterrupted, Fail
    <2>2. m.phase = "done" /\ m.run = st.run /\ m.round = st.round
      BY <1>0, <1>c, Failures, FailedType, FailedParts
    <2>3. Sound(st', nrun) /\ ~InFlight(st')
      BY <1>0, <1>a, <1>c, <2>1, FailsSound
    <2> HIDE DEF m
    <2>4. st'.run = st.run /\ st'.round = st.round
      BY <2>1, <2>2, SavedParts
    <2>5. Lawful
      BY <1>0, <2>1, <2>4 DEF Held, Lawful, Overruled
    <2>6. par'.pc = "failing" /\ par'.rc = 130 /\ par'.intr = par.intr
      BY <1>0, <2>1 DEF Parent
    <2>7. Held(par', st', card', nrun') /\ ExitZeroIsSuccess'
      BY <1>0, <2>1, <2>6 DEF Held, ExitZeroIsSuccess, Finished
    <2>8. FixReady(st', fix')
      BY <2>3 DEF FixReady
    <2> QED BY <2>1, <2>3, <2>5, <2>6, <2>7, <2>8, ParentMoves
  <1>13. CASE FailTail \/ BlockTail
    <2>1. /\ par.pc \in {"failing", "blocking"} /\ par' = Gone(par.rc)
          /\ UNCHANGED <<st, fix, nrun, kid>>
      BY <1>13 DEF FailTail, BlockTail
    <2>2. ExitZeroIsSuccess'
      BY <1>0, <2>1, GoneHeld DEF Held, ExitZeroIsSuccess
    <2> QED BY <1>0, <2>1, <2>2, ParentMoves, GoneHeld, Stutters
  <1> QED BY <1>1, <1>2, <1>3, <1>4, <1>5, <1>6, <1>7, <1>8, <1>9, <1>10,
             <1>11, <1>12, <1>13 DEF ParentStep

-----------------------------------------------------------------------------
(* The rest of the system.                                                 *)

LEMMA OperatorSerial ==
    ASSUME TypeInv, SerialInv, Operator
    PROVE  SerialInv' /\ Lawful
  <1>1. PICK t \in Tasks, ext \in External, f \in Flags, dirty \in BOOLEAN :
           Invoke(t, ext, f, dirty)
    BY DEF Operator
  <1>2. /\ par.pc = "none" /\ UNCHANGED <<kid, nrun>>
        /\ st' = Blank \/ UNCHANGED <<st, fix>>
    <2>1. CASE f.reset
      BY <1>1, <2>1 DEF Invoke, ParentOnly
    <2>2. CASE ~f.reset
      BY <1>1, <2>2 DEF Invoke, ParentOnly
    <2> QED BY <2>1, <2>2
  <1>3. par' = Gone(4) \/ par' = [Gone(0) EXCEPT !.pc = IF f.resume THEN "resume" ELSE "start",
                                                 !.ext = ext, !.resume = f.resume,
                                                 !.clean = f.clean, !.task = t]
    <2>1. CASE dirty
      BY <1>1, <2>1 DEF Invoke
    <2>2. CASE ~dirty
      BY <1>1, <2>2 DEF Invoke
    <2> QED BY <2>1, <2>2
  <1>4. card' # NoCard \/ st' = Blank
    <2>1. CASE ext
      <3>1. card' = [task |-> t, status |-> src[t]]
        BY <1>1, <2>1 DEF Invoke
      <3> QED BY <3>1 DEF NoCard
    <2>2. CASE ~ext /\ f.reset
      BY <1>1, <2>2 DEF Invoke
    <2>3. CASE ~ext /\ ~f.reset
      <3>1. card' = card /\ card.task = t
        BY <1>1, <2>3 DEF Invoke
      <3> QED BY <3>1 DEF NoCard
    <2> QED BY <2>1, <2>2, <2>3
  <1>5. nrun \in Nat /\ Sound(st, nrun) /\ FixReady(st, fix)
    BY DEF TypeInv, TypeOK, Runs, SerialInv
  <1>6. Sound(st', nrun') /\ FixReady(st', fix')
    BY <1>2, <1>5 DEF Sound, FixReady, Blank, InFlight
  <1>7. Held(par', st', card', nrun') /\ par'.pc # "wait" /\ ExitZeroIsSuccess'
    <2>1. CASE par' = Gone(4)
      BY <2>1, GoneHeld DEF ExitZeroIsSuccess
    <2>2. CASE par' # Gone(4)
      <3>1. par'.pc \in {"resume", "start"} /\ par'.task = t /\ ~par'.intr
        BY <1>3, <2>2 DEF Gone
      <3> QED BY <1>4, <3>1 DEF Held, ExitZeroIsSuccess, Finished
    <2> QED BY <2>1, <2>2
  <1>8. SerialInv'
    BY <1>2, <1>6, <1>7, ParentMoves
  <1>9. Lawful
    BY <1>2, Stutters, Forgets
  <1> QED BY <1>8, <1>9

LEMMA FaultSerial ==
    ASSUME "parent" \notin Faults, TypeInv, SerialInv, Environment
    PROVE  SerialInv' /\ Lawful
  <1>1. CASE HostCrash
    <2>1. /\ UNCHANGED <<st, card, fix, nrun>> /\ par' = Gone(137)
          /\ kid' = [s \in Slots |-> Free]
      BY <1>1 DEF HostCrash, Fault, files
    <2>2. Alone(kid', par') /\ Stages(kid', st', par', fix')
      <3>1. Free.pc = "free"
        BY DEF Free
      <3> QED BY <2>1, <3>1 DEF Alone, Stages
    <2>3. ExitZeroIsSuccess'
      BY <2>1, GoneHeld DEF ExitZeroIsSuccess
    <2> QED BY <2>1, <2>2, <2>3, GoneHeld, Stutters DEF SerialInv
  <1>2. CASE Interrupt
    <2>1. /\ "interrupt" \in Faults /\ par' = [par EXCEPT !.intr = TRUE]
          /\ UNCHANGED <<st, card, fix, nrun, kid>> /\ par.pc \in {"loop", "wait"}
      BY <1>2 DEF Interrupt, Fault, files
    <2>2. /\ par'.pc = par.pc /\ par'.run = par.run /\ par'.round = par.round
          /\ par'.mem = par.mem /\ par'.task = par.task /\ par'.intr
      BY <2>1 DEF TypeInv, TypeOK, Parent
    <2>3. Held(par', st', card', nrun') /\ Alone(kid', par') /\ ExitZeroIsSuccess'
      BY <2>1, <2>2 DEF SerialInv, Held, Alone, Turn, ExitZeroIsSuccess, Finished
    <2>4. ASSUME NEW k, Stage(k, st, par, fix) PROVE Stage(k, st, par', fix)
      BY <2>2, <2>4 DEF Stage, Turn
    <2>5. Stages(kid', st', par', fix')
      BY <2>1, <2>4 DEF SerialInv, Stages
    <2> QED BY <2>1, <2>3, <2>5, Stutters DEF SerialInv
  <1>3. ~ParentKilled
    BY DEF ParentKilled, Fault
  <1> QED BY <1>1, <1>2, <1>3, ChildSerial DEF Environment

LEMMA NothingSerial ==
    ASSUME SerialInv, UNCHANGED <<st, card, fix, par, kid, nrun, ninv>>
    PROVE  SerialInv' /\ Lawful
  BY Stutters DEF SerialInv, ExitZeroIsSuccess, Finished

LEMMA InitSerial == Init => SerialInv
  <1> SUFFICES ASSUME Init PROVE SerialInv
    OBVIOUS
  <1>1. Free.pc = "free"
    BY DEF Free
  <1>2. st = Blank /\ par = Gone(0) /\ ninv = 0 /\ \A s \in Slots : kid[s] = Free
    BY DEF Init
  <1>3. Alone(kid, par) /\ Stages(kid, st, par, fix)
    BY <1>1, <1>2 DEF Alone, Stages
  <1>4. Sound(st, nrun) /\ FixReady(st, fix)
    BY <1>2 DEF Sound, FixReady, Blank, InFlight
  <1> QED BY <1>2, <1>3, <1>4, GoneHeld DEF SerialInv, ExitZeroIsSuccess, Finished

LEMMA NextSerial ==
    ASSUME "parent" \notin Faults, TypeInv, SerialInv, [Next]_vars
    PROVE  SerialInv' /\ Lawful
  <1>1. CASE UNCHANGED vars \/ Quiescent
    BY <1>1, NothingSerial DEF Quiescent, vars, files
  <1>2. CASE Agents
    <2>1. UNCHANGED <<st, card, fix, par, kid, nrun, ninv>>
      BY <1>2 DEF Agents, DeliverWork, DeliverReview, AgentOnly
    <2> QED BY <2>1, NothingSerial
  <1> QED BY <1>1, <1>2, ParentSerial, ChildSerial, OperatorSerial, FaultSerial DEF Next

LEMMA SerialSpec ==
    ASSUME "parent" \notin Faults
    PROVE  Spec => [](TypeInv /\ SerialInv) /\ [][Lawful]_vars
  <1>1. Init => TypeInv /\ SerialInv
    BY InitTypes, InitSerial
  <1>2. TypeInv /\ SerialInv /\ [Next]_vars => (TypeInv /\ SerialInv)' /\ Lawful
    BY NextTypes, NextSerial
  <1> QED BY <1>1, <1>2, PTL DEF Spec

-----------------------------------------------------------------------------
(* The theorems.                                                           *)

(* No kill of a parent alone: `loop run` exits 0 only when it leaves a     *)
(* success and a card marked done, however often host, child and operator  *)
(* interrupt it.                                                           *)
THEOREM ExitZeroTrue ==
    ASSUME "parent" \notin Faults
    PROVE  Spec => []ExitZeroIsSuccess
  <1>1. SerialInv => ExitZeroIsSuccess
    BY DEF SerialInv
  <1> QED BY <1>1, SerialSpec, PTL

(* The audit trail of an approved run is whole.                            *)
THEOREM AuditTrailWhole ==
    ASSUME "parent" \notin Faults
    PROVE  Spec => []AuditTrailIsWhole
  <1>1. TypeInv /\ SerialInv => AuditTrailIsWhole
    <2> SUFFICES ASSUME TypeInv, SerialInv, st.outcome = "approved"
                 PROVE  ApprovedTrail(st)
      BY DEF AuditTrailIsWhole, ApprovedTrail
    <2>1. nrun \in Nat /\ Sound(st, nrun)
      BY DEF TypeInv, TypeOK, Runs, SerialInv
    <2> QED BY <2>1, SoundParts
  <1> QED BY <1>1, SerialSpec, PTL

(* The worker of a later round finds its fix list.                         *)
THEOREM FixListReady ==
    ASSUME "parent" \notin Faults
    PROVE  Spec => []FixListIsThere
  <1>1. SerialInv => FixListIsThere
    BY DEF SerialInv, FixReady, FixListIsThere, InFlight
  <1> QED BY <1>1, SerialSpec, PTL

(* The round of a run never goes back, as long as no child dies on its own *)
(* (the parent then writes the contract it held before the round).         *)
THEOREM RoundsOnlyAdvance ==
    ASSUME "parent" \notin Faults, "child" \notin Faults
    PROVE  Spec => RoundNeverRewinds
  <1>1. TypeInv /\ SerialInv /\ [Lawful]_vars =>
           [st.run # 0 /\ st'.run = st.run => st'.round >= st.round]_st
    <2> SUFFICES ASSUME TypeInv, SerialInv, Lawful, st.run # 0, st'.run = st.run
                 PROVE  st'.round >= st.round
      BY DEF vars, files
    <2>1. st.round \in Int /\ st.round >= 0 /\ nrun \in Nat /\ Sound(st, nrun)
      BY DEF TypeInv, TypeOK, Runs, Contract, Rounds, SerialInv
    <2>2. st.run \in 0 .. nrun
      BY <2>1, SoundParts
    <2>3. CASE Overruled
      BY <2>1, <2>3 DEF Overruled
    <2>4. CASE UNCHANGED Protocol!vars
      BY <2>1, <2>4 DEF Protocol!vars
    <2>5. CASE Protocol!Begin
      BY <2>1, <2>2, <2>5 DEF Protocol!Begin
    <2>6. CASE Protocol!Forget
      BY <2>6 DEF Protocol!Forget
    <2>7. CASE Protocol!Reopen \/ Protocol!Submit \/ Protocol!Retry \/ Protocol!Succeed
               \/ Protocol!Fail \/ Protocol!Rename
      BY <2>1, <2>7 DEF Protocol!Reopen, Protocol!Submit, Protocol!Retry,
           Protocol!Succeed, Protocol!Fail, Protocol!Rename
    <2>8. CASE Protocol!Refuse
      BY <2>1, <2>8 DEF Protocol!Refuse
    <2> QED BY <2>3, <2>4, <2>5, <2>6, <2>7, <2>8 DEF Lawful, Protocol!Next
  <1> QED BY <1>1, SerialSpec, PTL DEF RoundNeverRewinds

(* With no fault but a crash of the whole host, a success is final: only a *)
(* later command that finds its dependencies unmet may replace its name.   *)
THEOREM SuccessFinal ==
    ASSUME Faults \subseteq {"host"}
    PROVE  Spec => SuccessIsFinal
  <1>0. "parent" \notin Faults /\ "child" \notin Faults /\ "interrupt" \notin Faults
    OBVIOUS
  <1>1. TypeInv /\ SerialInv /\ [Lawful]_vars =>
           [st.outcome \in SuccessOutcomes /\ st'.run = st.run =>
               st'.outcome \in SuccessOutcomes \cup {"blocked_dependencies"}]_st
    <2> SUFFICES ASSUME TypeInv, SerialInv, Lawful, st.outcome \in SuccessOutcomes,
                        st'.run = st.run
                 PROVE  st'.outcome \in SuccessOutcomes \cup {"blocked_dependencies"}
      BY DEF vars, files
    <2>1. nrun \in Nat /\ Sound(st, nrun)
      BY DEF TypeInv, TypeOK, Runs, SerialInv
    <2>2. st.phase = "done" /\ st.run \in 1 .. nrun /\ st.outcome \notin FailureOutcomes
      <3>1. Closed(st, nrun)
        BY <2>1, SoundParts
      <3> QED BY <2>1, <3>1, Failures DEF Closed
    <2>3. [Protocol!Next]_(Protocol!vars)
      BY <1>0 DEF Lawful, Overruled
    <2>4. CASE UNCHANGED Protocol!vars
      BY <2>4 DEF Protocol!vars
    <2>5. CASE Protocol!Begin \/ Protocol!Forget
      BY <2>1, <2>2, <2>5 DEF Protocol!Begin, Protocol!Forget
    <2>6. CASE Protocol!Reopen \/ Protocol!Submit \/ Protocol!Retry \/ Protocol!Succeed
               \/ Protocol!Fail \/ Protocol!Rename
      BY <2>2, <2>6 DEF Protocol!Reopen, Protocol!Submit, Protocol!Retry,
           Protocol!Succeed, Protocol!Fail, Protocol!Rename, Protocol!InFlight
    <2>7. CASE Protocol!Refuse
      BY <2>2, <2>7 DEF Protocol!Refuse
    <2> QED BY <2>3, <2>4, <2>5, <2>6, <2>7 DEF Protocol!Next
  <1> QED BY <1>0, <1>1, SerialSpec, PTL DEF SuccessIsFinal

(* state.json, written by parents and children from the copies they hold,  *)
(* implements RoundProtocol, whatever crashes of the host come between.    *)
THEOREM ProtocolFollowed ==
    ASSUME Faults \subseteq {"host"}
    PROVE  Spec => FollowsProtocol
  <1>0. "parent" \notin Faults /\ "child" \notin Faults /\ "interrupt" \notin Faults
    OBVIOUS
  <1>1. Init => Protocol!Init
    BY DEF Init, Protocol!Init, Blank
  <1>2. [Lawful]_vars => [Protocol!Next]_(Protocol!vars)
    BY <1>0 DEF Lawful, Overruled, vars, files, Protocol!vars
  <1>3. Spec => Init
    BY DEF Spec
  <1> QED BY <1>0, <1>1, <1>2, <1>3, SerialSpec, PTL DEF FollowsProtocol, Protocol!Spec

-----------------------------------------------------------------------------
(* The files agree.                                                        *)

(* The summary a, if it is of m's run, tells how that ended.               *)
Told(a, m) == a.run = m.run /\ m.run # 0 => a.outcome = m.outcome /\ a.round = m.round

SummaryLate ==
    /\ summary.run <= nrun
    /\ InFlight(st) => summary.run # st.run

(* A child that has ended a run well has written its summary.              *)
Reported(k, m, a) ==
    /\ k.pc = "returning" \/ (k.pc = "exited" /\ k.rc = 0)
    /\ m.phase = "done"
    => Told(a, m)

(* What the parent p knows of state.json (m) and of the summary (a).       *)
Telling(p, m, a) ==
    /\ p.pc \in {"none", "start", "resume"} /\ m.phase = "done" => Told(a, m)
    /\ p.pc \in {"failing", "blocking"} => m.phase = "done" /\ m.outcome \in FailureOutcomes
    /\ p.pc = "failing" =>
          p.mem.outcome = m.outcome /\ p.mem.run = m.run /\ p.mem.round = m.round
    /\ p.pc = "blocking" => a.run # m.run

CardMarked ==
    Finished /\ st.phase = "done" /\ par.rc \in {0, 2, 3, 130} /\ card # NoCard =>
        card.status = IF st.outcome \in SuccessOutcomes THEN "done" ELSE "blocked"

FileInv ==
    /\ SummaryLate
    /\ \A s \in Slots : Reported(kid[s], st, summary)
    /\ Telling(par, st, summary)
    /\ CardMarked

LEMMA FileInvAgrees == FileInv => FilesAgree
  BY DEF FileInv, FilesAgree, Settled, Finished, CardMarked, Telling, Told

(* A step that moves one child, and one that does not bring it to the end  *)
(* of a run that went well.                                                *)
Moves(s) == \A q \in Slots : q # s => kid'[q] = kid[q]

GoesOn(s) ==
    /\ Moves(s)
    /\ kid'[s].pc # "returning" /\ (kid'[s].pc = "exited" => kid'[s].rc # 0)

(* A step of the child leaves the parent waiting.                          *)
LEMMA ChildFiles ==
    ASSUME SerialInv, NEW s \in Slots, Running(s), UNCHANGED <<par, nrun>>,
           Moves(s), Reported(kid'[s], st', summary'), SummaryLate'
    PROVE  FileInv'
  <1>1. kid \in [Slots -> Kid] /\ par.pc = "wait"
    BY RunningParts
  <1>2. \A q \in Slots : q # s => kid'[q].pc = "free"
    BY <1>1 DEF Running, SerialInv, Alone, Moves
  <1>4. \A q \in Slots : Reported(kid'[q], st', summary')
    BY <1>2 DEF Reported
  <1>5. Telling(par', st', summary') /\ CardMarked'
    BY <1>1 DEF Telling, CardMarked, Finished
  <1> QED BY <1>4, <1>5 DEF FileInv

(* Where a write of the contract leaves the child.                         *)
LEMMA WritesTo ==
    ASSUME NEW s \in Slots, kid \in [Slots -> Kid], NEW m, NEW pc,
           kid' = [kid EXCEPT ![s].mem = m, ![s].pc = pc]
    PROVE  Moves(s) /\ kid'[s].pc = pc
  <1>1. kid' = [kid EXCEPT ![s] = [kid[s] EXCEPT !.mem = m, !.pc = pc]]
    OBVIOUS
  <1>2. [kid[s] EXCEPT !.mem = m, !.pc = pc].pc = pc
    BY DEF Kid
  <1> QED BY <1>1, <1>2 DEF Moves

LEMMA FailsTo ==
    ASSUME NEW s \in Slots, kid \in [Slots -> Kid], NEW m, NEW o, KidFail(s, m, o)
    PROVE  Moves(s) /\ kid'[s].pc = "failing"
  <1>1. kid' = [kid EXCEPT ![s] = [kid[s] EXCEPT !.mem = Failed(m, o),
                                       !.pc = "failing", !.rc = 3]]
    BY DEF KidFail
  <1>2. [kid[s] EXCEPT !.mem = Failed(m, o), !.pc = "failing", !.rc = 3].pc = "failing"
    BY DEF Kid
  <1> QED BY <1>1, <1>2 DEF Moves

LEMMA TimesOutTo ==
    ASSUME NEW s \in Slots, kid \in [Slots -> Kid], NEW pc, NEW a, NEW t,
           TimedOut(s, pc, a, t)
    PROVE  Moves(s) /\ kid[s].pc = pc /\ kid'[s].pc = "blocking"
  <1> DEFINE m == Moved(kid[s].mem, t)
  <1>1. kid' = [kid EXCEPT ![s] = [kid[s] EXCEPT !.mem = m, !.pc = "blocking", !.rc = 2]]
    BY DEF TimedOut
  <1>2. [kid[s] EXCEPT !.mem = m, !.pc = "blocking", !.rc = 2].pc = "blocking"
    BY DEF Kid
  <1> QED BY <1>1, <1>2 DEF Moves, TimedOut, At

LEMMA ChildWritesFiles ==
    ASSUME TypeInv, TypeInv', SerialInv, SerialInv', FileInv, NEW s \in Slots,
           KidStep(s) \/ KidTrouble(s) \/ ChildDies(s)
    PROVE  FileInv'
  <1> USE DEF KidOnly
  <1>1. Running(s)
    BY ChildRuns
  <1>2. /\ st \in Contract /\ st' \in Contract /\ nrun \in Nat /\ par.pc = "wait"
        /\ kid \in [Slots -> Kid] /\ kid[s] \in Kid /\ kid' \in [Slots -> Kid]
        /\ Stage(kid[s], st, par, fix) /\ ~kid[s].orphan /\ Sound(st, nrun)
    BY <1>1, RunningParts DEF TypeInv, TypeOK
  <1>3. UNCHANGED par
    <2>1. CASE KidStep(s)
      BY <2>1 DEF KidStep, LoadRound, BootstrapRound, PrepareRound, DispatchWorker,
           RejectWork, AcceptWork, AcceptNoChange, RefuseNoChange, WriteRequest,
           DispatchReviewer, WorkerTimeout, ReviewerTimeout, TimedOut, RejectReview,
           AcceptApproval, AcceptChanges, TakeReview, Approve, MarkDone, WriteSummary,
           WriteFixList, AdvanceRound, Return, KidFailTail, KidBlockTail
    <2>2. CASE KidTrouble(s) \/ ChildDies(s)
      BY <2>2 DEF KidTrouble, LoadBlocked, RefusePatch, DispatchFailed,
           ChildTerminated, OrphanDies, ChildDies
    <2> QED BY <2>1, <2>2
  (* Where a step that is not one of three to be looked at leaves the child. *)
  <1>4. \/ WriteSummary(s) \/ AdvanceRound(s) \/ Return(s)
        \/ GoesOn(s)
    <2>1. ASSUME NEW rc, Exit(s, rc), rc # 0  PROVE GoesOn(s)
      <3>1. kid' = [kid EXCEPT ![s] = Ended(s, rc)]
        BY <2>1 DEF Exit
      <3>2. Ended(s, rc).pc # "returning" /\ Ended(s, rc).rc = rc
        BY <1>2 DEF Ended, Free
      <3> QED BY <1>2, <2>1, <3>1, <3>2 DEF GoesOn, Moves
    <2>2. ASSUME NEW pc, Goto(s, pc), pc \notin {"returning", "exited"}  PROVE GoesOn(s)
      <3>1. kid' = [kid EXCEPT ![s] = [kid[s] EXCEPT !.pc = pc]]
        BY <1>2, <2>2 DEF Goto
      <3>2. [kid[s] EXCEPT !.pc = pc].pc = pc
        BY <1>2 DEF Kid
      <3> QED BY <1>2, <2>2, <3>1, <3>2 DEF GoesOn, Moves
    <2>3. ASSUME NEW m, NEW pc, kid' = [kid EXCEPT ![s].mem = m, ![s].pc = pc],
                 pc \notin {"returning", "exited"}
          PROVE  GoesOn(s)
      BY <1>2, <2>3, WritesTo DEF GoesOn
    <2>4. CASE LoadRound(s)
      <3>1. CASE card = NoCard \/ StaleArtifacts(st)
        <4>1. Exit(s, 1) \/ Exit(s, 3)
          BY <2>4, <3>1 DEF LoadRound
        <4> QED BY <2>1, <4>1
      <3>2. CASE ~(card = NoCard \/ StaleArtifacts(st))
        <4>1. kid' = [kid EXCEPT ![s] = [kid[s] EXCEPT !.mem = st, !.pc = "loaded"]]
          BY <1>2, <2>4, <3>2 DEF LoadRound
        <4>2. [kid[s] EXCEPT !.mem = st, !.pc = "loaded"].pc = "loaded"
          BY <1>2 DEF Kid
        <4> QED BY <1>2, <4>1, <4>2 DEF GoesOn, Moves
      <3> QED BY <3>1, <3>2
    <2>5. ASSUME NEW m, NEW o, KidFail(s, m, o)  PROVE GoesOn(s)
      BY <1>2, <2>5, FailsTo DEF GoesOn
    <2>6. CASE \/ LoadBlocked(s) \/ RejectWork(s) \/ RefuseNoChange(s) \/ DispatchFailed(s)
               \/ RejectReview(s)
      <3>1. \E m, o : KidFail(s, m, o)
        <4>1. CASE LoadBlocked(s)
          BY <4>1 DEF LoadBlocked
        <4>2. CASE RejectWork(s)
          BY <4>2 DEF RejectWork
        <4>3. CASE RefuseNoChange(s)
          BY <4>3 DEF RefuseNoChange
        <4>4. CASE DispatchFailed(s)
          BY <4>4 DEF DispatchFailed
        <4>5. CASE RejectReview(s)
          BY <4>5 DEF RejectReview
        <4> QED BY <2>6, <4>1, <4>2, <4>3, <4>4, <4>5
      <3> QED BY <2>5, <3>1
    <2>7. CASE \/ RefusePatch(s) \/ ChildTerminated(s) \/ OrphanDies(s) \/ ChildDies(s)
      BY <2>1, <2>7 DEF RefusePatch, ChildTerminated, OrphanDies, ChildDies
    <2>8. CASE KidFailTail(s) \/ KidBlockTail(s)
      <3>1. kid[s].rc # 0 /\ Exit(s, kid[s].rc)
        BY <1>2, <2>8 DEF KidFailTail, KidBlockTail, At, Stage
      <3> QED BY <2>1, <3>1
    <2>9. CASE DispatchWorker(s) \/ WriteRequest(s) \/ MarkDone(s) \/ WriteFixList(s)
      <3>1. Exit(s, 1) \/ Exit(s, 3) \/ Goto(s, "work") \/ Goto(s, "requested")
            \/ Goto(s, "summing") \/ Goto(s, "retried")
        BY <2>9 DEF DispatchWorker, WriteRequest, MarkDone, WriteFixList
      <3> QED BY <2>1, <2>2, <3>1
    <2>10. CASE BootstrapRound(s) \/ AcceptNoChange(s)
      BY <2>3, <2>10 DEF BootstrapRound, AcceptNoChange, Transit
    <2>11. CASE DispatchReviewer(s) \/ Approve(s)
      BY <2>3, <2>11 DEF DispatchReviewer, Approve, Transit
    <2>12. CASE PrepareRound(s)
      BY <2>3, <2>5, <2>12 DEF PrepareRound, Transit
    <2>13. CASE WorkerTimeout(s) \/ ReviewerTimeout(s)
      BY <1>2, <2>13, TimesOutTo DEF WorkerTimeout, ReviewerTimeout, GoesOn
    <2>14. CASE AcceptApproval(s) \/ AcceptChanges(s)
      BY <2>3, <2>14 DEF AcceptApproval, AcceptChanges, TakeReview
    <2>15. CASE AcceptWork(s)
      <3>1. kid' = [kid EXCEPT ![s] = [kid[s] EXCEPT !.head = work.head, !.pc = "worked"]]
        BY <1>2, <2>15 DEF AcceptWork
      <3>2. [kid[s] EXCEPT !.head = work.head, !.pc = "worked"].pc = "worked"
        BY <1>2 DEF Kid
      <3> QED BY <1>2, <3>1, <3>2 DEF GoesOn, Moves
    <2> QED BY <2>4, <2>6, <2>7, <2>8, <2>9, <2>10, <2>11, <2>12, <2>13, <2>14,
            <2>15 DEF KidStep, KidTrouble
  (* A step that writes the contract begins with a round in progress.        *)
  <1>5. \/ UNCHANGED st
        \/ InFlight(st) /\ kid'[s].pc # "free"
    <2>1. ASSUME kid[s].pc \in ToWork \cup ToReview \cup {"approving"}  PROVE InFlight(st)
      BY <1>2, <2>1 DEF Stage, Turn, InFlight, ToReview
    <2>2. ASSUME NEW m, NEW pc, kid' = [kid EXCEPT ![s].mem = m, ![s].pc = pc],
                 pc # "free"
          PROVE  kid'[s].pc # "free"
      BY <1>2, <2>2, WritesTo
    <2>3. ASSUME NEW m, NEW o, KidFail(s, m, o)  PROVE kid'[s].pc # "free"
      BY <1>2, <2>3, FailsTo
    <2>4. CASE \/ LoadRound(s) \/ DispatchWorker(s) \/ AcceptWork(s) \/ WriteRequest(s)
               \/ AcceptApproval(s) \/ AcceptChanges(s) \/ MarkDone(s) \/ WriteSummary(s)
      <3>1. UNCHANGED st
        <4>1. CASE \/ LoadRound(s) \/ DispatchWorker(s) \/ WriteRequest(s) \/ MarkDone(s)
                   \/ WriteSummary(s)
          BY <4>1, Zenon DEF LoadRound, DispatchWorker, WriteRequest, MarkDone, WriteSummary
        <4>2. CASE AcceptWork(s) \/ AcceptApproval(s) \/ AcceptChanges(s)
          BY <4>2 DEF AcceptWork, AcceptApproval, AcceptChanges, TakeReview, files
        <4> QED BY <2>4, <4>1, <4>2
      <3> QED BY <3>1
    <2>5. CASE \/ WriteFixList(s) \/ Return(s) \/ KidFailTail(s) \/ KidBlockTail(s)
               \/ RefusePatch(s) \/ ChildTerminated(s) \/ OrphanDies(s) \/ ChildDies(s)
      BY <2>5 DEF WriteFixList, Return, KidFailTail, KidBlockTail, RefusePatch,
           ChildTerminated, OrphanDies, ChildDies, Fault, files
    <2>6. CASE LoadBlocked(s) \/ DispatchFailed(s)
      BY <2>1, <2>3, <2>6 DEF LoadBlocked, DispatchFailed, At, ToWork, ToReview
    <2>7. CASE RejectWork(s) \/ RefuseNoChange(s)
      <3>1. \E m, o : KidFail(s, m, o)
        BY <2>7 DEF RejectWork, RefuseNoChange
      <3> QED BY <2>1, <2>3, <2>7, <3>1 DEF RejectWork, RefuseNoChange, ReportIn, At, ToWork
    <2>8. CASE RejectReview(s)
      BY <2>1, <2>3, <2>8 DEF RejectReview, ReviewIn, At, ToReview
    <2>9. CASE BootstrapRound(s) \/ DispatchReviewer(s)
      BY <2>1, <2>2, <2>9 DEF BootstrapRound, DispatchReviewer, Transit, At, ToWork
    <2>10. CASE AcceptNoChange(s)
      BY <2>1, <2>2, <2>10 DEF AcceptNoChange, ReportIn, Transit, At, ToWork
    <2>11. CASE Approve(s) \/ AdvanceRound(s)
      BY <2>1, <2>2, <2>11 DEF Approve, AdvanceRound, Transit, At, ToReview
    <2>12. CASE PrepareRound(s)
      BY <2>1, <2>2, <2>3, <2>12 DEF PrepareRound, Transit, At, ToWork
    <2>13. CASE WorkerTimeout(s) \/ ReviewerTimeout(s)
      BY <1>2, <2>1, <2>13, TimesOutTo DEF WorkerTimeout, ReviewerTimeout, ToWork, ToReview
    <2> QED BY <2>4, <2>5, <2>6, <2>7, <2>8, <2>9, <2>10, <2>11, <2>12, <2>13
         DEF KidStep, KidTrouble
  (* And one that writes the summary ends with the run done.                 *)
  <1>6. \/ UNCHANGED summary
        \/ summary'.run = st.run /\ st'.phase = "done"
    <2>1. CASE WriteSummary(s)
      <3>1. summary' = [run |-> kid[s].mem.run, round |-> kid[s].mem.round,
                        outcome |-> kid[s].mem.outcome] /\ UNCHANGED st
            /\ kid[s].pc = "summing"
        BY <2>1 DEF WriteSummary, At
      <3> QED BY <1>2, <3>1 DEF Stage, Copied, TerminalSuccess
    <2>2. CASE RefuseNoChange(s)
      <3> DEFINE r == Recorded(kid[s].mem, "no_change")
      <3>1. /\ summary' = [run |-> kid[s].mem.run, round |-> kid[s].round,
                           outcome |-> "validation_failure"]
            /\ st' = Saved(st, Failed(r, "validation_failure")) /\ kid[s].pc = "work"
        BY <2>2 DEF RefuseNoChange, KidFail, ReportIn, At
      <3>2. kid[s].mem = st
        BY <1>2, <3>1 DEF Stage, Copied
      <3>3. "no_change" \in Decisions /\ "validation_failure" \in Outcomes
        BY DEF Decisions, Outcomes, FailureOutcomes
      <3>4. Failed(r, "validation_failure").phase = "done"
        BY <1>2, <3>2, <3>3, RecordedType, FailedParts
      <3> QED BY <3>1, <3>2, <3>4, SavedParts
    <2>3. CASE KidFailTail(s)
      <3>1. /\ kid[s].pc = "failing" /\ UNCHANGED st
            /\ \/ UNCHANGED summary
               \/ summary' = [run |-> kid[s].mem.run, round |-> kid[s].mem.round,
                              outcome |-> kid[s].mem.outcome]
        BY <2>3 DEF KidFailTail, At
      <3> QED BY <1>2, <3>1 DEF Stage, Copied
    <2>4. CASE \/ LoadRound(s) \/ BootstrapRound(s) \/ PrepareRound(s) \/ DispatchWorker(s)
               \/ WriteRequest(s) \/ DispatchReviewer(s) \/ MarkDone(s) \/ WriteFixList(s)
               \/ KidBlockTail(s) \/ LoadBlocked(s)
      BY <2>4, Zenon DEF LoadRound, BootstrapRound, PrepareRound, DispatchWorker,
           WriteRequest, DispatchReviewer, MarkDone, WriteFixList, KidBlockTail, LoadBlocked
    <2>5. CASE \/ AcceptNoChange(s) \/ RejectWork(s) \/ RejectReview(s) \/ DispatchFailed(s)
               \/ AcceptApproval(s) \/ AcceptChanges(s) \/ Approve(s) \/ AdvanceRound(s)
               \/ WorkerTimeout(s) \/ ReviewerTimeout(s)
      BY <2>5, Zenon DEF AcceptNoChange, RejectWork, RejectReview, DispatchFailed, AcceptApproval,
           AcceptChanges, TakeReview, Approve, AdvanceRound, WorkerTimeout, ReviewerTimeout,
           TimedOut
    <2>6. CASE \/ AcceptWork(s) \/ Return(s) \/ RefusePatch(s) \/ ChildTerminated(s)
               \/ OrphanDies(s) \/ ChildDies(s)
      BY <2>6 DEF AcceptWork, Return, RefusePatch, ChildTerminated, OrphanDies, ChildDies,
           Fault, files
    <2> QED BY <2>1, <2>2, <2>3, <2>4, <2>5, <2>6 DEF KidStep, KidTrouble
  <1>7. UNCHANGED nrun
    <2>1. CASE BootstrapRound(s)
      <3>1. kid[s].pc = "loaded" /\ kid[s].mem.task = NoTask
        BY <2>1 DEF BootstrapRound, At
      <3>2. Turn(st, par) /\ kid[s].mem = st
        BY <1>2, <3>1 DEF Stage, ToWork, Copied
      <3>3. InFlight(st) /\ Open(st, nrun)
        BY <1>2, <3>2, SoundParts DEF Turn, InFlight
      <3> QED BY <3>1, <3>2, <3>3 DEF Open
    <2>2. CASE \/ LoadRound(s) \/ PrepareRound(s) \/ DispatchWorker(s)
               \/ WriteRequest(s) \/ DispatchReviewer(s) \/ MarkDone(s) \/ WriteFixList(s)
               \/ KidBlockTail(s) \/ LoadBlocked(s)
      BY <2>2, Zenon DEF LoadRound, PrepareRound, DispatchWorker,
           WriteRequest, DispatchReviewer, MarkDone, WriteFixList, KidBlockTail, LoadBlocked
    <2>3. CASE \/ AcceptNoChange(s) \/ RejectWork(s) \/ RejectReview(s) \/ DispatchFailed(s)
               \/ AcceptApproval(s) \/ AcceptChanges(s) \/ Approve(s) \/ AdvanceRound(s)
               \/ WorkerTimeout(s) \/ ReviewerTimeout(s)
      BY <2>3, Zenon DEF AcceptNoChange, RejectWork, RejectReview, DispatchFailed, AcceptApproval,
           AcceptChanges, TakeReview, Approve, AdvanceRound, WorkerTimeout, ReviewerTimeout,
           TimedOut
    <2>4. CASE \/ AcceptWork(s) \/ Return(s) \/ RefusePatch(s) \/ ChildTerminated(s)
               \/ OrphanDies(s) \/ ChildDies(s)
      BY <2>4 DEF AcceptWork, Return, RefusePatch, ChildTerminated, OrphanDies, ChildDies,
           Fault
    <2>5. CASE WriteSummary(s) \/ RefuseNoChange(s) \/ KidFailTail(s)
      BY <2>5, Zenon DEF WriteSummary, RefuseNoChange, KidFailTail
    <2> QED BY <2>1, <2>2, <2>3, <2>4, <2>5 DEF KidStep, KidTrouble
  <1>8. SummaryLate'
    <2>1. st.run \in 0 .. nrun
      BY <1>2, SoundParts
    <2>2. InFlight(st') => summary'.run # st'.run
      <3> SUFFICES ASSUME InFlight(st')  PROVE summary'.run # st'.run
        OBVIOUS
      <3>1. UNCHANGED summary
        BY <1>6 DEF InFlight
      <3>2. CASE UNCHANGED st
        BY <3>1, <3>2 DEF FileInv, SummaryLate
      <3>3. CASE InFlight(st) /\ kid'[s].pc # "free"
        <4>1. Stage(kid'[s], st', par', fix')
          BY <3>3 DEF SerialInv, Stages
        <4>2. st'.run = st.run
          BY <1>2, <1>3, <4>1 DEF Stage
        <4> QED BY <3>1, <3>3, <4>2 DEF FileInv, SummaryLate
      <3> QED BY <1>5, <3>2, <3>3
    <2>3. summary'.run <= nrun
      BY <1>2, <1>6, <2>1 DEF FileInv, SummaryLate
    <2> QED BY <1>7, <2>2, <2>3 DEF SummaryLate
  <1>9. Moves(s) /\ Reported(kid'[s], st', summary')
    <2>1. CASE GoesOn(s)
      BY <2>1 DEF GoesOn, Reported
    <2>2. CASE WriteSummary(s)
      <3>1. /\ kid[s].pc = "summing" /\ UNCHANGED st
            /\ kid' = [kid EXCEPT ![s].pc = "returning"]
            /\ summary' = [run |-> kid[s].mem.run, round |-> kid[s].mem.round,
                           outcome |-> kid[s].mem.outcome]
        BY <2>2 DEF WriteSummary, At, Goto
      <3>2. kid[s].mem = st
        BY <1>2, <3>1 DEF Stage, Copied
      <3> QED BY <1>2, <3>1, <3>2 DEF Reported, Told, Moves
    <2>3. CASE AdvanceRound(s)
      <3> DEFINE m == Retried(Recorded(st, "changes_required"))
      <3>1. kid[s].pc = "retried" /\ st' = Saved(st, Retried(kid[s].mem)) /\ Moves(s)
        BY <1>2, <2>3 DEF AdvanceRound, At, Transit, Moves
      <3>2. kid[s].mem = Recorded(st, "changes_required") /\ st.phase = "awaiting_review"
        BY <1>2, <3>1 DEF Stage, ToReview
      <3>3. Open(st, nrun)
        BY <1>2, <3>2, SoundParts DEF InFlight
      <3>4. m.phase = "awaiting_work"
        BY <1>2, <3>2, <3>3, RetriesOpen
      <3>5. st'.phase = "awaiting_work"
        BY <3>1, <3>2, <3>4, SavedParts
      <3> QED BY <3>1, <3>5 DEF Reported
    <2>4. CASE Return(s)
      <3>1. kid[s].pc = "returning" /\ UNCHANGED <<st, summary>> /\ Moves(s)
        BY <1>2, <2>4 DEF Return, At, Exit, Moves, files
      <3> QED BY <3>1 DEF FileInv, Reported
    <2> QED BY <1>4, <2>1, <2>2, <2>3, <2>4
  <1> QED BY <1>1, <1>3, <1>7, <1>8, <1>9, ChildFiles

(* A step of the parent leaves no child that has something to report.      *)
LEMMA ParentFiles ==
    ASSUME SerialInv', \/ par'.pc # "wait"
                       \/ \A s \in Slots : kid'[s].pc \notin {"returning", "exited"},
           SummaryLate', Telling(par', st', summary'), CardMarked'
    PROVE  FileInv'
  <1>1. \A s \in Slots : kid'[s].pc \notin {"returning", "exited"}
    BY DEF SerialInv, Alone
  <1> QED BY <1>1 DEF FileInv, Reported

LEMMA ParentTells ==
    ASSUME TypeInv, SerialInv, SerialInv', FileInv, ParentStep \/ BootstrapBlocked
    PROVE  FileInv'
  <1> USE DEF ParentOnly, files
  <1>0. /\ st \in Contract /\ nrun \in Nat /\ par \in Parent /\ par.mem \in Contract
        /\ card \in Card /\ summary \in Summary /\ summary.run \in Nat
        /\ Sound(st, nrun) /\ Held(par, st, card, nrun) /\ st.run \in 0 .. nrun
        /\ SummaryLate /\ Telling(par, st, summary)
    <2>1. /\ st \in Contract /\ nrun \in Nat /\ par \in Parent /\ card \in Card
          /\ summary \in Summary /\ Sound(st, nrun) /\ Held(par, st, card, nrun)
          /\ SummaryLate /\ Telling(par, st, summary)
      BY DEF SerialInv, TypeInv, TypeOK, Runs, FileInv
    <2> QED BY <2>1, SoundParts DEF Parent, Summary, Runs
  <1>a. {"blocked_dependencies", "invalid_resume_state", "state_task_mismatch",
         "single_round_failed", "interrupted", "invalid_state_transition",
         "state_contract_mismatch"} \subseteq FailureOutcomes
    BY DEF FailureOutcomes
  <1>b. ASSUME NEW rc  PROVE Gone(rc).pc = "none" /\ Gone(rc).rc = rc
    BY DEF Gone
  (* The parent fails the run: its tail will write what it holds.            *)
  <1>c. ASSUME NEW m \in Contract, NEW o \in FailureOutcomes, NEW f, NEW rc,
               st' = Saved(f, Failed(m, o)), summary'.run \in 0 .. nrun',
               par' = [par EXCEPT !.pc = "failing", !.mem = Failed(m, o), !.rc = rc]
        PROVE  FileInv'
    <2> DEFINE w == Failed(m, o)
    <2>1. w.phase = "done" /\ w.outcome = o /\ w \in Contract
      BY Failures, FailedType, FailedParts
    <2> HIDE DEF w
    <2>2. /\ st'.phase = "done" /\ st'.outcome = o /\ st'.run = w.run
          /\ st'.round = w.round /\ w.outcome = o
      BY <1>c, <2>1, SavedParts DEF w
    <2>3. par'.pc = "failing" /\ par'.mem = w
      BY <1>0, <1>c DEF Parent, w
    <2>4. Telling(par', st', summary') /\ SummaryLate' /\ CardMarked'
      BY <1>c, <2>2, <2>3 DEF Telling, SummaryLate, CardMarked, InFlight, Finished
    <2> QED BY <2>3, <2>4, ParentFiles
  <1>1. CASE ResumeRefused
    <2>1. /\ par.pc = "resume" /\ st.phase = "done" /\ UNCHANGED <<st, summary, nrun>>
          /\ SetBusCard(IF TerminalSuccess(st) THEN "done" ELSE "blocked")
          /\ par' = Gone(IF TerminalSuccess(st) THEN 0 ELSE 3)
      BY <1>1 DEF ResumeRefused, SetCards
    <2>2. par'.pc = "none"
      BY <1>b, <2>1
    <2>3. CardMarked'
      <3>1. CASE card = NoCard
        BY <2>1, <3>1 DEF SetBusCard, CardMarked
      <3>2. CASE card # NoCard
        <4>1. card'.status = IF TerminalSuccess(st) THEN "done" ELSE "blocked"
          BY <1>0, <2>1, <3>2, MarkedCard
        <4> QED BY <2>1, <4>1 DEF CardMarked, TerminalSuccess
      <3> QED BY <3>1, <3>2
    <2>4. Telling(par', st', summary') /\ SummaryLate'
      BY <1>0, <2>1, <2>2 DEF Telling, Told, SummaryLate
    <2> QED BY <2>2, <2>3, <2>4, ParentFiles
  <1>2. CASE Decide
    <2>1. /\ par.pc = "start" /\ par' = [par EXCEPT !.pc = "resume", !.resume = TRUE]
          /\ UNCHANGED <<st, summary, nrun>>
      BY <1>2 DEF Decide
    <2>2. par'.pc = "resume"
      BY <1>0, <2>1 DEF Parent
    <2>3. Telling(par', st', summary') /\ SummaryLate' /\ CardMarked'
      BY <1>0, <2>1, <2>2 DEF Telling, Told, SummaryLate, CardMarked, Finished
    <2> QED BY <2>2, <2>3, ParentFiles
  <1>3. CASE Bootstrap
    <2> DEFINE m == Bootstrapped(StartState, par.task, nrun + 1)
    <2>1. /\ par.pc = "start" /\ nrun < MaxRuns /\ nrun' = nrun + 1
          /\ st' = Saved(StartState, m)
          /\ par' = [par EXCEPT !.pc = "mark", !.run = nrun + 1, !.round = 1, !.mem = m]
      BY <1>3 DEF Bootstrap, StartsFresh
    <2>2. summary'.run \in 0 .. nrun
      <3>1. CleanIfStale
        BY <1>3 DEF Bootstrap
      <3>2. summary' = NoSummary \/ summary' = summary
        BY <3>1 DEF CleanIfStale, RemoveBusFiles
      <3> QED BY <1>0, <3>2 DEF NoSummary, SummaryLate
    <2>3. m.run = nrun + 1 /\ m.phase = "awaiting_work"
      <3>1. StartState \in Contract /\ nrun + 1 \in Runs
        BY <1>0, <2>1, BlankType, RunsAssumption DEF StartState, Runs
      <3> QED BY <1>0, <3>1, BootstrappedParts DEF Parent
    <2> HIDE DEF m
    <2>4. st'.run = nrun + 1 /\ st'.phase = "awaiting_work"
      BY <2>1, <2>3, SavedParts
    <2>5. par'.pc = "mark"
      BY <1>0, <2>1 DEF Parent
    <2>6. Telling(par', st', summary') /\ SummaryLate' /\ CardMarked'
      BY <1>0, <2>1, <2>2, <2>4, <2>5 DEF Telling, SummaryLate, CardMarked, Finished
    <2> QED BY <2>5, <2>6, ParentFiles
  <1>4. CASE BootstrapBlocked
    <2> DEFINE b == BlockedByDependencies(StartState, par.task, 1)
    <2>1. /\ st' = Saved(StartState, Failed(b, "blocked_dependencies"))
          /\ par' = [par EXCEPT !.pc = "failing", !.mem = Failed(b, "blocked_dependencies"),
                                !.rc = 3]
          /\ nrun' = nrun /\ CleanIfStale
      BY <1>4 DEF BootstrapBlocked
    <2>2. b \in Contract
      <3>1. StartState \in Contract
        BY <1>0, BlankType DEF StartState
      <3> QED BY <1>0, <3>1, BlockedType DEF Parent
    <2>3. summary'.run \in 0 .. nrun'
      <3>1. summary' = NoSummary \/ summary' = summary
        BY <2>1 DEF CleanIfStale, RemoveBusFiles
      <3> QED BY <1>0, <2>1, <3>1 DEF NoSummary, SummaryLate
    <2> HIDE DEF b
    <2> QED BY <1>a, <1>c, <2>1, <2>2, <2>3
  <1>5. CASE BootstrapNoCard
    <2>1. st' = Blank /\ par' = Gone(1) /\ nrun' = nrun /\ CleanIfStale
      BY <1>0, <1>5 DEF BootstrapNoCard, StartsFresh, StartState, Held
    <2>2. summary'.run \in 0 .. nrun'
      <3>1. summary' = NoSummary \/ summary' = summary
        BY <2>1 DEF CleanIfStale, RemoveBusFiles
      <3> QED BY <1>0, <2>1, <3>1 DEF NoSummary, SummaryLate
    <2>3. par'.pc = "none" /\ st'.phase = "idle"
      BY <1>b, <2>1 DEF Blank
    <2>4. Telling(par', st', summary') /\ SummaryLate' /\ CardMarked'
      BY <2>2, <2>3 DEF Telling, SummaryLate, CardMarked, InFlight
    <2> QED BY <2>3, <2>4, ParentFiles
  <1>6. CASE Resume
    <2>1. par.pc = "resume" /\ st.phase # "done" /\ UNCHANGED <<summary, nrun>>
      BY <1>6 DEF Resume
    <2>2. summary'.run \in 0 .. nrun'
      BY <1>0, <2>1 DEF SummaryLate
    <2>3. CASE \E o \in FailureOutcomes : Fail(st, o, 3)
      <3>1. PICK o \in FailureOutcomes : Fail(st, o, 3)
        BY <2>3
      <3> QED BY <1>0, <1>c, <2>2, <3>1 DEF Fail
    <2>4. CASE ~(st.task = NoTask \/ st.round < 1) /\ card # NoCard /\ card.task = st.task
      <3> DEFINE m == Prepared(st, st.run, st.round)
      <3>1. /\ st' = Saved(st, m)
            /\ par' = [par EXCEPT !.pc = "mark", !.task = st.task,
                         !.run = st.run, !.round = st.round, !.mem = m]
        BY <1>6, <2>4 DEF Resume
      <3>2. InFlight(st)
        BY <1>0, <2>1, <2>4 DEF Sound, Closed, Blank, Open
      <3>3. m.phase = "awaiting_work" /\ m.run = st.run
        <4>1. st.run \in Runs /\ st.round \in Rounds
          BY <1>0 DEF Contract
        <4> QED BY <1>0, <4>1, PreparedParts
      <3> HIDE DEF m
      <3>4. st'.phase = "awaiting_work" /\ st'.run = st.run
        BY <3>1, <3>3, SavedParts
      <3>5. par'.pc = "mark"
        BY <1>0, <3>1 DEF Parent
      <3>6. Telling(par', st', summary') /\ SummaryLate' /\ CardMarked'
        BY <1>0, <2>1, <3>2, <3>4, <3>5 DEF Telling, SummaryLate, CardMarked, Finished
      <3> QED BY <3>5, <3>6, ParentFiles
    <2>5. \/ Fail(st, "invalid_resume_state", 3) \/ Fail(st, "state_task_mismatch", 3)
          \/ par' = Gone(1) /\ st' = st
          \/ ~(st.task = NoTask \/ st.round < 1) /\ card # NoCard /\ card.task = st.task
      BY <1>6 DEF Resume
    <2>6. CASE par' = Gone(1) /\ st' = st
      <3>1. par'.pc = "none"
        BY <1>b, <2>6
      <3> QED BY <1>0, <2>1, <2>2, <2>6, <3>1, ParentFiles
              DEF Telling, SummaryLate, CardMarked
    <2> QED BY <1>a, <2>3, <2>4, <2>5, <2>6
  <1>7. CASE MarkInProgress
    <2>1. /\ par.pc = "mark" /\ UNCHANGED <<st, summary, nrun>>
          /\ par' = Gone(3) \/ par' = [par EXCEPT !.pc = "loop"]
      BY <1>7 DEF MarkInProgress
    <2>2. st.phase = "awaiting_work"
      BY <1>0, <2>1 DEF Held, Turn
    <2>3. par'.pc \in {"none", "loop"}
      BY <1>0, <1>b, <2>1 DEF Parent
    <2>4. Telling(par', st', summary') /\ SummaryLate' /\ CardMarked'
      BY <1>0, <2>1, <2>2, <2>3 DEF Telling, SummaryLate, CardMarked
    <2> QED BY <2>3, <2>4, ParentFiles
  <1>8. ASSUME NEW s \in Slots, SpawnRound(s)  PROVE FileInv'
    <2>1. /\ par.pc = "loop" /\ UNCHANGED <<st, summary, nrun>>
          /\ \/ par' = Gone(3) /\ UNCHANGED kid
             \/ /\ par' = [par EXCEPT !.pc = "wait"]
                /\ kid' = [kid EXCEPT ![s] = [Free EXCEPT !.pc = "begin",
                                                          !.round = par.round]]
      BY <1>8 DEF SpawnRound
    <2>2. st.phase = "awaiting_work"
      BY <1>0, <2>1 DEF Held, Turn
    <2>3. par'.pc \in {"none", "wait"}
      BY <1>0, <1>b, <2>1 DEF Parent
    <2>4. \A q \in Slots : kid'[q].pc \in {"free", "begin"}
      <3>1. \A q \in Slots : kid[q].pc = "free"
        BY <2>1 DEF SerialInv, Alone
      <3>2. kid \in [Slots -> Kid]
        BY DEF TypeInv, TypeOK
      <3>3. [Free EXCEPT !.pc = "begin", !.round = par.round].pc = "begin"
        BY DEF Free
      <3> QED BY <2>1, <3>1, <3>2, <3>3
    <2>5. Telling(par', st', summary') /\ SummaryLate' /\ CardMarked'
      BY <1>0, <2>1, <2>2, <2>3 DEF Telling, SummaryLate, CardMarked
    <2> QED BY <2>4, <2>5, ParentFiles
  <1>9. CASE StopOnInterrupt
    <2>1. /\ par.pc = "loop" /\ par' = [par EXCEPT !.pc = "interrupted"]
          /\ UNCHANGED <<st, summary, nrun>>
      BY <1>9 DEF StopOnInterrupt
    <2>2. par'.pc = "interrupted"
      BY <1>0, <2>1 DEF Parent
    <2>3. Telling(par', st', summary') /\ SummaryLate' /\ CardMarked'
      BY <1>0, <2>1, <2>2 DEF Telling, SummaryLate, CardMarked, Finished
    <2> QED BY <2>2, <2>3, ParentFiles
  <1>10. CASE MaxRoundsExhausted
    <2> DEFINE m == Moved(st, "max_rounds_exhausted")
    <2>1. /\ par.pc = "loop" /\ UNCHANGED <<summary, nrun>>
          /\ \/ st' = Saved(st, m) /\ par' = [par EXCEPT !.pc = "blocking", !.rc = 2]
             \/ par' = Gone(5) /\ UNCHANGED st
      BY <1>10 DEF MaxRoundsExhausted
    <2>2. InFlight(st)
      BY <1>0, <2>1 DEF Held, Turn, InFlight
    <2>3. CASE par' = Gone(5) /\ UNCHANGED st
      <3>1. par'.pc = "none"
        BY <1>b, <2>3
      <3>2. Telling(par', st', summary') /\ SummaryLate' /\ CardMarked'
        BY <1>0, <2>1, <2>2, <2>3, <3>1 DEF Telling, SummaryLate, CardMarked, InFlight
      <3> QED BY <3>1, <3>2, ParentFiles
    <2>4. CASE st' = Saved(st, m) /\ par' = [par EXCEPT !.pc = "blocking", !.rc = 2]
      <3>1. m.phase = "done" /\ m.run = st.run /\ m.outcome \in FailureOutcomes
        BY <1>0, TimedOutParts, TimesOutClosed
      <3> HIDE DEF m
      <3>2. st'.phase = "done" /\ st'.run = st.run /\ st'.outcome \in FailureOutcomes
        BY <2>4, <3>1, SavedParts
      <3>3. par'.pc = "blocking"
        BY <1>0, <2>4 DEF Parent
      <3>4. Telling(par', st', summary') /\ SummaryLate' /\ CardMarked'
        BY <1>0, <2>1, <2>2, <3>2, <3>3
        DEF Telling, SummaryLate, CardMarked, InFlight, Finished
      <3> QED BY <3>3, <3>4, ParentFiles
    <2> QED BY <2>1, <2>3, <2>4
  <1>11. ASSUME NEW s \in Slots,
                \/ ReapInterrupted(s) \/ ReapFailed(s) \/ ReapSuccess(s)
                \/ ReapNextRound(s) \/ ReapUnexpected(s)
         PROVE  FileInv'
    <2>1. /\ par.pc = "wait" /\ kid[s].pc = "exited" /\ UNCHANGED <<summary, nrun>>
          /\ summary'.run \in 0 .. nrun'
      BY <1>0, <1>11 DEF ReapInterrupted, ReapFailed, ReapSuccess, ReapNextRound,
           ReapUnexpected, Reap, SummaryLate
    <2>2. CASE ReapInterrupted(s)
      <3>1. par' = [par EXCEPT !.pc = "interrupted"] /\ UNCHANGED st
        BY <2>2 DEF ReapInterrupted
      <3>2. par'.pc = "interrupted"
        BY <1>0, <3>1 DEF Parent
      <3>3. Telling(par', st', summary') /\ SummaryLate' /\ CardMarked'
        BY <1>0, <2>1, <3>1, <3>2 DEF Telling, SummaryLate, CardMarked, Finished
      <3> QED BY <3>2, <3>3, ParentFiles
    <2>3. CASE ReapFailed(s)
      BY <1>0, <1>a, <1>c, <2>1, <2>3 DEF ReapFailed, Fail
    <2>4. CASE ReapSuccess(s)
      <3>1. /\ kid[s].rc = 0 /\ TerminalSuccess(st) /\ SetBusCard("done")
            /\ par' = Gone(0) /\ UNCHANGED st
        BY <2>4 DEF ReapSuccess, SetCards
      <3>2. Told(summary, st)
        BY <2>1, <3>1 DEF FileInv, Reported, TerminalSuccess
      <3>3. card' # NoCard => card'.status = "done"
        BY <1>0, <3>1, MarkedCard DEF SetBusCard
      <3>4. par'.pc = "none"
        BY <1>b, <3>1
      <3>5. Telling(par', st', summary') /\ SummaryLate' /\ CardMarked'
        BY <1>0, <2>1, <3>1, <3>2, <3>3, <3>4
        DEF Telling, Told, SummaryLate, CardMarked, TerminalSuccess
      <3> QED BY <3>4, <3>5, ParentFiles
    <2>5. CASE ReapNextRound(s)
      <3>1. /\ st.phase = "awaiting_work" /\ UNCHANGED st
            /\ par' = [par EXCEPT !.pc = "loop", !.round = par.round + 1, !.mem = st]
        BY <2>5 DEF ReapNextRound, AwaitingNext
      <3>2. par'.pc = "loop"
        BY <1>0, <3>1 DEF Parent
      <3>3. Telling(par', st', summary') /\ SummaryLate' /\ CardMarked'
        BY <1>0, <2>1, <3>1, <3>2 DEF Telling, SummaryLate, CardMarked, Finished
      <3> QED BY <3>2, <3>3, ParentFiles
    <2>6. CASE ReapUnexpected(s)
      <3>1. \E o \in FailureOutcomes : Fail(st, o, 3)
        BY <1>a, <2>6 DEF ReapUnexpected
      <3> QED BY <1>0, <1>c, <2>1, <3>1 DEF Fail
    <2> QED BY <1>11, <2>2, <2>3, <2>4, <2>5, <2>6
  <1>12. CASE FailInterrupted
    <2>1. Fail(st, "interrupted", 130) /\ UNCHANGED <<summary, nrun>>
      BY <1>12 DEF FailInterrupted
    <2>2. summary'.run \in 0 .. nrun'
      BY <1>0, <2>1 DEF SummaryLate
    <2>3. "interrupted" \in FailureOutcomes
      BY <1>a
    <2> QED BY <1>0, <1>c, <2>1, <2>2, <2>3 DEF Fail
  <1>13. CASE FailTail
    <2>1. /\ par.pc = "failing" /\ SetBusCard("blocked") /\ UNCHANGED <<st, nrun>>
          /\ summary' = [run |-> par.mem.run, round |-> par.mem.round,
                         outcome |-> par.mem.outcome]
          /\ par' = Gone(par.rc)
      BY <1>13 DEF FailTail, SetCards
    <2>2. /\ st.phase = "done" /\ st.outcome \notin SuccessOutcomes
          /\ par.mem.outcome = st.outcome /\ par.mem.run = st.run
          /\ par.mem.round = st.round
      BY <1>0, <2>1, Failures DEF Telling
    <2>3. card' # NoCard => card'.status = "blocked"
      BY <1>0, <2>1, MarkedCard DEF SetBusCard
    <2>4. par'.pc = "none"
      BY <1>b, <2>1
    <2>5. Telling(par', st', summary') /\ SummaryLate' /\ CardMarked'
      BY <1>0, <2>1, <2>2, <2>3, <2>4
      DEF Telling, Told, SummaryLate, CardMarked, InFlight
    <2> QED BY <2>4, <2>5, ParentFiles
  <1>14. CASE BlockTail
    <2>1. /\ par.pc = "blocking" /\ SetBusCard("blocked")
          /\ UNCHANGED <<st, summary, nrun>> /\ par' = Gone(par.rc)
      BY <1>14 DEF BlockTail, SetCards
    <2>2. /\ st.phase = "done" /\ st.outcome \notin SuccessOutcomes
          /\ summary.run # st.run
      BY <1>0, <2>1, Failures DEF Telling
    <2>3. card' # NoCard => card'.status = "blocked"
      BY <1>0, <2>1, MarkedCard DEF SetBusCard
    <2>4. par'.pc = "none"
      BY <1>b, <2>1
    <2>5. Telling(par', st', summary') /\ SummaryLate' /\ CardMarked'
      BY <1>0, <2>1, <2>2, <2>3, <2>4
      DEF Telling, Told, SummaryLate, CardMarked, InFlight
    <2> QED BY <2>4, <2>5, ParentFiles
  <1> QED BY <1>1, <1>2, <1>3, <1>4, <1>5, <1>6, <1>7, <1>8, <1>9, <1>10, <1>11, <1>12,
             <1>13, <1>14 DEF ParentStep

LEMMA OperatorTells ==
    ASSUME SerialInv', FileInv, TypeInv, Operator
    PROVE  FileInv'
  <1>1. PICK t \in Tasks, ext \in External, f \in Flags, dirty \in BOOLEAN :
           Invoke(t, ext, f, dirty)
    BY DEF Operator
  <1>2. /\ par.pc = "none" /\ nrun' = nrun
        /\ \/ st' = Blank /\ summary' = NoSummary
           \/ UNCHANGED <<st, summary>>
    <2>1. CASE f.reset
      BY <1>1, <2>1 DEF Invoke, RemoveBusFiles
    <2>2. CASE ~f.reset
      BY <1>1, <2>2 DEF Invoke
    <2> QED BY <2>1, <2>2
  <1>3. par' = Gone(4) \/ par' = [Gone(0) EXCEPT !.pc = IF f.resume THEN "resume" ELSE "start",
                                                 !.ext = ext, !.resume = f.resume,
                                                 !.clean = f.clean, !.task = t]
    <2>1. CASE dirty
      BY <1>1, <2>1 DEF Invoke
    <2>2. CASE ~dirty
      BY <1>1, <2>2 DEF Invoke
    <2> QED BY <2>1, <2>2
  <1>4. /\ par'.pc \in {"none", "start", "resume"}
        /\ par'.pc = "none" => par'.rc = 4
    <2>1. CASE par' = Gone(4)
      BY <2>1 DEF Gone
    <2>2. CASE par' # Gone(4)
      <3>1. par'.pc = IF f.resume THEN "resume" ELSE "start"
        BY <1>3, <2>2 DEF Gone
      <3> QED BY <3>1
    <2> QED BY <2>1, <2>2
  <1>5. nrun \in Nat
    BY DEF TypeInv, TypeOK, Runs
  <1>6. Telling(par', st', summary') /\ SummaryLate' /\ CardMarked'
    <2>1. CASE st' = Blank /\ summary' = NoSummary
      BY <1>2, <1>4, <1>5, <2>1
      DEF Telling, SummaryLate, CardMarked, InFlight, Blank, NoSummary
    <2>2. CASE UNCHANGED <<st, summary>>
      BY <1>2, <1>4, <2>2
      DEF FileInv, Telling, Told, SummaryLate, CardMarked, Finished
    <2> QED BY <1>2, <2>1, <2>2
  <1> QED BY <1>4, <1>6, ParentFiles

LEMMA NothingTells ==
    ASSUME FileInv, UNCHANGED <<st, card, summary, par, kid, nrun, ninv>>
    PROVE  FileInv'
  BY DEF FileInv, SummaryLate, Reported, Telling, CardMarked, Finished, Told

LEMMA InitFiles == Init => FileInv
  <1> SUFFICES ASSUME Init PROVE FileInv
    OBVIOUS
  <1>1. /\ st.phase = "idle" /\ par.pc = "none" /\ ninv = 0
        /\ nrun = 0 /\ summary.run = 0 /\ \A s \in Slots : kid[s].pc = "free"
    BY DEF Init, Blank, Gone, Free, NoSummary
  <1> QED BY <1>1 DEF FileInv, SummaryLate, Reported, Telling, CardMarked, Finished, InFlight

LEMMA NextFiles ==
    ASSUME "parent" \notin Faults, "host" \notin Faults,
           TypeInv, TypeInv', SerialInv, SerialInv', FileInv, [Next]_vars
    PROVE  FileInv'
  <1>1. CASE UNCHANGED vars \/ Quiescent
    BY <1>1, NothingTells DEF Quiescent, vars, files
  <1>2. CASE Agents
    <2>1. UNCHANGED <<st, card, summary, par, kid, nrun, ninv>>
      BY <1>2 DEF Agents, DeliverWork, DeliverReview, AgentOnly
    <2> QED BY <2>1, NothingTells
  <1>3. CASE Environment
    <2>1. ~HostCrash /\ ~ParentKilled
      BY DEF HostCrash, ParentKilled, Fault
    <2>2. CASE Interrupt
      <3>1. /\ par' = [par EXCEPT !.intr = TRUE] /\ par.pc \in {"loop", "wait"}
            /\ UNCHANGED <<st, card, summary, nrun, kid>>
        BY <2>2 DEF Interrupt, Fault, files
      <3>2. par'.pc = par.pc
        BY <3>1 DEF TypeInv, TypeOK, Parent
      <3> QED BY <3>1, <3>2
          DEF FileInv, SummaryLate, Reported, Telling, CardMarked, Finished, Told
    <2> QED BY <1>3, <2>1, <2>2, ChildWritesFiles DEF Environment
  <1> QED BY <1>1, <1>2, <1>3, ParentTells, ChildWritesFiles, OperatorTells DEF Next

(* As long as neither the host nor a parent alone is killed: when nothing  *)
(* runs, a finished contract, the card and the summary of its run agree.   *)
(* A host crash between the writes of a tail leaves them apart.            *)
THEOREM FilesAlwaysAgree ==
    ASSUME "parent" \notin Faults, "host" \notin Faults
    PROVE  Spec => []FilesAgree
  <1>1. Init => TypeInv /\ SerialInv /\ FileInv
    BY InitTypes, InitSerial, InitFiles
  <1>2. TypeInv /\ SerialInv /\ FileInv /\ [Next]_vars => (TypeInv /\ SerialInv /\ FileInv)'
    BY NextTypes, NextSerial, NextFiles
  <1> QED BY <1>1, <1>2, FileInvAgrees, PTL DEF Spec
=============================================================================
