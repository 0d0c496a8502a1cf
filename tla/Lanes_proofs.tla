---------------------------- MODULE Lanes_proofs ----------------------------
(***************************************************************************)
(* Theorems about Lanes, for every set of lanes, cards, rounds, faults and *)
(* threads.  The inductive invariant IInv, at the end, has a part for each *)
(* thing a step relies on: what main thread and pool know of a lane, how   *)
(* the stages number the lanes, the gates passed, the trees made, how the  *)
(* chains of commits share history, what of it is on the integration head, *)
(* and what the merge has settled.                                         *)
(*                                                                         *)
(* Each part has a lemma that a step keeps it, given the parts before.     *)
(***************************************************************************)
EXTENDS Lanes, TLAPS, FiniteSetTheorems

USE LaneAssumption

-----------------------------------------------------------------------------
(* Types.                                                                  *)

(* How many children can have been spawned: one a round, and after each    *)
(* fault at most all the rounds again.                                     *)
Again(f) == f * MaxRounds
Ran == round + Again(faults)
TryIsBounded == try <= IF pc \in {"stopped", "idle"} THEN Ran - 1 ELSE Ran

(* A pass of the merge is at one of its lanes and at a commit of it.       *)
InPass == Passing => merge.at >= 1 /\ merge.nth >= 1

Typed == TypeOK /\ TryIsBounded /\ InPass

LEMMA AgainGrows ==
    ASSUME NEW f \in 0 .. MaxFaults
    PROVE  /\ Again(f) \in Nat
           /\ Again(f + 1) = Again(f) + MaxRounds
           /\ Again(f) + MaxRounds <= MaxRounds * (MaxFaults + 1)
<1>1. f * MaxRounds \in Nat  OBVIOUS
<1>2. (f + 1) * MaxRounds = f * MaxRounds + MaxRounds  OBVIOUS
<1>3. f * MaxRounds + MaxRounds <= MaxRounds * (MaxFaults + 1)  OBVIOUS
<1> QED  BY <1>1, <1>2, <1>3 DEF Again

LEMMA AgainMonotone ==
    ASSUME NEW f \in 0 .. MaxFaults, NEW g \in 0 .. MaxFaults, f <= g
    PROVE  Again(f) <= Again(g)
<1>1. f * MaxRounds <= g * MaxRounds  OBVIOUS
<1> QED  BY <1>1 DEF Again

LEMMA RanTyped ==
    ASSUME TypeOK
    PROVE  /\ round \in 1 .. MaxRounds /\ try \in Nat /\ faults \in 0 .. MaxFaults
           /\ Again(faults) \in Nat /\ Ran \in Nat
<1>1. round \in 1 .. MaxRounds /\ try \in Nat /\ faults \in 0 .. MaxFaults
  BY DEF TypeOK, Rounds, Attempts
<1> QED  BY <1>1, AgainGrows DEF Ran

LEMMA TryFits ==
    ASSUME TypeOK, TryIsBounded, pc = "idle"
    PROVE  try + 1 \in Attempts
<1>1. try + 1 <= round + Again(faults)
  BY RanTyped DEF TryIsBounded, Ran
<1>2. try + 1 <= MaxRounds * (MaxFaults + 1)
  BY <1>1, RanTyped, AgainGrows
<1> QED  BY <1>2, RanTyped DEF Attempts

(* What the removal of a round's worktrees does to the others, and that    *)
(* one that works leaves none in this round.                               *)
LEMMA Cleans ==
    ASSUME TypeOK, CleanTrees(Lane)
    PROVE  /\ tree' \in [Rounds -> [Lane -> Tree]]
           /\ faults' \in 0 .. MaxFaults /\ trouble' \in BOOLEAN
           /\ faults' \in {faults, faults + 1}
           /\ trouble => trouble'
           /\ \A r \in Rounds \ {round} : tree'[r] = tree[r]
           /\ ~trouble' => \A l \in Lane : tree'[round][l] = NoTree
<1>1. NoTree \in Tree  BY DEF NoTree, Tree, Attempts
<1>2. CASE /\ tree' = [tree EXCEPT ![round] =
                         [l \in Lane |-> IF l \in Lane THEN NoTree ELSE @[l]]]
           /\ UNCHANGED faultVars
  BY <1>1, <1>2 DEF faultVars, TypeOK
<1>3. CASE /\ Fault /\ trouble' = TRUE
           /\ \E l \in Lane : \E t \in Remains(tree[round][l]) :
                tree' = [tree EXCEPT ![round] = [m \in Lane |-> IF m = l THEN t
                                              ELSE IF m \in Lane THEN NoTree ELSE @[m]]]
  <2>1. \E l \in Lane, t \in Tree :
             tree' = [tree EXCEPT ![round] = [m \in Lane |-> IF m = l THEN t
                                              ELSE IF m \in Lane THEN NoTree ELSE @[m]]]
    BY <1>3 DEF Remains
  <2>3. faults' \in 0 .. MaxFaults /\ faults' = faults + 1  BY <1>3 DEF Fault, TypeOK
  <2>4. trouble'  BY <1>3
  <2> QED  BY <1>1, <2>1, <2>3, <2>4 DEF TypeOK
<1> QED  BY <1>2, <1>3 DEF CleanTrees

LEMMA CleanupCleans ==
    ASSUME TypeOK, Cleanup
    PROVE  /\ tree' \in [Rounds -> [Lane -> Tree]]
           /\ faults' \in 0 .. MaxFaults /\ trouble' \in BOOLEAN
           /\ faults' \in {faults, faults + 1}
           /\ trouble => trouble'
           /\ \A r \in Rounds \ {round} : tree'[r] = tree[r]
           /\ ~card.preserve /\ ~trouble' => \A l \in Lane : tree'[round][l] = NoTree
<1>1. CASE card.preserve
  <2>1. UNCHANGED <<tree, faultVars>>  BY <1>1 DEF Cleanup
  <2> QED  BY <1>1, <2>1 DEF faultVars, TypeOK
<1>2. CASE ~card.preserve
  <2>1. CleanTrees(Lane)  BY <1>2 DEF Cleanup
  <2> QED  BY <2>1, Cleans
<1> QED  BY <1>1, <1>2

MergeLocals ==
    [step : MergeSteps, at : Nat, nth : Nat, current : Seq(Picks), deferred : Seq(Lane),
     lost : SUBSET Lane, applied : SUBSET Lane,
     why : {"none", "moved", "conflict", "deferred", "git"}]

LEMMA NoMergeTyped == NoMerge \in MergeLocals
  BY DEF NoMerge, MergeLocals, MergeSteps

LEMMA CurrentTyped ==
    ASSUME MergeTypeOK, InPass, Replaying
    PROVE  /\ Current \in Lane
           /\ merge.step = "first" => Current = order[merge.at] /\ merge.at \in DOMAIN order
           /\ merge.step = "second" => /\ Current = merge.deferred[merge.at]
                                       /\ merge.at \in DOMAIN merge.deferred
<1>1. merge \in MergeLocals  BY DEF MergeTypeOK, MergeLocals
<1>2. Todo \in Seq(Lane) /\ merge.at \in 1 .. Len(Todo)
  BY <1>1 DEF Replaying, Passing, InPass, Todo, MergeTypeOK, MergeLocals
<1> QED  BY <1>1, <1>2 DEF Current, Todo, Replaying, Passing, MergeTypeOK

LEMMA PickTyped ==
    ASSUME MergeTypeOK, InPass, InChain
    PROVE  /\ merge.nth \in DOMAIN chain[Current]
           /\ chain[Current][merge.nth] \in Commits
           /\ Replayed(chain[Current][merge.nth]) \in Picks
<1>1. merge \in MergeLocals  BY DEF MergeTypeOK, MergeLocals
<1>2. Current \in Lane  BY CurrentTyped DEF InChain
<1>3. chain[Current] \in Seq(Commits)  BY <1>2 DEF MergeTypeOK
<1>4. merge.nth \in 1 .. Len(chain[Current])
  BY <1>1, <1>3 DEF InChain, Replaying, InPass, MergeLocals
<1> QED  BY <1>3, <1>4 DEF Replayed, Picks

LEMMA NextLaneTyped ==
    ASSUME NEW m \in MergeLocals
    PROVE  /\ NextLane(m) \in MergeLocals
           /\ NextLane(m).step = m.step
           /\ NextLane(m).at = m.at + 1 /\ NextLane(m).nth = 1
           /\ NextLane(m).deferred = m.deferred /\ NextLane(m).lost = m.lost
<1>1. m.at + 1 \in Nat  BY DEF MergeLocals
<1> QED  BY <1>1 DEF MergeLocals, NextLane

LEMMA RaiseTyped ==
    ASSUME merge \in MergeLocals, NEW why \in {"moved", "conflict", "deferred", "git"}, Raise(why)
    PROVE  merge' \in MergeLocals /\ merge'.step = "raised"
  BY DEF Raise, MergeLocals, MergeSteps

LEMMA GateTyped ==
    ASSUME merge \in MergeLocals, Gate
    PROVE  /\ merge' \in MergeLocals
           /\ \/ merge'.step = "first" /\ merge'.at = 1 /\ merge'.nth = 1
              \/ merge'.step = "raised"
<1>1. "first" \in MergeSteps  BY DEF MergeSteps
<1>2. CASE merge' = [merge EXCEPT !.step = "first", !.at = 1, !.nth = 1]
  BY <1>1, <1>2 DEF MergeLocals
<1> QED  BY <1>2, RaiseTyped DEF Gate

LEMMA FirstPassEndsTyped ==
    ASSUME merge \in MergeLocals, FirstPassEnds
    PROVE  /\ merge' \in MergeLocals
           /\ \/ merge.deferred = <<>> /\ merge'.step = "end"
              \/ /\ merge'.step = "second" /\ merge'.at = 1 /\ merge'.nth = 1
                 /\ merge'.deferred = merge.deferred /\ merge'.lost = merge.lost
<1>1. "second" \in MergeSteps /\ "end" \in MergeSteps  BY DEF MergeSteps
<1>2. CASE merge' = [merge EXCEPT !.step = "second", !.at = 1, !.nth = 1]
  BY <1>1, <1>2 DEF MergeLocals
<1>3. CASE merge.deferred = <<>> /\ merge' = [merge EXCEPT !.step = "end"]
  BY <1>1, <1>3 DEF MergeLocals
<1> QED  BY <1>2, <1>3 DEF FirstPassEnds

LEMMA SecondPassEndsTyped ==
    ASSUME merge \in MergeLocals, SecondPassEnds
    PROVE  /\ merge' \in MergeLocals
           /\ \/ merge.lost = {} /\ merge'.step = "end"
              \/ merge'.step = "raised"
<1>1. "end" \in MergeSteps  BY DEF MergeSteps
<1>2. CASE merge.lost = {} /\ merge' = [merge EXCEPT !.step = "end"]
  BY <1>1, <1>2 DEF MergeLocals
<1> QED  BY <1>2, RaiseTyped DEF SecondPassEnds

(* The steps that go on to the next lane.                                  *)
LEMMA LaneEndsTyped ==
    ASSUME MergeTypeOK, PassOver \/ SkipLane \/ LaneReplayed \/ DeferredReplayed
    PROVE  /\ merge' \in MergeLocals
           /\ merge'.step = merge.step /\ merge'.at = merge.at + 1 /\ merge'.nth = 1
           /\ merge'.deferred = merge.deferred /\ merge'.lost = merge.lost
<1>1. merge \in MergeLocals /\ head \in Seq(Picks)  BY DEF MergeTypeOK, MergeLocals
<1>2. CASE PassOver \/ SkipLane
  <2>1. merge' = NextLane(merge)  BY <1>2 DEF PassOver, SkipLane
  <2> QED  BY <1>1, <2>1, NextLaneTyped
<1>3. CASE LaneReplayed \/ DeferredReplayed
  <2> DEFINE m == [merge EXCEPT !.current = head]
  <2>1. merge' = NextLane(m)  BY <1>3 DEF LaneReplayed, DeferredReplayed
  <2>2. /\ m \in MergeLocals /\ m.step = merge.step /\ m.at = merge.at
        /\ m.deferred = merge.deferred /\ m.lost = merge.lost
    BY <1>1 DEF MergeLocals
  <2> HIDE DEF m
  <2> QED  BY <2>1, <2>2, NextLaneTyped
<1> QED  BY <1>2, <1>3

LEMMA DeferLaneTyped ==
    ASSUME MergeTypeOK, InPass, DeferLane
    PROVE  /\ merge' \in MergeLocals
           /\ merge'.step = merge.step /\ merge'.at = merge.at + 1 /\ merge'.nth = 1
           /\ merge'.deferred = Append(merge.deferred, Current) /\ merge'.lost = merge.lost
<1> DEFINE m == [merge EXCEPT !.deferred = Append(@, Current)]
<1>1. merge \in MergeLocals  BY DEF MergeTypeOK, MergeLocals
<1>2. Append(merge.deferred, Current) \in Seq(Lane)
  BY <1>1, CurrentTyped DEF DeferLane, PickFails, InChain, MergeLocals
<1>3. /\ m \in MergeLocals /\ m.step = merge.step /\ m.at = merge.at
      /\ m.deferred = Append(merge.deferred, Current) /\ m.lost = merge.lost
  BY <1>1, <1>2 DEF MergeLocals
<1>4. merge' = NextLane(m)  BY DEF DeferLane
<1> HIDE DEF m
<1> QED  BY <1>3, <1>4, NextLaneTyped

LEMMA DeferredConflictTyped ==
    ASSUME MergeTypeOK, InPass, DeferredConflict
    PROVE  /\ merge' \in MergeLocals
           /\ merge'.step = merge.step /\ merge'.at = merge.at + 1 /\ merge'.nth = 1
           /\ merge'.deferred = merge.deferred /\ merge'.lost = merge.lost \cup {Current}
<1> DEFINE m == [merge EXCEPT !.lost = @ \cup {Current}, !.current = head]
<1>1. merge \in MergeLocals /\ head \in Seq(Picks)  BY DEF MergeTypeOK, MergeLocals
<1>2. merge.lost \cup {Current} \in SUBSET Lane
  BY <1>1, CurrentTyped DEF DeferredConflict, PickFails, InChain, MergeLocals
<1>3. /\ m \in MergeLocals /\ m.step = merge.step /\ m.at = merge.at
      /\ m.deferred = merge.deferred /\ m.lost = merge.lost \cup {Current}
  BY <1>1, <1>2 DEF MergeLocals
<1>4. merge' = NextLane(m)  BY DEF DeferredConflict
<1> HIDE DEF m
<1> QED  BY <1>3, <1>4, NextLaneTyped

(* The steps within a chain.                                               *)
LEMMA PickingTyped ==
    ASSUME MergeTypeOK, InPass, SkipAncestor \/ PickApplies
    PROVE  /\ merge' \in MergeLocals
           /\ merge'.step = merge.step /\ merge'.at = merge.at /\ merge'.nth = merge.nth + 1
           /\ merge'.deferred = merge.deferred /\ merge'.lost = merge.lost
<1>1. merge \in MergeLocals  BY DEF MergeTypeOK, MergeLocals
<1>2. merge.nth + 1 \in Nat /\ merge.applied \cup {Current} \in SUBSET Lane
  BY <1>1, CurrentTyped DEF SkipAncestor, PickApplies, InChain, MergeLocals
<1>3. CASE SkipAncestor
  BY <1>1, <1>2, <1>3 DEF SkipAncestor, MergeLocals
<1>4. CASE PickApplies
  BY <1>1, <1>2, <1>4 DEF PickApplies, MergeLocals
<1> QED  BY <1>3, <1>4

LEMMA MergeStepTyped ==
    ASSUME MergeTypeOK, InPass, MergeStep
    PROVE  /\ head' \in Seq(Picks)
           /\ record' \in [Lane -> RecordStates]
           /\ merge' \in MergeLocals
           /\ InPass'
<1>1. merge \in MergeLocals  BY DEF MergeTypeOK, MergeLocals
<1>0. /\ head \in Seq(Picks) /\ order \in Seq(Lane) /\ record \in [Lane -> RecordStates]
  BY DEF MergeTypeOK
<1>2. CASE Gate
  BY <1>0, <1>1, <1>2, GateTyped DEF Gate, InPass, Passing
<1>3. CASE PassOver \/ SkipLane \/ LaneReplayed \/ DeferredReplayed
  <2>1. record' \in [Lane -> RecordStates]
    BY <1>0, <1>3 DEF PassOver, SkipLane, LaneReplayed, DeferredReplayed, RecordStates
  <2>2. head' = head  BY <1>3 DEF PassOver, SkipLane, LaneReplayed, DeferredReplayed
  <2> QED  BY <1>0, <1>1, <1>3, <2>1, <2>2, LaneEndsTyped DEF InPass, Passing, MergeLocals
<1>4. CASE SkipAncestor \/ PickApplies
  <2>1. record' = record  BY <1>4 DEF SkipAncestor, PickApplies
  <2>2. head' \in Seq(Picks)
    <3>1. CASE SkipAncestor  BY <1>0, <3>1 DEF SkipAncestor
    <3>2. CASE PickApplies  BY <1>0, <3>2, PickTyped DEF PickApplies
    <3> QED  BY <1>4, <3>1, <3>2
  <2>3. InPass'
    BY <1>1, <1>4, PickingTyped
    DEF SkipAncestor, PickApplies, InChain, Replaying, MergeLocals, InPass, Passing
  <2> QED  BY <1>0, <1>4, <2>1, <2>2, <2>3, PickingTyped
<1>5. CASE DeferLane
  <2>1. record' \in [Lane -> RecordStates]  BY <1>0, <1>5 DEF DeferLane, RecordStates
  <2>2. head' = head  BY <1>5 DEF DeferLane
  <2>3. InPass'  BY <1>1, <1>5, DeferLaneTyped DEF MergeLocals, InPass, Passing
  <2> QED  BY <1>0, <1>5, <2>1, <2>2, <2>3, DeferLaneTyped
<1>6. CASE DeferredConflict
  <2>1. record' \in [Lane -> RecordStates]  BY <1>0, <1>6 DEF DeferredConflict, RecordStates
  <2> QED  BY <1>0, <1>1, <1>6, <2>1, DeferredConflictTyped
           DEF DeferredConflict, MergeLocals, InPass, Passing
<1>7. CASE FailFast
  <2>1. PICK why \in {"conflict", "git"} : Raise(why)  BY <1>7 DEF FailFast
  <2>2. merge' \in MergeLocals /\ merge'.step = "raised"  BY <1>1, <2>1, RaiseTyped
  <2>3. head' = <<>> \/ head' = head  BY <1>7 DEF FailFast
  <2>4. record' = record  BY <1>7 DEF FailFast
  <2>5. head' \in Seq(Picks)
    <3>1. CASE head' = <<>>  BY <3>1
    <3>2. CASE head' = head  BY <1>0, <3>2
    <3> QED  BY <2>3, <3>1, <3>2
  <2>6. InPass'  BY <2>2 DEF InPass, Passing
  <2> QED  BY <1>0, <2>2, <2>4, <2>5, <2>6
<1>8. CASE FirstPassEnds
  BY <1>0, <1>1, <1>8, FirstPassEndsTyped DEF FirstPassEnds, InPass, Passing
<1>9. CASE SecondPassEnds
  BY <1>0, <1>1, <1>9, SecondPassEndsTyped DEF SecondPassEnds, InPass, Passing
<1>10. CASE GitBreaks
  BY <1>0, <1>1, <1>10, RaiseTyped DEF GitBreaks, InPass, Passing
<1> QED  BY <1>2, <1>3, <1>4, <1>5, <1>6, <1>7, <1>8, <1>9, <1>10 DEF MergeStep

LEMMA WorkerChain ==
    ASSUME TypeOK, NEW l \in Lane, card.deps[l] \subseteq Lane, NEW c \in Chains(l)
    PROVE  \E base \in Seq(Commits), k \in Nat :
              /\ base = <<>> \/ \E d \in card.deps[l] : base = chain[d]
              /\ c \in Seq(Commits)
              /\ Len(c) = Len(base) + k
              /\ \A i \in DOMAIN base : c[i] = base[i]
              /\ \A i \in DOMAIN c : i > Len(base) => /\ c[i].lane = l
                                                      /\ c[i].try = tree[round][l].at
<1> DEFINE Mine(i) == [lane |-> l, try |-> tree[round][l].at, n |-> i]
<1>1. tree[round][l].at \in Attempts
  BY DEF TypeOK, Tree
<1>2. \A i \in 1 .. 2 : Mine(i) \in Commits /\ Mine(i).lane = l /\ Mine(i).try = tree[round][l].at
  BY <1>1 DEF Commits
<1>3. \A own \in OwnCommits(l) : \E k \in 0 .. 2 : own = [i \in 1 .. k |-> Mine(i)]
  <2> TAKE own \in OwnCommits(l)
  <2>1. PICK k \in 0 .. MaxCommits[l] : own = [i \in 1 .. k |-> Mine(i)]  BY DEF OwnCommits
  <2>2. MaxCommits[l] \in 1 .. 2  BY CommitsAssumption
  <2>3. k \in 0 .. 2  BY <2>2
  <2> QED  BY <2>1, <2>3
<1> HIDE DEF Mine
<1>4. ASSUME NEW own \in OwnCommits(l)
      PROVE  /\ own \in Seq(Commits)
             /\ \A i \in DOMAIN own : own[i].lane = l /\ own[i].try = tree[round][l].at
  <2>1. PICK k \in 0 .. 2 : own = [i \in 1 .. k |-> Mine(i)]  BY <1>3
  <2>2. \A i \in 1 .. k : own[i] = Mine(i) /\ i \in 1 .. 2  BY <2>1
  <2>3. own \in Seq(Commits) /\ Len(own) = k  BY <1>2, <2>1, <2>2
  <2> QED  BY <1>2, <2>2, <2>3
<1>5. CASE c \in OwnCommits(l)
  <2>1. Len(c) \in Nat  BY <1>4, <1>5
  <2> WITNESS <<>> \in Seq(Commits), Len(c) \in Nat
  <2> QED  BY <1>4, <1>5
<1>6. CASE \E d \in card.deps[l], own \in OwnCommits(l) : c = chain[d] \o own
  <2>1. PICK d \in card.deps[l], own \in OwnCommits(l) : c = chain[d] \o own  BY <1>6
  <2>2. chain[d] \in Seq(Commits)  BY DEF TypeOK, MergeTypeOK
  <2>3. own \in Seq(Commits)  BY <1>4
  <2>4. Len(own) \in Nat  BY <2>3
  <2> WITNESS chain[d] \in Seq(Commits), Len(own) \in Nat
  <2>5. c \in Seq(Commits) /\ Len(c) = Len(chain[d]) + Len(own)  BY <2>1, <2>2, <2>3
  <2>6. \A i \in DOMAIN chain[d] : c[i] = chain[d][i]  BY <2>1, <2>2, <2>3
  <2>7. \A i \in DOMAIN c : i > Len(chain[d]) =>
            /\ i - Len(chain[d]) \in DOMAIN own
            /\ c[i] = own[i - Len(chain[d])]
    BY <2>1, <2>2, <2>3
  <2> QED  BY <1>4, <2>5, <2>6, <2>7
<1> QED  BY <1>5, <1>6 DEF Chains

LEMMA DepsTyped == MergeTypeOK => card.deps \in [Lane -> SUBSET Lane]
  BY CardAssumption DEF MergeTypeOK

LEMMA SequencesTyped == <<>> \in Seq(Lane) /\ <<>> \in Seq(Commits) /\ <<>> \in Seq(Picks)
  OBVIOUS

LEMMA TypedInit == Init => Typed
<1> SUFFICES ASSUME Init PROVE Typed  OBVIOUS
<1>1. NoTree \in Tree  BY DEF NoTree, Tree, Attempts
<1>2. 0 \in Attempts /\ 1 \in Rounds  BY DEF Attempts, Rounds
<1>3. merge \in MergeLocals  BY NoMergeTyped DEF Init
<1>4. MergeTypeOK
  BY <1>3, SequencesTyped DEF Init, MergeTypeOK, MergeLocals, EachLane, RecordStates
<1>5. tree \in [Rounds -> [Lane -> Tree]]  BY <1>1 DEF Init, EachLane
<1>6. /\ lane \in [Lane -> {"pending", "blocked", "running", "completed", "failed"}]
      /\ job \in [Lane -> JobStates]
      /\ verdict \in [Lane -> {"none", "queued", "running", "approve", "changes_required",
                               "failed"}]
  BY DEF Init, EachLane, JobStates
<1>10. outcome \in Outcomes  BY DEF Init, Outcomes
<1>11. at \in Nat /\ faults \in 0 .. MaxFaults  BY DEF Init
<1>14. trouble \in BOOLEAN  BY Zenon DEF Init
<1>12. round \in Rounds /\ try \in Attempts /\ ahead \subseteq Lane /\ waiting \subseteq Lane
  BY <1>2 DEF Init
<1>13. pc = "stopped"  BY DEF Init
<1>9. TypeOK  BY <1>4, <1>5, <1>6, <1>10, <1>11, <1>12, <1>13,
           <1>14 DEF TypeOK
<1>7. TryIsBounded  BY <1>9, RanTyped DEF Init, TryIsBounded, Ran
<1>8. InPass  BY DEF Init, InPass, Passing, NoMerge
<1> QED  BY <1>7, <1>8, <1>9 DEF Typed

LEMMA TypeStep ==
    ASSUME Typed, [Next]_vars
    PROVE  TypeOK'
<1>1. TypeOK /\ MergeTypeOK /\ InPass /\ merge \in MergeLocals
  BY DEF Typed, TypeOK, MergeTypeOK, MergeLocals
<1>2. NoTree \in Tree /\ NewTree(try) \in Tree
  BY <1>1 DEF TypeOK, NoTree, NewTree, Tree, Attempts
<1>3. \A v : EachLane(v) \in [Lane -> {v}]  BY DEF EachLane
<1> USE DEF mergeVars, mainVars, laneVars, faultVars
<1>4. CASE ParentStarts
  <2>1. \A t \in Tree : Pruned(t) \in Tree  BY <1>2 DEF Pruned, Tree
  <2>2. tree' \in [Rounds -> [Lane -> Tree]]  BY <1>1, <1>4, <2>1 DEF ParentStarts, TypeOK
  <2> QED  BY <1>1, <1>4, <2>2 DEF ParentStarts, TypeOK, MergeTypeOK
<1>5. CASE Spawn
  <2>1. try' \in Attempts  BY <1>5, TryFits DEF Spawn, Typed
  <2>2. MergeTypeOK'
    BY <1>1, <1>3, <1>5, NoMergeTyped, SequencesTyped
    DEF Spawn, MergeTypeOK, MergeLocals, RecordStates, EachLane
  <2>3. /\ lane' \in [Lane -> {"pending", "blocked", "running", "completed", "failed"}]
        /\ job' \in [Lane -> JobStates]
        /\ verdict' \in [Lane -> {"none", "queued", "running", "approve", "changes_required",
                                  "failed"}]
    BY <1>5 DEF Spawn, EachLane, JobStates
  <2>4. /\ pc' = "prepare" /\ at' = 1 /\ ahead' = Lane /\ waiting' = {}
        /\ UNCHANGED <<round, tree, outcome, faults, trouble>>
    BY <1>5 DEF Spawn
  <2> QED  BY <1>1, <2>1, <2>2, <2>3, <2>4 DEF TypeOK
<1>6. CASE PrepareTree
  <2>1. tree' \in [Rounds -> [Lane -> Tree]]
    BY <1>1, <1>2, <1>6 DEF PrepareTree, MadeTree, TypeOK
  <2> QED  BY <1>1, <1>6, <2>1 DEF PrepareTree, TypeOK, MergeTypeOK
<1>7. CASE PrepareFails
  <2>1. tree' \in [Rounds -> [Lane -> Tree]]
    <3>1. CASE tree' = [tree EXCEPT ![round] = [l \in Lane |->
                          IF l \in ToSet(SubSeq(Declared, 1, at)) THEN NoTree ELSE @[l]]]
      BY <1>1, <1>2, <3>1 DEF TypeOK
    <3>2. CASE \E t \in Remains(tree[round][Declared[at]]) :
                  tree' = [tree EXCEPT ![round] = [l \in Lane |->
                             IF l = Declared[at] THEN t
                             ELSE IF l \in ToSet(SubSeq(Declared, 1, at)) THEN NoTree
                             ELSE @[l]]]
      <4>1. PICK t \in Tree :
                  tree' = [tree EXCEPT ![round] = [l \in Lane |->
                             IF l = Declared[at] THEN t
                             ELSE IF l \in ToSet(SubSeq(Declared, 1, at)) THEN NoTree
                             ELSE @[l]]]
        BY <3>2 DEF Remains
      <4> QED  BY <1>1, <1>2, <4>1 DEF TypeOK
    <3> QED  BY <1>7, <3>1, <3>2 DEF PrepareFails
  <2>2. faults' \in 0 .. MaxFaults  BY <1>1, <1>7 DEF PrepareFails, Fault, TypeOK
  <2>3. trouble' \in BOOLEAN
    <3>1. trouble' = trouble \/ trouble' = TRUE  BY <1>7 DEF PrepareFails
    <3> QED  BY <1>1, <3>1 DEF TypeOK
  <2> QED  BY <1>1, <1>7, <2>1, <2>2, <2>3 DEF PrepareFails, TypeOK, MergeTypeOK, Outcomes
<1>8. CASE Prepared \/ StageEnds \/ ChecksPass
  BY <1>1, <1>8 DEF Prepared, StageEnds, ChecksPass, TypeOK, MergeTypeOK
<1>9. CASE Stage
  BY <1>1, <1>9 DEF Stage, NextStage, TypeOK, MergeTypeOK, JobStates
<1>10. CASE Collect
  <2>1. PICK l \in Lane :
           /\ lane' = [lane EXCEPT ![l] = IF job[l] = "done" THEN "completed" ELSE "failed"]
           /\ order' = IF job[l] = "done" THEN Append(order, l) ELSE order
           /\ waiting' = waiting \ {l}
    BY <1>1, <1>10 DEF Collect, NextResult, TypeOK
  <2>2. order' \in Seq(Lane)  BY <1>1, <2>1 DEF MergeTypeOK
  <2> QED  BY <1>1, <1>10, <2>1, <2>2 DEF Collect, TypeOK, MergeTypeOK
<1>11. CASE FanOut
  BY <1>1, <1>11 DEF FanOut, TypeOK, MergeTypeOK
<1>12. CASE BeginMerge
  <2>1. merge' \in MergeLocals /\ head' = head /\ record' \in [Lane -> RecordStates]
    <3>1. head \in Seq(Picks) /\ "gate" \in MergeSteps  BY <1>1 DEF MergeTypeOK, MergeSteps
    <3>2. merge' = [NoMerge EXCEPT !.step = "gate", !.current = head]
      BY <1>12 DEF BeginMerge, StartMerge
    <3>3. merge' \in MergeLocals
      <4> HIDE DEF NoMerge
      <4> QED  BY <3>1, <3>2, NoMergeTyped DEF MergeLocals
    <3> QED  BY <1>12, <3>3 DEF BeginMerge, StartMerge, RecordStates
  <2> QED  BY <1>1, <1>12, <2>1 DEF BeginMerge, TypeOK, MergeTypeOK, MergeLocals
<1>13. CASE Merging
  <2>1. /\ head' \in Seq(Picks) /\ record' \in [Lane -> RecordStates]
        /\ merge' \in MergeLocals
    BY <1>1, <1>13, MergeStepTyped DEF Merging
  <2> QED  BY <1>1, <1>13, <2>1 DEF Merging, TypeOK, MergeTypeOK, MergeLocals
<1>14. CASE \E o \in Outcomes : EndRun(o) /\ UNCHANGED mergeVars
  BY <1>1, <1>14, CleanupCleans DEF EndRun, TypeOK, MergeTypeOK
<1>15. CASE ChecksBreak
  BY <1>1, <1>15 DEF ChecksBreak, Fault, TypeOK, MergeTypeOK, Outcomes
<1>16. CASE AskAgain
  <2>1. round' \in Rounds /\ pc' \in {"idle", "over"} /\ outcome' \in Outcomes
    BY <1>1, <1>16 DEF AskAgain, RoundsLeft, TypeOK, Rounds, Outcomes
  <2>2. Cleanup  BY <1>16 DEF AskAgain
  <2> QED  BY <1>1, <1>16, <2>1, <2>2, CleanupCleans DEF AskAgain, TypeOK, MergeTypeOK
<1>17. ASSUME NEW l \in Lane, TakeJob(l) \/ WorkerFails(l) \/ TakeReview(l) \/ Reviewed(l)
       PROVE  TypeOK'
  <2>1. CASE TakeJob(l)  BY <1>1, <2>1 DEF TakeJob, TypeOK, MergeTypeOK, JobStates
  <2>2. CASE WorkerFails(l)  BY <1>1, <2>2 DEF WorkerFails, TypeOK, MergeTypeOK, JobStates
  <2>3. CASE TakeReview(l)  BY <1>1, <2>3 DEF TakeReview, TypeOK, MergeTypeOK
  <2>4. CASE Reviewed(l)  BY <1>1, <2>4 DEF Reviewed, TypeOK, MergeTypeOK
  <2> QED  BY <1>17, <2>1, <2>2, <2>3, <2>4
<1>18. ASSUME NEW l \in Lane, WorkerDone(l)  PROVE TypeOK'
  <2>1. PICK c \in Chains(l) : chain' = [chain EXCEPT ![l] = c]  BY <1>18 DEF WorkerDone
  <2>2. c \in Seq(Commits)  BY <1>1, DepsTyped, WorkerChain
  <2>3. MergeTypeOK'  BY <1>1, <1>18, <2>1, <2>2 DEF WorkerDone, MergeTypeOK
  <2> QED  BY <1>1, <1>18, <2>3 DEF WorkerDone, TypeOK, JobStates
<1>19. CASE Crash
  <2>1. MergeTypeOK'
    BY <1>1, <1>19, NoMergeTyped, SequencesTyped
    DEF Crash, MergeTypeOK, MergeLocals, RecordStates, EachLane
  <2>2. /\ lane' \in [Lane -> {"pending", "blocked", "running", "completed", "failed"}]
        /\ job' \in [Lane -> JobStates]
        /\ verdict' \in [Lane -> {"none", "queued", "running", "approve", "changes_required",
                                  "failed"}]
    BY <1>19 DEF Crash, EachLane, JobStates
  <2>3. /\ pc' = "stopped" /\ at' = 1 /\ ahead' = Lane /\ waiting' = {}
        /\ UNCHANGED <<round, try, tree, outcome, trouble>>
    BY <1>19 DEF Crash
  <2>4. faults' \in 0 .. MaxFaults  BY <1>1, <1>19 DEF Crash, Fault, TypeOK
  <2> QED  BY <1>1, <2>1, <2>2, <2>3, <2>4 DEF TypeOK
<1>20. CASE MoveHead
  <2>1. head' \in Seq(Picks)
    <3>1. CASE head' = Append(head, Original([lane |-> Nobody, try |-> try, n |-> 1]))
      BY <1>1, <3>1 DEF Original, Picks, Commits, TypeOK, MergeTypeOK
    <3>2. CASE \E l \in Lane : head' = [i \in DOMAIN chain[l] |-> Original(chain[l][i])]
      <4>1. PICK l \in Lane : head' = [i \in DOMAIN chain[l] |-> Original(chain[l][i])]
        BY <3>2
      <4>2. chain[l] \in Seq(Commits) /\ DOMAIN chain[l] = 1 .. Len(chain[l])
        BY <1>1 DEF MergeTypeOK
      <4>3. \A c \in Commits : Original(c) \in Picks  BY DEF Original, Picks
      <4> QED  BY <4>1, <4>2, <4>3
    <3> QED  BY <1>20, <3>1, <3>2 DEF MoveHead
  <2> QED  BY <1>1, <1>20, <2>1 DEF MoveHead, Fault, TypeOK, MergeTypeOK
<1>21. CASE RunAgain
  <2>1. MergeTypeOK'
    BY <1>1, <1>21, NoMergeTyped, SequencesTyped
    DEF RunAgain, MergeTypeOK, MergeLocals, RecordStates, EachLane
  <2>2. round' \in Rounds /\ outcome' \in Outcomes /\ pc' = "stopped"
    BY <1>21 DEF RunAgain, Rounds, Outcomes
  <2> QED  BY <1>1, <1>21, <2>1, <2>2 DEF RunAgain, Fault, TypeOK
<1>22. CASE UNCHANGED vars
  BY <1>1, <1>22 DEF vars, TypeOK, MergeTypeOK
<1>23. CASE LanesFailed \/ LanesRejected \/ MergeRaised \/ ChecksFail \/ Approve
  BY <1>14, <1>23 DEF LanesFailed, LanesRejected, MergeRaised, ChecksFail, Approve, Outcomes
<1> HIDE DEF mergeVars, mainVars, laneVars, faultVars
<1> QED
  BY <1>4, <1>5, <1>6, <1>7, <1>8, <1>9, <1>10, <1>11, <1>12, <1>13, <1>15, <1>16, <1>17, <1>18,
     <1>19, <1>20, <1>21, <1>22, <1>23
  DEF Next, Main, Pool, Over

LEMMA PassStep ==
    ASSUME Typed, [Next]_vars
    PROVE  InPass'
<1>1. TypeOK /\ MergeTypeOK /\ InPass  BY DEF Typed, TypeOK
<1>2. CASE merge' = merge  BY <1>1, <1>2 DEF InPass, Passing
<1>3. CASE merge' = NoMerge  BY <1>3 DEF InPass, Passing, NoMerge
<1>4. CASE BeginMerge
  <2>1. merge'.step = "gate"  BY <1>4 DEF BeginMerge, StartMerge, NoMerge
  <2> QED  BY <2>1 DEF InPass, Passing
<1>5. CASE Merging  BY <1>1, <1>5, MergeStepTyped DEF Merging
<1>6. CASE Spawn \/ Crash \/ RunAgain  BY <1>3, <1>6 DEF Spawn, Crash, RunAgain
<1>7. CASE \/ ParentStarts \/ PrepareTree \/ PrepareFails \/ Prepared \/ Stage \/ Collect
           \/ StageEnds \/ LanesFailed \/ FanOut \/ LanesRejected \/ MergeRaised
           \/ ChecksFail \/ ChecksBreak \/ ChecksPass \/ Approve \/ AskAgain \/ MoveHead
  BY <1>2, <1>7
  DEF mergeVars, ParentStarts, PrepareTree, PrepareFails, Prepared, Stage, Collect, StageEnds,
      LanesFailed, FanOut, LanesRejected, MergeRaised, ChecksFail, ChecksBreak, ChecksPass,
      Approve, AskAgain, MoveHead
<1>8. CASE \E l \in Lane : Pool(l)
  BY <1>2, <1>8
  DEF mergeVars, Pool, TakeJob, WorkerDone, WorkerFails, TakeReview, Reviewed
<1>9. CASE UNCHANGED vars  BY <1>2, <1>9 DEF vars, mergeVars
<1> QED  BY <1>4, <1>5, <1>6, <1>7, <1>8, <1>9 DEF Next, Main, Over

(* A step that spawns nobody, in the same round and on the same side of    *)
(* the spawn.                                                              *)
LEMMA TryKept ==
    ASSUME TypeOK, TryIsBounded, TypeOK', round' = round, try' = try, faults <= faults',
           pc' \in {"stopped", "idle"} => pc \in {"stopped", "idle"}
    PROVE  TryIsBounded'
<1>1. /\ faults \in 0 .. MaxFaults /\ faults' \in 0 .. MaxFaults
      /\ round \in Nat /\ try \in Nat
  BY DEF TypeOK, Rounds, Attempts
<1>2. Again(faults) \in Nat /\ Again(faults') \in Nat /\ Again(faults) <= Again(faults')
  BY <1>1, AgainMonotone, AgainGrows
<1> QED  BY <1>1, <1>2 DEF TryIsBounded, Ran

LEMMA TryStep ==
    ASSUME Typed, [Next]_vars
    PROVE  TryIsBounded'
<1>1. TypeOK /\ TryIsBounded /\ TypeOK'  BY TypeStep DEF Typed
<1>2. /\ faults \in 0 .. MaxFaults /\ faults' \in 0 .. MaxFaults
      /\ round \in 1 .. MaxRounds /\ try \in Nat /\ Again(faults) \in Nat /\ Again(faults') \in Nat
  BY <1>1, AgainGrows DEF TypeOK, Rounds, Attempts
<1> USE DEF mainVars, faultVars
<1>3. CASE Spawn  BY <1>1, <1>2, <1>3 DEF Spawn, TryIsBounded, Ran
<1>4. CASE Crash
  <2>1. faults' = faults + 1  BY <1>4 DEF Crash, Fault
  <2>2. Again(faults') = Again(faults) + MaxRounds  BY <1>2, <2>1, AgainGrows
  <2>3. try <= round + Again(faults)  BY <1>1, <1>2 DEF TryIsBounded, Ran
  <2>4. try' <= round' + Again(faults') - 1  BY <1>2, <1>4, <2>2, <2>3 DEF Crash
  <2>5. pc' = "stopped" /\ round' \in Nat  BY <1>2, <1>4 DEF Crash
  <2> QED  BY <1>2, <2>4, <2>5 DEF TryIsBounded, Ran
<1>5. CASE RunAgain
  <2>1. faults' = faults + 1  BY <1>5 DEF RunAgain, Fault
  <2>2. Again(faults') = Again(faults) + MaxRounds  BY <1>2, <2>1, AgainGrows
  <2>3. try <= round + Again(faults)  BY <1>1, <1>2 DEF TryIsBounded, Ran
  <2>4. try' <= round' + Again(faults') - 1  BY <1>2, <1>5, <2>2, <2>3 DEF RunAgain
  <2>5. pc' = "stopped" /\ round' \in Nat  BY <1>2, <1>5 DEF RunAgain
  <2> QED  BY <1>2, <2>4, <2>5 DEF TryIsBounded, Ran
<1>6. CASE AskAgain
  <2>1. faults' \in {faults, faults + 1}  BY <1>1, <1>6, CleanupCleans DEF AskAgain
  <2>2. Again(faults) <= Again(faults')  BY <1>2, <2>1, AgainMonotone
  <2>3. try' = try /\ try <= round + Again(faults)
    BY <1>1, <1>2, <1>6 DEF AskAgain, TryIsBounded, Ran
  <2>4. CASE pc' = "idle" /\ round' = round + 1
    BY <1>2, <2>2, <2>3, <2>4 DEF TryIsBounded, Ran
  <2>5. CASE pc' = "over" /\ round' = round
    BY <1>2, <2>2, <2>3, <2>5 DEF TryIsBounded, Ran
  <2> QED  BY <1>6, <2>4, <2>5 DEF AskAgain
<1>7. CASE \E o \in Outcomes : EndRun(o)
  <2>1. faults <= faults'  BY <1>1, <1>2, <1>7, CleanupCleans DEF EndRun
  <2> QED  BY <1>1, <1>7, <2>1, TryKept DEF EndRun
<1>8. CASE LanesFailed \/ LanesRejected \/ MergeRaised \/ ChecksFail \/ Approve
  BY <1>7, <1>8 DEF LanesFailed, LanesRejected, MergeRaised, ChecksFail, Approve, Outcomes
<1>9. CASE PrepareFails \/ ChecksBreak \/ MoveHead
  <2>1. faults' = faults + 1  BY <1>9 DEF PrepareFails, ChecksBreak, MoveHead, Fault
  <2> QED  BY <1>1, <1>2, <1>9, <2>1, TryKept DEF PrepareFails, ChecksBreak, MoveHead
<1>10. CASE \/ ParentStarts \/ PrepareTree \/ Prepared \/ Stage \/ Collect \/ StageEnds \/ FanOut
            \/ BeginMerge \/ Merging \/ ChecksPass
  <2>1. /\ faults' = faults /\ round' = round /\ try' = try
        /\ pc' \in {"stopped", "idle"} => pc = "stopped"
    BY <1>10
    DEF ParentStarts, PrepareTree, Prepared, Stage, Collect, StageEnds, FanOut, BeginMerge,
        Merging, ChecksPass
  <2> QED  BY <1>1, <1>2, <2>1, TryKept
<1>11. CASE \E l \in Lane : Pool(l)
  <2>1. faults' = faults /\ round' = round /\ try' = try /\ pc' = pc
    BY <1>11 DEF Pool, TakeJob, WorkerDone, WorkerFails, TakeReview, Reviewed
  <2> QED  BY <1>1, <1>2, <2>1, TryKept
<1>12. CASE UNCHANGED vars
  <2>1. faults' = faults /\ round' = round /\ try' = try /\ pc' = pc  BY <1>12 DEF vars
  <2> QED  BY <1>1, <1>2, <2>1, TryKept
<1> QED
  BY <1>3, <1>4, <1>5, <1>6, <1>8, <1>9, <1>10, <1>11, <1>12 DEF Next, Main, Over

LEMMA TypedStep == Typed /\ [Next]_vars => Typed'
  BY TypeStep, TryStep, PassStep DEF Typed

(* Every variable stays in its type, and the attempts within their bound:  *)
(* a child for each round, and after a fault for each round again.         *)
THEOREM TypeCorrect == Spec => []TypeOK
<1>1. Init => Typed  BY TypedInit
<1>2. Typed /\ [Next]_vars => Typed'  BY TypedStep
<1>3. Typed => TypeOK  BY DEF Typed
<1> QED  BY <1>1, <1>2, <1>3, PTL DEF Spec

-----------------------------------------------------------------------------
(* The lanes of a round and the pool.                                      *)

(* What the main thread and the pool's threads know of each lane agrees:   *)
(* pending lanes are those of the stages to come, running ones those whose *)
(* results are not in, and only a lane in the pool has a job at work.      *)
Planned ==
    /\ waiting # {} => pc = "collect"
    /\ pc = "prepare" => ahead = Lane
    /\ \A l \in Lane :
          /\ l \in ahead <=> lane[l] = "pending"
          /\ l \in waiting <=> lane[l] = "running"
          /\ job[l] \in {"queued", "working"} => l \in waiting
          /\ job[l] # "none" => lane[l] \in {"running", "completed", "failed"}

(* Steps that concern neither the lanes nor the pool of their workers.     *)
Quiet ==
    /\ UNCHANGED <<card, try, ahead, waiting, lane, job, order, chain>>
    /\ \/ pc' = pc
       \/ pc' # "prepare" /\ (pc = "collect" => waiting = {})

LEMMA OtherSteps ==
    ASSUME [Next]_vars
    PROVE  \/ Spawn \/ Stage \/ Collect \/ Crash
           \/ \E l \in Lane : TakeJob(l) \/ WorkerDone(l) \/ WorkerFails(l)
           \/ Quiet
<1> USE DEF Quiet, mainVars, laneVars
<1>1. CASE \/ ParentStarts \/ PrepareTree \/ PrepareFails \/ Prepared \/ StageEnds
  BY <1>1 DEF ParentStarts, PrepareTree, PrepareFails, Prepared, StageEnds
<1>2. CASE LanesFailed \/ FanOut \/ LanesRejected \/ BeginMerge
  BY <1>2 DEF LanesFailed, FanOut, LanesRejected, BeginMerge, EndRun, LanesDone, StagesDone,
              ReviewsIn
<1>3. CASE Merging \/ MergeRaised \/ ChecksFail \/ ChecksBreak \/ ChecksPass \/ Approve
  BY <1>3 DEF Merging, MergeRaised, ChecksFail, ChecksBreak, ChecksPass, Approve, EndRun
<1>4. CASE AskAgain \/ MoveHead \/ RunAgain \/ UNCHANGED vars
  BY <1>4 DEF AskAgain, MoveHead, RunAgain, vars
<1>5. ASSUME NEW l \in Lane, TakeReview(l) \/ Reviewed(l)  PROVE Quiet
  BY <1>5 DEF TakeReview, Reviewed
<1> HIDE DEF Quiet, mainVars, laneVars
<1> QED  BY <1>1, <1>2, <1>3, <1>4, <1>5 DEF Next, Main, Pool, Over

LEMMA PlannedStep ==
    ASSUME TypeOK, Planned, [Next]_vars
    PROVE  Planned'
<1>1. /\ lane \in [Lane -> {"pending", "blocked", "running", "completed", "failed"}]
      /\ job \in [Lane -> JobStates] /\ ahead \subseteq Lane /\ waiting \subseteq Lane
  BY DEF TypeOK
<1>2. CASE Spawn \/ Crash
  <2>1. /\ lane' = [l \in Lane |-> "pending"] /\ job' = [l \in Lane |-> "none"]
        /\ ahead' = Lane /\ waiting' = {}
    BY <1>2 DEF Spawn, Crash, EachLane
  <2> QED  BY <2>1 DEF Planned
<1>3. CASE Stage
  <2> DEFINE here == NextStage(card.deps, ahead)
             free == {l \in here : ~Blocked(l)}
  <2>1. here \subseteq ahead /\ free \subseteq here  BY DEF NextStage
  <2>2. waiting = {}  BY <1>3 DEF Stage, Planned
  <2>3. /\ ahead' = ahead \ here /\ waiting' = free /\ pc' = "collect"
        /\ lane' = [l \in Lane |-> IF l \in free THEN "running"
                                   ELSE IF l \in here THEN "blocked" ELSE lane[l]]
        /\ job' = [l \in Lane |-> IF l \in free THEN "queued" ELSE job[l]]
    BY <1>3 DEF Stage
  <2> HIDE DEF here, free
  <2> QED  BY <1>1, <2>1, <2>2, <2>3 DEF Planned
<1>4. CASE Collect
  <2>1. PICK l \in waiting :
           /\ Finished(l) /\ waiting' = waiting \ {l}
           /\ lane' = [lane EXCEPT ![l] = IF job[l] = "done" THEN "completed" ELSE "failed"]
    BY <1>4 DEF Collect, NextResult
  <2>2. UNCHANGED <<pc, ahead, job>>  BY <1>4 DEF Collect
  <2> QED  BY <1>1, <2>1, <2>2 DEF Planned, Finished
<1>5. ASSUME NEW l \in Lane, TakeJob(l) \/ WorkerDone(l) \/ WorkerFails(l)  PROVE Planned'
  <2>1. UNCHANGED <<pc, ahead, waiting, lane>> /\ job[l] \in {"queued", "working"}
    BY <1>5 DEF TakeJob, WorkerDone, WorkerFails, mainVars
  <2>2. PICK s \in {"working", "done", "failed"} : job' = [job EXCEPT ![l] = s]
    BY <1>5 DEF TakeJob, WorkerDone, WorkerFails
  <2> QED  BY <1>1, <2>1, <2>2 DEF Planned
<1>6. CASE Quiet  BY <1>6 DEF Quiet, Planned
<1> QED  BY <1>2, <1>3, <1>4, <1>5, <1>6, OtherSteps

LEMMA DependenciesStep ==
    ASSUME TypeOK, Planned, DependenciesCompleteFirst, [Next]_vars
    PROVE  DependenciesCompleteFirst'
<1>1. /\ lane \in [Lane -> {"pending", "blocked", "running", "completed", "failed"}]
      /\ job \in [Lane -> JobStates] /\ ahead \subseteq Lane /\ waiting \subseteq Lane
      /\ card.deps \in [Lane -> SUBSET Lane]
  BY DepsTyped DEF TypeOK
<1>2. CASE Spawn \/ Crash
  <2>1. job' = [l \in Lane |-> "none"]  BY <1>2 DEF Spawn, Crash, EachLane
  <2> QED  BY <2>1 DEF DependenciesCompleteFirst
<1>3. CASE Stage
  <2> DEFINE here == NextStage(card.deps, ahead)
             free == {l \in here : ~Blocked(l)}
  <2>1. /\ here \subseteq ahead /\ free \subseteq here
        /\ \A l \in free : \A d \in card.deps[l] : lane[d] = "completed"
    BY DEF NextStage, Blocked
  <2>2. /\ lane' = [l \in Lane |-> IF l \in free THEN "running"
                                   ELSE IF l \in here THEN "blocked" ELSE lane[l]]
        /\ job' = [l \in Lane |-> IF l \in free THEN "queued" ELSE job[l]]
        /\ card' = card
    BY <1>3 DEF Stage
  <2> HIDE DEF here, free
  <2> QED  BY <1>1, <2>1, <2>2 DEF Planned, DependenciesCompleteFirst
<1>4. CASE Collect
  <2>1. PICK l \in waiting :
           lane' = [lane EXCEPT ![l] = IF job[l] = "done" THEN "completed" ELSE "failed"]
    BY <1>4 DEF Collect, NextResult
  <2>2. UNCHANGED <<card, job>>  BY <1>4 DEF Collect
  <2> QED  BY <1>1, <2>1, <2>2 DEF Planned, DependenciesCompleteFirst
<1>5. ASSUME NEW l \in Lane, TakeJob(l) \/ WorkerDone(l) \/ WorkerFails(l)
      PROVE  DependenciesCompleteFirst'
  <2>1. UNCHANGED <<card, lane>> /\ job[l] # "none"
    BY <1>5 DEF TakeJob, WorkerDone, WorkerFails
  <2>2. PICK s \in {"working", "done", "failed"} : job' = [job EXCEPT ![l] = s]
    BY <1>5 DEF TakeJob, WorkerDone, WorkerFails
  <2> QED  BY <1>1, <2>1, <2>2 DEF DependenciesCompleteFirst
<1>6. CASE Quiet  BY <1>6 DEF Quiet, DependenciesCompleteFirst
<1> QED  BY <1>2, <1>3, <1>4, <1>5, <1>6, OtherSteps

(* The lanes in the order are the completed ones, and a lane is blocked    *)
(* only if some lane failed.                                               *)
Ordered ==
    /\ ToSet(order) = {l \in Lane : lane[l] = "completed"}
    /\ \A l \in Lane : lane[l] = "blocked" => \E m \in Lane : lane[m] = "failed"

LEMMA OrderedStep ==
    ASSUME TypeOK, Planned, Ordered, [Next]_vars
    PROVE  Ordered'
<1>1. /\ lane \in [Lane -> {"pending", "blocked", "running", "completed", "failed"}]
      /\ ahead \subseteq Lane /\ waiting \subseteq Lane
      /\ card.deps \in [Lane -> SUBSET Lane] /\ order \in Seq(Lane)
  BY DepsTyped DEF TypeOK, MergeTypeOK
<1>2. CASE Spawn \/ Crash
  <2>1. lane' = [l \in Lane |-> "pending"] /\ order' = <<>>
    BY <1>2 DEF Spawn, Crash, EachLane
  <2> QED  BY <2>1 DEF Ordered, ToSet
<1>3. CASE Stage
  <2> DEFINE here == NextStage(card.deps, ahead)
             free == {l \in here : ~Blocked(l)}
  <2>1. /\ waiting = {} /\ order' = order
        /\ lane' = [l \in Lane |-> IF l \in free THEN "running"
                                   ELSE IF l \in here THEN "blocked" ELSE lane[l]]
    BY <1>3 DEF Stage, Planned
  <2>2. /\ here \subseteq ahead /\ free \subseteq here
        /\ \A l \in here : \A d \in card.deps[l] : d \notin ahead
        /\ \A l \in here \ free : \E d \in card.deps[l] : lane[d] # "completed"
    BY DEF NextStage, Blocked
  <2> HIDE DEF here, free
  <2>3. \A l \in Lane : lane'[l] = "completed" <=> lane[l] = "completed"
    BY <1>1, <2>1, <2>2 DEF Planned
  <2>4. \A l \in Lane : lane[l] = "failed" => lane'[l] = "failed"
    BY <1>1, <2>1, <2>2 DEF Planned
  <2>5. ASSUME NEW l \in Lane, lane'[l] = "blocked"
        PROVE  \E m \in Lane : lane[m] = "failed"
    <3>1. CASE lane[l] = "blocked"  BY <3>1 DEF Ordered
    <3>2. CASE lane[l] # "blocked"
      <4>1. l \in here \ free  BY <1>1, <2>1, <2>5, <3>2
      <4>2. PICK d \in card.deps[l] : lane[d] # "completed"  BY <2>2, <4>1
      <4>3. d \in Lane /\ lane[d] \in {"blocked", "failed"}
        BY <1>1, <2>1, <2>2, <4>1, <4>2 DEF Planned
      <4> QED  BY <4>3 DEF Ordered
    <3> QED  BY <3>1, <3>2
  <2> QED  BY <2>1, <2>3, <2>4, <2>5 DEF Ordered
<1>4. CASE Collect
  <2>1. PICK l \in waiting :
           /\ lane' = [lane EXCEPT ![l] = IF job[l] = "done" THEN "completed" ELSE "failed"]
           /\ order' = IF job[l] = "done" THEN Append(order, l) ELSE order
    BY <1>4 DEF Collect, NextResult
  <2>2. lane[l] = "running" /\ l \in Lane  BY <1>1, <2>1 DEF Planned
  <2>3. \A k \in Lane : lane'[k] = "blocked" => lane[k] = "blocked"  BY <1>1, <2>1, <2>2
  <2>4. \A k \in Lane : lane[k] = "failed" => lane'[k] = "failed"  BY <1>1, <2>1, <2>2
  <2>5. CASE job[l] = "done"
    <3>1. ToSet(Append(order, l)) = ToSet(order) \cup {l}  BY <1>1, <2>2 DEF ToSet
    <3> QED  BY <1>1, <2>1, <2>2, <2>3, <2>4, <2>5, <3>1 DEF Ordered
  <2>6. CASE job[l] # "done"
    BY <1>1, <2>1, <2>2, <2>3, <2>4, <2>6 DEF Ordered
  <2> QED  BY <2>5, <2>6
<1>5. CASE \E l \in Lane : TakeJob(l) \/ WorkerDone(l) \/ WorkerFails(l)
  <2>1. UNCHANGED <<lane, order>>  BY <1>5 DEF TakeJob, WorkerDone, WorkerFails
  <2> QED  BY <2>1 DEF Ordered
<1>6. CASE Quiet
  <2>1. UNCHANGED <<lane, order>>  BY <1>6 DEF Quiet
  <2> QED  BY <2>1 DEF Ordered
<1> QED  BY <1>2, <1>3, <1>4, <1>5, <1>6, OtherSteps

-----------------------------------------------------------------------------
(* The order of the lanes.                                                 *)

(* k stages have begun, and `stage` numbers their lanes.  The lanes to come *)
(* that are next depend on one of the last of these; the lanes waited for  *)
(* are of the last, and behind every lane in the order.                    *)
Numbering(k, stage) ==
    /\ k + Cardinality(ahead) <= Cardinality(Lane)
    /\ \A l \in Lane \ ahead : /\ stage[l] \in 1 .. k /\ RightStage(stage, l)
                               /\ card.deps[l] \cap ahead = {}
    /\ k = 0 \/ \A l \in ahead : \E d \in card.deps[l] : d \in ahead \/ stage[d] = k
    /\ \A l \in waiting : /\ stage[l] = k
                          /\ \A i \in DOMAIN order : Precedes(stage, order[i], l)
    /\ \A i, j \in DOMAIN order : i < j => Precedes(stage, order[i], order[j])

Staged == \E k \in Nat, stage \in [Lane -> 1 .. Cardinality(Lane)] : Numbering(k, stage)

LEMMA LanesFinite == IsFiniteSet(Lane)
<1>1. Declared \in Seq(Lane) /\ ToSet(Declared) = Lane  BY DeclaredAssumption
<1>2. Len(Declared) \in Nat /\ DOMAIN Declared = 1 .. Len(Declared)  BY <1>1
<1>3. IsFiniteSet(1 .. Len(Declared))  BY <1>2, FS_Interval
<1>4. Declared \in Surjection(1 .. Len(Declared), Lane)
  BY <1>1, <1>2 DEF ToSet, Surjection
<1> QED  BY <1>3, <1>4, FS_Surjection

LEMMA LanesCount ==
    ASSUME NEW S \in SUBSET Lane
    PROVE  /\ Cardinality(S) \in Nat /\ Cardinality(Lane) \in Nat
           /\ Cardinality(S) <= Cardinality(Lane)
           /\ \A l \in Lane : 1 \in 1 .. Cardinality(Lane)
           /\ \A T \in SUBSET S : T # {} => Cardinality(S \ T) < Cardinality(S)
<1>1. IsFiniteSet(S) /\ Cardinality(S) <= Cardinality(Lane)  BY LanesFinite, FS_Subset
<1>2. Cardinality(S) \in Nat /\ Cardinality(Lane) \in Nat
  BY <1>1, LanesFinite, FS_CardinalityType
<1>3. ASSUME NEW l \in Lane  PROVE Cardinality(Lane) # 0
  BY LanesFinite, FS_EmptySet
<1>4. ASSUME NEW T \in SUBSET S, T # {}  PROVE Cardinality(S \ T) < Cardinality(S)
  <2>1. S \ T \in SUBSET S /\ S \ T # S  BY <1>4
  <2>2. /\ Cardinality(S \ T) <= Cardinality(S) /\ Cardinality(S) # Cardinality(S \ T)
        /\ IsFiniteSet(S \ T)
    BY <1>1, <2>1, FS_Subset
  <2>3. Cardinality(S \ T) \in Nat  BY <2>2, FS_CardinalityType
  <2> QED  BY <1>2, <2>2, <2>3
<1> QED  BY <1>1, <1>2, <1>3, <1>4

(* The declared order is total.                                            *)
LEMMA DeclaredTotal ==
    ASSUME NEW k \in Lane, NEW l \in Lane, k # l, ~Before(k, l)
    PROVE  Before(l, k)
<1>1. Declared \in Seq(Lane) /\ ToSet(Declared) = Lane  BY DeclaredAssumption
<1>2. DOMAIN Declared \subseteq Nat  BY <1>1
<1>3. PICK i \in DOMAIN Declared, j \in DOMAIN Declared : Declared[i] = k /\ Declared[j] = l
  BY <1>1 DEF ToSet
<1>4. i # j /\ ~(i < j)  BY <1>3 DEF Before
<1>5. j < i  BY <1>2, <1>4
<1> QED  BY <1>3, <1>5 DEF Before

LEMMA BeginsStaged ==
    ASSUME ahead = Lane, waiting = {}, order = <<>>
    PROVE  Staged
<1> DEFINE stage == [l \in Lane |-> 1]
<1>1. stage \in [Lane -> 1 .. Cardinality(Lane)]  BY LanesCount
<1>2. Cardinality(Lane) \in Nat  BY LanesCount
<1>3. Numbering(0, stage)  BY <1>2 DEF Numbering
<1> QED  BY <1>1, <1>3 DEF Staged

LEMMA StagedStep ==
    ASSUME TypeOK, Planned, Ordered, Staged, [Next]_vars
    PROVE  Staged'
<1>1. /\ lane \in [Lane -> {"pending", "blocked", "running", "completed", "failed"}]
      /\ ahead \subseteq Lane /\ waiting \subseteq Lane /\ order \in Seq(Lane)
      /\ card \in Cards /\ card.deps \in [Lane -> SUBSET Lane]
  BY DepsTyped DEF TypeOK, MergeTypeOK
<1>2. /\ waiting \cap ahead = {}
      /\ \A i \in DOMAIN order : order[i] \in Lane /\ order[i] \notin ahead
  <2>1. \A i \in DOMAIN order : order[i] \in Lane /\ lane[order[i]] = "completed"
    BY <1>1 DEF Ordered, ToSet
  <2> QED  BY <1>1, <2>1 DEF Planned
<1>3. PICK k \in Nat, stage \in [Lane -> 1 .. Cardinality(Lane)] : Numbering(k, stage)
  BY DEF Staged
<1>4. CASE Spawn \/ Crash
  <2>1. ahead' = Lane /\ waiting' = {} /\ order' = <<>>  BY <1>4 DEF Spawn, Crash
  <2>2. Cardinality(Lane) \in Nat  BY LanesCount
  <2>3. Numbering(0, stage)'  BY <2>1, <2>2 DEF Numbering
  <2> QED  BY <2>3 DEF Staged
<1>5. CASE Stage
  <2> DEFINE here == NextStage(card.deps, ahead)
             free == {l \in here : ~Blocked(l)}
  <2>1. /\ ahead' = ahead \ here /\ waiting' = free /\ UNCHANGED <<card, order>>
        /\ ahead # {}
    BY <1>5 DEF Stage
  <2>2. /\ here \subseteq ahead /\ free \subseteq here
        /\ \A l \in here : card.deps[l] \cap ahead = {}
        /\ \A l \in ahead \ here : \E d \in card.deps[l] : d \in ahead
    BY DEF NextStage
  <2>3. here # {}
    <3>1. Acyclic(card.deps)  BY <1>1, CardAssumption
    <3>2. \E l \in ahead : card.deps[l] \cap ahead = {}  BY <1>1, <2>1, <3>1 DEF Acyclic
    <3> QED  BY <3>2 DEF NextStage
  <2> HIDE DEF here, free
  <2>4. /\ Cardinality(ahead \ here) < Cardinality(ahead)
        /\ Cardinality(ahead \ here) \in Nat /\ Cardinality(ahead) \in Nat
        /\ Cardinality(Lane) \in Nat
    <3>1. here \in SUBSET ahead /\ ahead \ here \in SUBSET Lane  BY <1>1, <2>2
    <3> QED  BY <1>1, <2>3, <3>1, LanesCount
  <2>5. k + 1 + Cardinality(ahead \ here) <= Cardinality(Lane)
    BY <1>3, <2>4 DEF Numbering
  <2>6. k + 1 \in 1 .. Cardinality(Lane)  BY <2>4, <2>5
  <2>7. [l \in Lane |-> IF l \in here THEN k + 1 ELSE stage[l]]
           \in [Lane -> 1 .. Cardinality(Lane)]
    BY <2>6
  <2>8. PICK next \in [Lane -> 1 .. Cardinality(Lane)] :
           /\ \A l \in here : next[l] = k + 1
           /\ \A l \in Lane \ here : next[l] = stage[l]
    BY <1>1, <2>2, <2>7
  <2>9. \A l \in Lane : stage[l] \in Nat  BY <2>4
  <2>10. ASSUME NEW l \in here
         PROVE  /\ next[l] \in 1 .. k + 1 /\ card.deps[l] \cap (ahead \ here) = {}
                /\ \A d \in card.deps[l] : next[d] < next[l]
                /\ next[l] = 1 \/ \E d \in card.deps[l] : next[d] = next[l] - 1
    <3>1. l \in ahead /\ l \in Lane  BY <1>1, <2>2
    <3>2. \A d \in card.deps[l] : d \in Lane \ ahead  BY <1>1, <2>2, <3>1
    <3>3. \A d \in card.deps[l] : next[d] = stage[d] /\ stage[d] \in 1 .. k
      BY <1>3, <2>2, <2>8, <3>2 DEF Numbering
    <3>4. k = 0 \/ \E d \in card.deps[l] : stage[d] = k
      BY <1>3, <2>2, <3>1 DEF Numbering
    <3> QED  BY <2>2, <2>8, <3>3, <3>4
  <2>11. ASSUME NEW l \in Lane \ ahead
         PROVE  /\ next[l] \in 1 .. k + 1 /\ card.deps[l] \cap (ahead \ here) = {}
                /\ \A d \in card.deps[l] : next[d] < next[l]
                /\ next[l] = 1 \/ \E d \in card.deps[l] : next[d] = next[l] - 1
    <3>1. /\ stage[l] \in 1 .. k /\ card.deps[l] \cap ahead = {} /\ RightStage(stage, l)
      BY <1>3 DEF Numbering
    <3>2. next[l] = stage[l]  BY <2>2, <2>8
    <3>3. \A d \in card.deps[l] : next[d] = stage[d]  BY <1>1, <2>2, <2>8, <3>1
    <3> QED  BY <3>1, <3>2, <3>3 DEF RightStage
  <2>12. \A l \in Lane \ (ahead \ here) : l \in here \/ l \in Lane \ ahead  OBVIOUS
  <2>13. \A l \in ahead \ here : \E d \in card.deps[l] : d \in ahead \ here \/ next[d] = k + 1
    BY <2>2, <2>8
  <2>14. ASSUME NEW i \in DOMAIN order
         PROVE  next[order[i]] = stage[order[i]] /\ stage[order[i]] \in 1 .. k
    BY <1>2, <1>3, <2>2, <2>8 DEF Numbering
  <2>15. \A l \in free : next[l] = k + 1 /\ \A i \in DOMAIN order : Precedes(next, order[i], l)
    BY <2>2, <2>8, <2>14 DEF Precedes
  <2>16. \A i, j \in DOMAIN order : i < j => Precedes(next, order[i], order[j])
    BY <1>3, <2>14 DEF Numbering, Precedes
  <2>17. \A l \in Lane \ ahead' : /\ next[l] \in 1 .. k + 1 /\ RightStage(next, l)'
                                  /\ card'.deps[l] \cap ahead' = {}
    BY <2>1, <2>10, <2>11, <2>12 DEF RightStage
  <2>18. Numbering(k + 1, next)'
    BY <2>1, <2>5, <2>13, <2>15, <2>16, <2>17 DEF Numbering, Precedes
  <2> QED  BY <2>18 DEF Staged
<1>6. CASE Collect
  <2>1. PICK l \in waiting :
           /\ \A m \in waiting : ~Before(m, l)
           /\ waiting' = waiting \ {l}
           /\ order' = IF job[l] = "done" THEN Append(order, l) ELSE order
    BY <1>6 DEF Collect, NextResult
  <2>2. UNCHANGED <<card, ahead>>  BY <1>6 DEF Collect
  <2>3. \A m \in waiting \ {l} : Before(l, m)  BY <1>1, <2>1, DeclaredTotal
  <2>4. CASE job[l] # "done"
    BY <1>3, <2>1, <2>2, <2>4 DEF Staged, Numbering, RightStage, Precedes
  <2>5. CASE job[l] = "done"
    <3>1. /\ DOMAIN order = 1 .. Len(order) /\ Len(order) \in Nat
          /\ DOMAIN order' = 1 .. Len(order) + 1
          /\ order'[Len(order) + 1] = l
          /\ \A i \in DOMAIN order : order'[i] = order[i]
      BY <1>1, <2>1, <2>5
    <3>2. \A i \in DOMAIN order' : i \in DOMAIN order \/ i = Len(order) + 1  BY <3>1
    <3>3. \A i \in DOMAIN order : Precedes(stage, order[i], l)  BY <1>3 DEF Numbering
    <3>4. \A m \in waiting \ {l} : stage[m] = k /\ stage[l] = k  BY <1>3 DEF Numbering
    <3>5. \A m \in waiting' : /\ stage[m] = k
                              /\ \A i \in DOMAIN order' : Precedes(stage, order'[i], m)
      <4>1. \A m \in waiting \ {l} : Precedes(stage, l, m)  BY <2>3, <3>4 DEF Precedes
      <4>2. \A m \in waiting, i \in DOMAIN order : Precedes(stage, order[i], m)
        BY <1>3 DEF Numbering
      <4> QED  BY <2>1, <3>1, <3>2, <3>4, <4>1, <4>2
    <3>6. \A i, j \in DOMAIN order' : i < j => Precedes(stage, order'[i], order'[j])
      <4>1. \A i, j \in DOMAIN order : i < j => Precedes(stage, order[i], order[j])
        BY <1>3 DEF Numbering
      <4>2. \A i, j \in DOMAIN order' : i < j => i \in DOMAIN order  BY <3>1
      <4> QED  BY <3>1, <3>2, <3>3, <4>1, <4>2
    <3>7. Numbering(k, stage)'
      BY <1>3, <2>2, <3>5, <3>6 DEF Numbering, RightStage, Precedes
    <3> QED  BY <3>7 DEF Staged
  <2> QED  BY <2>4, <2>5
<1>7. CASE (\E l \in Lane : TakeJob(l) \/ WorkerDone(l) \/ WorkerFails(l)) \/ Quiet
  <2>1. UNCHANGED <<card, ahead, waiting, order>>
    BY <1>7 DEF TakeJob, WorkerDone, WorkerFails, mainVars, Quiet
  <2> QED  BY <1>3, <2>1 DEF Staged, Numbering, RightStage, Precedes
<1> QED  BY <1>4, <1>5, <1>6, <1>7, OtherSteps

LEMMA StagedIsOrdered ==
    ASSUME TypeOK, Planned, Ordered, Staged
    PROVE  OrderIsDeterministic
<1>1. PICK k \in Nat, stage \in [Lane -> 1 .. Cardinality(Lane)] : Numbering(k, stage)
  BY DEF Staged
<1>2. \A l \in ToSet(order) : l \in Lane \ ahead  BY DEF Ordered, Planned
<1>3. \A l \in ToSet(order) : RightStage(stage, l)  BY <1>1, <1>2 DEF Numbering
<1>4. \A i, j \in DOMAIN order : i < j => Precedes(stage, order[i], order[j])
  BY <1>1 DEF Numbering
<1> QED  BY <1>3, <1>4 DEF Ordered, OrderIsDeterministic

(* Past the stages every lane has completed; past the reviews every one    *)
(* has its approval.                                                       *)
Gated ==
    /\ pc \in {"reviews", "merge", "merged"} => \A l \in Lane : lane[l] = "completed"
    /\ pc \in {"merge", "merged"} /\ card.review => \A l \in Lane : verdict[l] = "approve"

LEMMA NoneIsLeft ==
    ASSUME TypeOK, Planned, Ordered, LanesDone
    PROVE  \A l \in Lane : lane[l] = "completed"
<1>1. lane \in [Lane -> {"pending", "blocked", "running", "completed", "failed"}]
  BY DEF TypeOK
<1>2. ahead = {} /\ waiting = {} /\ \A l \in Lane : lane[l] # "failed"
  BY DEF LanesDone, StagesDone, Planned
<1> QED  BY <1>1, <1>2 DEF Planned, Ordered

LEMMA GatedStep ==
    ASSUME TypeOK, Planned, Ordered, Gated, [Next]_vars
    PROVE  Gated'
<1>1. order \in Seq(Lane)
      /\ verdict \in [Lane -> {"none", "queued", "running", "approve", "changes_required",
                               "failed"}]
  BY DEF TypeOK, MergeTypeOK
<1>2. CASE FanOut
  BY <1>2, NoneIsLeft DEF FanOut, Gated
<1>3. CASE BeginMerge
  <2>1. UNCHANGED <<card, lane, verdict>> /\ pc' = "merge"  BY <1>3 DEF BeginMerge, laneVars
  <2>2. \A l \in Lane : lane[l] = "completed"
    BY <1>3, NoneIsLeft DEF BeginMerge, ReviewsIn, Gated
  <2>3. \A l \in Lane : \E i \in DOMAIN order : order[i] = l
    BY <2>2 DEF Ordered, ToSet
  <2>4. ASSUME card.review, NEW l \in Lane  PROVE verdict[l] = "approve"
    <3>1. order # <<>>  BY <2>3
    <3>2. ReviewsApprove  BY <1>3, <2>4, <3>1 DEF BeginMerge
    <3> QED  BY <2>3, <3>2 DEF ReviewsApprove
  <2> QED  BY <2>1, <2>2, <2>4 DEF Gated
<1>4. CASE Merging \/ ChecksPass \/ MoveHead
  <2>1. /\ UNCHANGED <<card, lane, verdict>>
        /\ pc' = pc \/ (pc = "merge" /\ pc' = "merged")
    BY <1>4 DEF Merging, ChecksPass, MoveHead, laneVars, mainVars
  <2> QED  BY <2>1 DEF Gated
<1>5. ASSUME NEW l \in Lane, TakeReview(l) \/ Reviewed(l)  PROVE Gated'
  <2>1. UNCHANGED <<card, lane, pc>> /\ verdict[l] # "approve"
    BY <1>5 DEF TakeReview, Reviewed, mainVars
  <2>2. \A k \in Lane \ {l} : verdict'[k] = verdict[k]
    BY <1>1, <1>5 DEF TakeReview, Reviewed
  <2> QED  BY <2>1, <2>2 DEF Gated
<1>6. ASSUME NEW l \in Lane, TakeJob(l) \/ WorkerDone(l) \/ WorkerFails(l)  PROVE Gated'
  <2>1. UNCHANGED <<card, lane, pc, verdict>>
    BY <1>6 DEF TakeJob, WorkerDone, WorkerFails, mainVars
  <2> QED  BY <2>1 DEF Gated
<1>7. CASE UNCHANGED vars  BY <1>7 DEF vars, mainVars, laneVars, Gated
<1>8. CASE \/ ParentStarts \/ Spawn \/ PrepareTree \/ PrepareFails \/ Prepared \/ Stage \/ Collect
           \/ StageEnds \/ LanesFailed \/ LanesRejected \/ MergeRaised \/ ChecksFail
           \/ ChecksBreak \/ Approve \/ AskAgain \/ Crash \/ RunAgain
  <2>1. pc' \notin {"reviews", "merge", "merged"}
    BY <1>8
    DEF ParentStarts, Spawn, PrepareTree, PrepareFails, Prepared, Stage, Collect, StageEnds,
        LanesFailed, LanesRejected, MergeRaised, ChecksFail, ChecksBreak, Approve, AskAgain,
        Crash, RunAgain, EndRun
  <2> QED  BY <2>1 DEF Gated
<1> QED  BY <1>2, <1>3, <1>4, <1>5, <1>6, <1>7, <1>8 DEF Next, Main, Pool, Over

-----------------------------------------------------------------------------
(* The worktrees.                                                          *)

Built == {"stage", "collect", "reviews", "merge", "merged"}

(* The trees made so far are this attempt's, and then they all are.        *)
TreesMade ==
    /\ pc = "prepare" =>
          /\ at >= 1
          /\ \A i \in DOMAIN Declared : i < at => tree[round][Declared[i]] = NewTree(try)
    /\ pc \in Built => \A l \in Lane : tree[round][l] = NewTree(try)

(* Steps within the round that leave the trees alone.                      *)
StillBuilt ==
    /\ UNCHANGED <<card, tree, round, try, trouble, outcome>>
    /\ \/ UNCHANGED <<pc, at>>
       \/ pc \in Built /\ pc' \in Built

LEMMA TreeSteps ==
    ASSUME [Next]_vars
    PROVE  \/ ParentStarts \/ Spawn \/ PrepareTree \/ PrepareFails \/ Prepared
           \/ ChecksBreak \/ AskAgain \/ Crash \/ RunAgain
           \/ pc \in Built /\ \E o \in Outcomes : o # "lane_worktree_setup_failed" /\ EndRun(o)
           \/ StillBuilt
<1> USE DEF StillBuilt, mainVars, faultVars, Built
<1>1. CASE Stage \/ Collect \/ StageEnds \/ FanOut
  BY <1>1 DEF Stage, Collect, StageEnds, FanOut, LanesDone, StagesDone
<1>2. CASE BeginMerge \/ Merging \/ ChecksPass
  BY <1>2 DEF BeginMerge, Merging, ChecksPass, LanesDone, StagesDone, ReviewsIn
<1>3. CASE MoveHead \/ UNCHANGED vars
  BY <1>3 DEF MoveHead, vars
<1>4. ASSUME NEW l \in Lane, Pool(l)  PROVE StillBuilt
  BY <1>4 DEF Pool, TakeJob, WorkerDone, WorkerFails, TakeReview, Reviewed
<1>5. CASE LanesFailed \/ LanesRejected \/ MergeRaised \/ ChecksFail \/ Approve
  <2> HIDE DEF StillBuilt
  <2> QED  BY <1>5 DEF LanesFailed, LanesRejected, MergeRaised, ChecksFail, Approve, StagesDone,
                       ReviewsIn, Outcomes
<1> HIDE DEF StillBuilt, mainVars, faultVars, Built
<1> QED  BY <1>1, <1>2, <1>3, <1>4, <1>5 DEF Next, Main, Over

LEMMA TreesMadeStep ==
    ASSUME TypeOK, TreesMade, [Next]_vars
    PROVE  TreesMade'
<1>1. tree \in [Rounds -> [Lane -> Tree]] /\ round \in Rounds /\ at \in Nat  BY DEF TypeOK
<1>2. Declared \in Seq(Lane)  BY DeclaredAssumption
<1>3. CASE Spawn  BY <1>2, <1>3 DEF Spawn, TreesMade, Built
<1>4. CASE PrepareTree
  <2>1. /\ pc = "prepare" /\ at >= 1 /\ at \in DOMAIN Declared
        /\ tree' = [tree EXCEPT ![round][Declared[at]] = NewTree(try)]
        /\ at' = at + 1 /\ UNCHANGED <<pc, round, try>>
    BY <1>1, <1>2, <1>4 DEF PrepareTree, MadeTree, TreesMade
  <2>2. ASSUME NEW i \in DOMAIN Declared, i < at + 1
        PROVE  tree'[round][Declared[i]] = NewTree(try)
    <3>1. CASE Declared[i] = Declared[at]  BY <1>1, <1>2, <2>1, <3>1
    <3>2. CASE Declared[i] # Declared[at]
      <4>1. i < at  BY <1>1, <1>2, <2>1, <2>2, <3>2
      <4> QED  BY <1>1, <1>2, <2>1, <3>2, <4>1 DEF TreesMade
    <3> QED  BY <3>1, <3>2
  <2>3. pc' = "prepare" /\ at' >= 1 /\ round' = round /\ try' = try  BY <1>1, <2>1
  <2>4. \A i \in DOMAIN Declared : i < at' => tree'[round'][Declared[i]] = NewTree(try')
    BY <2>1, <2>2
  <2> QED  BY <2>3, <2>4 DEF TreesMade, Built
<1>5. CASE Prepared
  <2>1. \A l \in Lane : \E i \in DOMAIN Declared : Declared[i] = l
    BY DeclaredAssumption DEF ToSet
  <2>2. \A i \in DOMAIN Declared : i < at  BY <1>1, <1>2, <1>5 DEF Prepared
  <2> QED  BY <1>5, <2>1, <2>2 DEF Prepared, TreesMade, Built, NewTree
<1>6. CASE StillBuilt  BY <1>6 DEF StillBuilt, TreesMade, Built, NewTree
<1>7. CASE \/ ParentStarts \/ PrepareFails \/ ChecksBreak \/ AskAgain \/ Crash \/ RunAgain
           \/ \E o \in Outcomes : EndRun(o)
  <2>1. pc' \in {"stopped", "idle", "over"}
    BY <1>7 DEF ParentStarts, PrepareFails, ChecksBreak, AskAgain, Crash, RunAgain, EndRun
  <2> QED  BY <2>1 DEF TreesMade, Built
<1> QED  BY <1>3, <1>4, <1>5, <1>6, <1>7, TreeSteps

-----------------------------------------------------------------------------
(* What is left of the trees of a card that does not preserve them.        *)

LEMMA PrunedTree ==
    ASSUME NEW t \in Tree
    PROVE  ~Pruned(t).dir /\ (~t.dir => Pruned(t) = NoTree)
<1>1. CASE t.dir /\ t.listed
  <2>1. Pruned(t) = [t EXCEPT !.dir = FALSE]  BY <1>1 DEF Pruned
  <2> QED  BY <1>1, <2>1 DEF Tree
<1>2. CASE ~(t.dir /\ t.listed)
  BY <1>2 DEF Pruned, NoTree
<1> QED  BY <1>1, <1>2

(* No removal having failed: the other rounds have none, until a run that  *)
(* begins anew is started; and where no child is at work, none has a       *)
(* directory.                                                              *)
Swept ==
    ~card.preserve /\ ~trouble =>
        /\ \A r \in Rounds, l \in Lane :
              r # round => tree[r][l] = NoTree \/ (pc = "stopped" /\ ~tree[r][l].dir)
        /\ pc \in {"idle", "over"} => \A r \in Rounds, l \in Lane : ~tree[r][l].dir
        /\ pc = "prepare" => \A i \in DOMAIN Declared : i >= at => ~tree[round][Declared[i]].dir
        /\ pc = "over" /\ outcome # "lane_worktree_setup_failed"
              => \A r \in Rounds, l \in Lane : tree[r][l] = NoTree

LEMMA SweptStep ==
    ASSUME TypeOK, TreesMade, Swept, [Next]_vars
    PROVE  Swept'
<1>1. tree \in [Rounds -> [Lane -> Tree]] /\ round \in Rounds /\ at \in Nat /\ trouble \in BOOLEAN
  BY DEF TypeOK
<1>2. /\ Declared \in Seq(Lane)
      /\ \A i, j \in DOMAIN Declared : Declared[i] = Declared[j] => i = j
      /\ \A l \in Lane : \E i \in DOMAIN Declared : Declared[i] = l
  BY DeclaredAssumption DEF ToSet
<1>3. ~NoTree.dir  BY DEF NoTree
<1> USE DEF faultVars
<1>4. CASE ParentStarts
  <2>1. /\ pc = "stopped" /\ pc' = "idle" /\ UNCHANGED <<card, round, trouble>>
        /\ \A r \in Rounds, l \in Lane : tree'[r][l] = Pruned(tree[r][l])
    BY <1>4 DEF ParentStarts
  <2>2. \A r \in Rounds, l \in Lane :
            ~tree'[r][l].dir /\ (~tree[r][l].dir => tree'[r][l] = NoTree)
    BY <1>1, <2>1, PrunedTree
  <2> QED  BY <1>3, <2>1, <2>2 DEF Swept
<1>5. CASE Spawn
  <2>1. /\ pc = "idle" /\ pc' = "prepare" /\ UNCHANGED <<card, round, trouble, tree>>
    BY <1>5 DEF Spawn
  <2> QED  BY <1>1, <1>2, <2>1 DEF Swept
<1>6. CASE PrepareTree
  <2>1. /\ pc = "prepare" /\ at \in DOMAIN Declared
        /\ tree' = [tree EXCEPT ![round][Declared[at]] = NewTree(try)]
        /\ at' = at + 1 /\ UNCHANGED <<card, pc, round, trouble>>
    BY <1>1, <1>2, <1>6 DEF PrepareTree, MadeTree, TreesMade
  <2>2. \A r \in Rounds, l \in Lane : r # round => tree'[r][l] = tree[r][l]
    BY <1>1, <2>1
  <2>3. \A i \in DOMAIN Declared : i >= at + 1 =>
            tree'[round][Declared[i]] = tree[round][Declared[i]] /\ i >= at
    BY <1>1, <1>2, <2>1
  <2> QED  BY <2>1, <2>2, <2>3 DEF Swept
<1>7. CASE PrepareFails
  <2>1. /\ pc = "prepare" /\ pc' = "over" /\ outcome' = "lane_worktree_setup_failed"
        /\ at >= 1 /\ at \in DOMAIN Declared /\ UNCHANGED <<card, round>>
    BY <1>1, <1>2, <1>7 DEF PrepareFails, TreesMade
  <2>2. CASE trouble'  BY <2>2 DEF Swept
  <2>3. CASE ~trouble'
    <3>1. /\ trouble' = trouble
          /\ tree' = [tree EXCEPT ![round] = [l \in Lane |->
                        IF l \in ToSet(SubSeq(Declared, 1, at)) THEN NoTree ELSE @[l]]]
      BY <1>7, <2>3 DEF PrepareFails
    <3>2. \A i \in DOMAIN Declared : i <= at => Declared[i] \in ToSet(SubSeq(Declared, 1, at))
      <4>1. at \in Nat /\ 1 <= at /\ at <= Len(Declared)  BY <1>1, <1>2, <2>1
      <4>2. \A i \in 1 .. at : /\ i \in DOMAIN SubSeq(Declared, 1, at)
                             /\ SubSeq(Declared, 1, at)[i] = Declared[i]
        BY <1>2, <4>1
      <4> QED  BY <1>2, <4>1, <4>2 DEF ToSet
    <3>3. \A r \in Rounds, l \in Lane : r # round => tree'[r][l] = tree[r][l]
      BY <1>1, <3>1
    <3>4. \A i \in DOMAIN Declared : \/ tree'[round][Declared[i]] = NoTree
                                     \/ /\ i >= at
                                        /\ tree'[round][Declared[i]] = tree[round][Declared[i]]
      BY <1>1, <1>2, <2>1, <3>1, <3>2
    <3>5. CASE ~card.preserve
      <4>1. \A r \in Rounds, l \in Lane : r # round => tree'[r][l] = NoTree
        BY <2>1, <2>3, <3>1, <3>3, <3>5 DEF Swept
      <4>2. \A i \in DOMAIN Declared : ~tree'[round][Declared[i]].dir
        BY <1>3, <2>1, <2>3, <3>1, <3>4, <3>5 DEF Swept
      <4>3. \A r \in Rounds, l \in Lane : ~tree'[r][l].dir
        BY <1>2, <1>3, <4>1, <4>2
      <4> QED  BY <2>1, <4>1, <4>3 DEF Swept
    <3>6. CASE card.preserve  BY <2>1, <3>6 DEF Swept
    <3> QED  BY <3>5, <3>6
  <2> QED  BY <2>2, <2>3
<1>8. CASE Prepared
  <2>1. pc = "prepare" /\ pc' = "stage" /\ UNCHANGED <<card, round, trouble, tree>>
    BY <1>8 DEF Prepared
  <2> QED  BY <2>1 DEF Swept
<1>9. CASE ChecksBreak
  <2>1. trouble'  BY <1>9 DEF ChecksBreak
  <2> QED  BY <2>1 DEF Swept
<1>10. CASE (pc \in Built /\ \E o \in Outcomes : EndRun(o)) \/ AskAgain
  <2>1. /\ Cleanup /\ card' = card /\ pc \in Built /\ pc' \in {"idle", "over"}
    BY <1>10 DEF EndRun, AskAgain, Built
  <2>2. CASE card.preserve \/ trouble'  BY <2>1, <2>2 DEF Swept
  <2>3. CASE ~card.preserve /\ ~trouble'
    <3>1. /\ ~trouble
          /\ \A r \in Rounds \ {round} : tree'[r] = tree[r]
          /\ \A l \in Lane : tree'[round][l] = NoTree
      BY <2>1, <2>3, CleanupCleans
    <3>2. \A r \in Rounds, l \in Lane : tree'[r][l] = NoTree
      BY <2>1, <2>3, <3>1 DEF Swept, Built
    <3> QED  BY <1>3, <2>1, <3>2 DEF Swept
  <2> QED  BY <2>2, <2>3
<1>11. CASE Crash
  <2>1. /\ pc # "stopped" /\ pc' = "stopped" /\ UNCHANGED <<card, round, trouble, tree>>
    BY <1>11 DEF Crash
  <2> QED  BY <2>1 DEF Swept
<1>12. CASE RunAgain
  <2>1. /\ pc = "over" /\ pc' = "stopped" /\ UNCHANGED <<card, trouble, tree>>
    BY <1>12 DEF RunAgain
  <2> QED  BY <2>1 DEF Swept
<1>13. CASE StillBuilt
  <2>1. CASE UNCHANGED <<pc, at>>  BY <1>13, <2>1 DEF StillBuilt, Swept
  <2>2. CASE pc \in Built /\ pc' \in Built  BY <1>13, <2>2 DEF StillBuilt, Swept, Built
  <2> QED  BY <1>13, <2>1, <2>2 DEF StillBuilt
<1> QED  BY <1>4, <1>5, <1>6, <1>7, <1>8, <1>9, <1>10, <1>11, <1>12, <1>13, TreeSteps

-----------------------------------------------------------------------------
(* The commits of the lanes.                                               *)

(* Only a worker that is done has left commits, in this attempt, and what  *)
(* a lane shares with another it shares with the whole history of that     *)
(* commit: a lane is built on all of a dependency or on none of it.        *)
Chained ==
    /\ \A l \in Lane : chain[l] # <<>> => job[l] = "done"
    /\ \A l \in Lane : \A i \in DOMAIN chain[l] :
          /\ chain[l][i].try = try
          /\ chain[l][i].lane \in Lane /\ job[chain[l][i].lane] = "done"
    /\ \A l, m \in Lane : \A i \in DOMAIN chain[l], j \in DOMAIN chain[m] :
          chain[l][i] = chain[m][j] =>
             \A k \in 1 .. i : \E h \in DOMAIN chain[m] : chain[m][h] = chain[l][k]

LEMMA FreshTree ==
    ASSUME Planned, TreesMade, NEW l \in Lane, job[l] = "working"
    PROVE  pc = "collect" /\ tree[round][l] = NewTree(try)
<1>1. pc = "collect"  BY DEF Planned
<1> QED  BY <1>1 DEF TreesMade, Built

(* The new chain of a worker: the whole of another lane's, or nothing, and *)
(* then commits that no lane has.                                          *)
LEMMA NewChain ==
    ASSUME TypeOK, Planned, TreesMade, Chained, NEW l \in Lane, WorkerDone(l)
    PROVE  \E c, base \in Seq(Commits) :
              /\ chain' = [chain EXCEPT ![l] = c]
              /\ base = <<>> \/ \E d \in Lane \ {l} : base = chain[d]
              /\ Len(base) <= Len(c)
              /\ \A i \in DOMAIN base : c[i] = base[i]
              /\ \A i \in DOMAIN c : i > Len(base) => c[i].lane = l /\ c[i].try = try
<1>1. PICK c \in Chains(l) : chain' = [chain EXCEPT ![l] = c]  BY DEF WorkerDone
<1>2. tree[round][l].at = try  BY FreshTree DEF WorkerDone, NewTree
<1>3. card.deps[l] \subseteq Lane  BY DepsTyped DEF TypeOK
<1>4. PICK base \in Seq(Commits), k \in Nat :
              /\ base = <<>> \/ \E d \in card.deps[l] : base = chain[d]
              /\ c \in Seq(Commits)
              /\ Len(c) = Len(base) + k
              /\ \A i \in DOMAIN base : c[i] = base[i]
              /\ \A i \in DOMAIN c : i > Len(base) => /\ c[i].lane = l
                                                      /\ c[i].try = tree[round][l].at
  BY <1>3, WorkerChain
<1>5. base = <<>> \/ \E d \in Lane \ {l} : base = chain[d]
  <2>1. chain[l] = <<>>  BY DEF WorkerDone, Chained
  <2> QED  BY <1>3, <1>4, <2>1
<1>6. Len(base) <= Len(c)  BY <1>4
<1> QED  BY <1>1, <1>2, <1>4, <1>5, <1>6

LEMMA ChainedStep ==
    ASSUME TypeOK, Planned, TreesMade, Chained, [Next]_vars
    PROVE  Chained'
<1>1. /\ chain \in [Lane -> Seq(Commits)] /\ job \in [Lane -> JobStates]
      /\ ahead \subseteq Lane
  BY DEF TypeOK, MergeTypeOK
<1>2. CASE Spawn \/ Crash
  <2>1. chain' = [l \in Lane |-> <<>>]  BY <1>2 DEF Spawn, Crash, EachLane
  <2> QED  BY <2>1 DEF Chained
<1>3. CASE Stage
  <2>1. UNCHANGED <<chain, try>>  BY <1>3 DEF Stage
  <2>2. \A l \in Lane : job[l] = "done" => job'[l] = "done"
    <3>1. \A l \in NextStage(card.deps, ahead) : job[l] = "none"
      BY <1>1 DEF NextStage, Planned
    <3> QED  BY <1>1, <1>3, <3>1 DEF Stage
  <2> QED  BY <2>1, <2>2 DEF Chained
<1>4. CASE Collect \/ Quiet
  <2>1. UNCHANGED <<chain, try, job>>  BY <1>4 DEF Collect, Quiet
  <2> QED  BY <2>1 DEF Chained
<1>5. ASSUME NEW l \in Lane, TakeJob(l) \/ WorkerFails(l)  PROVE Chained'
  <2>1. UNCHANGED <<chain, try>>  BY <1>5 DEF TakeJob, WorkerFails, mainVars
  <2>2. \A m \in Lane : job[m] = "done" => job'[m] = "done"
    BY <1>1, <1>5 DEF TakeJob, WorkerFails
  <2> QED  BY <2>1, <2>2 DEF Chained
<1>6. ASSUME NEW l \in Lane, WorkerDone(l)  PROVE Chained'
  <2>1. PICK c \in Seq(Commits), base \in Seq(Commits) :
              /\ chain' = [chain EXCEPT ![l] = c]
              /\ base = <<>> \/ \E d \in Lane \ {l} : base = chain[d]
              /\ Len(base) <= Len(c)
              /\ \A i \in DOMAIN base : c[i] = base[i]
              /\ \A i \in DOMAIN c : i > Len(base) => c[i].lane = l /\ c[i].try = try
    BY <1>6, NewChain
  <2>2. /\ try' = try /\ job[l] = "working" /\ job' = [job EXCEPT ![l] = "done"]
    BY <1>6 DEF WorkerDone, mainVars
  <2>3. \A m \in Lane : job[m] = "done" => job'[m] = "done"  BY <1>1, <2>2
  <2>4. job'[l] = "done"  BY <1>1, <2>2
  <2>5. /\ chain'[l] = c /\ \A m \in Lane \ {l} : chain'[m] = chain[m]  BY <1>1, <2>1
  <2>6. \A m \in Lane : \A j \in DOMAIN chain[m] : chain[m][j].lane # l
    BY <2>2 DEF Chained
  <2>7. \A i \in DOMAIN c : i \in DOMAIN base \/ (i > Len(base) /\ c[i].lane = l /\ c[i].try = try)
    BY <2>1
  <2>8. \A i \in DOMAIN base : i \in DOMAIN c /\ c[i] = base[i]  BY <2>1
  <2>9. \A i \in DOMAIN base : \E d \in Lane \ {l} : base = chain[d] /\ i \in DOMAIN chain[d]
    BY <2>1
  <2>10. \A m \in Lane : chain'[m] # <<>> => job'[m] = "done"
    BY <2>3, <2>4, <2>5 DEF Chained
  <2>11. ASSUME NEW m \in Lane, NEW i \in DOMAIN chain'[m]
         PROVE  /\ chain'[m][i].try = try
                /\ chain'[m][i].lane \in Lane /\ job'[chain'[m][i].lane] = "done"
    <3>1. CASE m # l  BY <2>3, <2>5, <2>11, <3>1 DEF Chained
    <3>2. CASE m = l /\ i \in DOMAIN base
      BY <2>3, <2>5, <2>8, <2>9, <2>11, <3>2 DEF Chained
    <3>3. CASE m = l /\ i \notin DOMAIN base
      BY <2>4, <2>5, <2>7, <2>11, <3>3
    <3> QED  BY <3>1, <3>2, <3>3
  <2>12. ASSUME NEW m \in Lane, NEW n \in Lane, NEW i \in DOMAIN chain'[m],
                NEW j \in DOMAIN chain'[n], chain'[m][i] = chain'[n][j], NEW k \in 1 .. i
         PROVE  \E h \in DOMAIN chain'[n] : chain'[n][h] = chain'[m][k]
    <3>1. k \in DOMAIN chain'[m]
      <4>1. chain'[m] \in Seq(Commits)  BY <1>1, <2>1
      <4> QED  BY <2>12, <4>1
    <3>2. CASE m # l /\ n # l  BY <2>5, <2>12, <3>2 DEF Chained
    <3>3. CASE m = n  BY <3>1, <3>3
    <3>4. CASE m = l /\ n # l
      <4>1. i \in DOMAIN base  BY <2>5, <2>6, <2>7, <2>12, <3>4
      <4>2. PICK d \in Lane \ {l} : base = chain[d]  BY <2>9, <4>1
      <4>3. \E h \in DOMAIN chain[n] : chain[n][h] = chain[d][k]
        BY <2>5, <2>8, <2>12, <3>4, <4>1, <4>2 DEF Chained
      <4>4. k \in DOMAIN base  BY <4>1
      <4> QED  BY <2>5, <2>8, <3>4, <4>2, <4>3, <4>4
    <3>5. CASE m # l /\ n = l
      <4>1. j \in DOMAIN base  BY <2>5, <2>6, <2>7, <2>12, <3>5
      <4>2. PICK d \in Lane \ {l} : base = chain[d]  BY <2>9, <4>1
      <4>4. /\ i \in DOMAIN chain[m] /\ j \in DOMAIN chain[d] /\ chain[m][i] = chain[d][j]
            /\ chain'[m] = chain[m]
        BY <2>5, <2>8, <2>12, <3>5, <4>1, <4>2
      <4>3. \E h \in DOMAIN chain[d] : chain[d][h] = chain[m][k]
        BY <2>12, <4>2, <4>4 DEF Chained
      <4> QED  BY <2>5, <2>8, <3>5, <4>2, <4>3
    <3> QED  BY <3>2, <3>3, <3>4, <3>5
  <2> QED  BY <2>2, <2>10, <2>11, <2>12 DEF Chained
<1> QED  BY <1>2, <1>3, <1>4, <1>5, <1>6, OtherSteps

-----------------------------------------------------------------------------
(* The integration head.                                                   *)

LEMMA Appended ==
    ASSUME NEW s \in Seq(Picks), NEW x \in Picks, NEW t, t = Append(s, x)
    PROVE  /\ \A i \in DOMAIN t : (i \in DOMAIN s /\ t[i] = s[i]) \/ t[i] = x
           /\ \A i \in DOMAIN s : i \in DOMAIN t /\ t[i] = s[i]
           /\ \E i \in DOMAIN t : t[i] = x
<1>1. Len(s) \in Nat /\ DOMAIN s = 1 .. Len(s) /\ DOMAIN t = 1 .. Len(s) + 1
  OBVIOUS
<1>2. t[Len(s) + 1] = x /\ \A i \in DOMAIN s : t[i] = s[i]
  OBVIOUS
<1> QED  BY <1>1, <1>2

(* A commit of this attempt is there only when its lane's worker is done,  *)
(* and what is there as it was made is there with all its history.         *)
AttemptsPast == \A i \in DOMAIN head : head[i].of.try <= try
OfTheDone ==
    pc \notin {"stopped", "idle"} =>
        \A i \in DOMAIN head : head[i].of.try = try /\ head[i].of.lane \in Lane
            => job[head[i].of.lane] = "done"
WithHistory ==
    \A i \in DOMAIN head : head[i].own =>
        \A l \in Lane : \A j \in DOMAIN chain[l] :
            chain[l][j] = head[i].of => \A k \in 1 .. j : Present(chain[l][k])
Heads == AttemptsPast /\ OfTheDone /\ WithHistory

(* What the merge does to the head.                                        *)
LEMMA MergeHead ==
    ASSUME MergeTypeOK, InPass, MergeStep
    PROVE  \/ head' = head
           \/ head' = <<>>
           \/ \E l \in Lane : \E i \in DOMAIN chain[l] : head' = Append(head, Replayed(chain[l][i]))
<1>1. CASE PickApplies
  <2>1. Current \in Lane  BY <1>1, CurrentTyped DEF PickApplies, InChain
  <2>2. merge.nth \in DOMAIN chain[Current]  BY <1>1, PickTyped DEF PickApplies
  <2>3. head' = Append(head, Replayed(chain[Current][merge.nth]))  BY <1>1 DEF PickApplies
  <2> QED  BY <2>1, <2>2, <2>3
<1>2. CASE ~PickApplies
  BY <1>2 DEF MergeStep, Gate, PassOver, SkipAncestor, SkipLane, DeferLane, FailFast, LaneReplayed,
              FirstPassEnds, DeferredConflict, DeferredReplayed, SecondPassEnds, GitBreaks
<1> QED  BY <1>1, <1>2

(* Every other step leaves the head, and what was done stays done.         *)
HeadStays ==
    /\ UNCHANGED <<head, chain, try>>
    /\ \A l \in Lane : job[l] = "done" => job'[l] = "done"
    /\ pc \in {"stopped", "idle"} => pc' \in {"stopped", "idle"}

LEMMA HeadSteps ==
    ASSUME TypeOK, Planned, [Next]_vars
    PROVE  \/ Spawn \/ Crash \/ RunAgain \/ MoveHead \/ Merging
           \/ \E l \in Lane : WorkerDone(l)
           \/ HeadStays
<1>1. job \in [Lane -> JobStates] /\ ahead \subseteq Lane  BY DEF TypeOK
<1>2. CASE Stage
  <2>1. \A l \in NextStage(card.deps, ahead) : job[l] = "none"
    BY <1>1 DEF NextStage, Planned
  <2> QED  BY <1>1, <1>2, <2>1 DEF Stage, HeadStays, mergeVars
<1>3. ASSUME NEW l \in Lane, TakeJob(l) \/ WorkerFails(l)  PROVE HeadStays
  <2>1. \A m \in Lane : job[m] = "done" => job'[m] = "done"
    BY <1>1, <1>3 DEF TakeJob, WorkerFails
  <2> QED  BY <1>3, <2>1 DEF TakeJob, WorkerFails, HeadStays, mergeVars, mainVars
<1> USE DEF HeadStays, mergeVars, mainVars, laneVars
<1>4. ASSUME NEW l \in Lane, TakeReview(l) \/ Reviewed(l)  PROVE HeadStays
  BY <1>4 DEF TakeReview, Reviewed
<1>5. CASE \/ ParentStarts \/ PrepareTree \/ PrepareFails \/ Prepared \/ StageEnds \/ Collect
  BY <1>5 DEF ParentStarts, PrepareTree, PrepareFails, Prepared, StageEnds, Collect
<1>6. CASE LanesFailed \/ FanOut \/ LanesRejected \/ BeginMerge
  BY <1>6 DEF LanesFailed, FanOut, LanesRejected, BeginMerge, EndRun, LanesDone, StagesDone,
              ReviewsIn, StartMerge
<1>7. CASE MergeRaised \/ ChecksFail \/ ChecksBreak \/ ChecksPass \/ Approve
  BY <1>7 DEF MergeRaised, ChecksFail, ChecksBreak, ChecksPass, Approve, EndRun
<1>8. CASE AskAgain \/ UNCHANGED vars
  BY <1>8 DEF AskAgain, vars
<1> HIDE DEF HeadStays, mergeVars, mainVars, laneVars
<1> QED  BY <1>2, <1>3, <1>4, <1>5, <1>6, <1>7, <1>8 DEF Next, Main, Pool, Over

LEMMA MergingHeads ==
    ASSUME TypeOK, InPass, Chained, Heads, Merging
    PROVE  Heads'
<1>1. /\ pc = "merge" /\ UNCHANGED <<pc, try, job, chain>> /\ MergeStep
  BY DEF Merging, mainVars, laneVars
<1>2. /\ chain \in [Lane -> Seq(Commits)] /\ head \in Seq(Picks) /\ MergeTypeOK
      /\ try \in Nat
  BY DEF TypeOK, MergeTypeOK, Attempts
<1>3. CASE head' = head
  BY <1>1, <1>3 DEF Heads, AttemptsPast, OfTheDone, WithHistory, Present
<1>4. CASE head' = <<>>
  BY <1>4 DEF Heads, AttemptsPast, OfTheDone, WithHistory
<1>5. ASSUME NEW l \in Lane, NEW n \in DOMAIN chain[l],
             head' = Append(head, Replayed(chain[l][n]))
      PROVE  Heads'
  <2> DEFINE x == Replayed(chain[l][n])
  <2>1. chain[l][n] \in Commits  BY <1>2
  <2>2. x \in Picks /\ x.of = chain[l][n] /\ ~x.own  BY <2>1 DEF Replayed, Picks
  <2>3. x.of.try = try /\ x.of.lane \in Lane /\ job[x.of.lane] = "done"
    BY <2>2 DEF Chained
  <2> HIDE DEF x
  <2>4. /\ \A i \in DOMAIN head' : (i \in DOMAIN head /\ head'[i] = head[i]) \/ head'[i] = x
        /\ \A i \in DOMAIN head : i \in DOMAIN head' /\ head'[i] = head[i]
    <3>1. head' = Append(head, x)  BY <1>5 DEF x
    <3> QED  BY <1>2, <2>2, <3>1, Appended
  <2>5. AttemptsPast'
    <3>1. ASSUME NEW i \in DOMAIN head'  PROVE head'[i].of.try <= try
      <4>1. CASE i \in DOMAIN head /\ head'[i] = head[i]  BY <4>1 DEF Heads, AttemptsPast
      <4>2. CASE head'[i] = x  BY <1>2, <2>3, <4>2
      <4> QED  BY <2>4, <4>1, <4>2
    <3> QED  BY <1>1, <3>1 DEF AttemptsPast
  <2>6. OfTheDone'  BY <1>1, <2>3, <2>4 DEF Heads, OfTheDone
  <2>7. WithHistory'
    <3>1. \A c : Present(c) => Present(c)'  BY <2>4 DEF Present
    <3>2. ASSUME NEW i \in DOMAIN head', head'[i].own, NEW m \in Lane, NEW j \in DOMAIN chain[m],
                 chain[m][j] = head'[i].of, NEW k \in 1 .. j
          PROVE  Present(chain[m][k])'
      <4>1. i \in DOMAIN head /\ head'[i] = head[i]  BY <2>2, <2>4, <3>2
      <4>2. Present(chain[m][k])  BY <3>2, <4>1 DEF Heads, WithHistory
      <4> QED  BY <1>1, <2>4, <4>2 DEF Present
    <3> QED  BY <1>1, <3>2 DEF WithHistory
  <2> QED  BY <2>5, <2>6, <2>7 DEF Heads
<1> QED  BY <1>1, <1>2, <1>3, <1>4, <1>5, MergeHead

LEMMA MovedHeads ==
    ASSUME TypeOK, Chained, Heads, MoveHead
    PROVE  Heads'
<1>1. pc \in {"collect", "reviews"} /\ UNCHANGED <<pc, try, job, chain>>
  BY DEF MoveHead, mainVars, laneVars
<1>2. /\ chain \in [Lane -> Seq(Commits)] /\ head \in Seq(Picks) /\ try \in Attempts
  BY DEF TypeOK, MergeTypeOK
<1>3. CASE head' = Append(head, Original([lane |-> Nobody, try |-> try, n |-> 1]))
  <2> DEFINE x == Original([lane |-> Nobody, try |-> try, n |-> 1])
  <2>1. /\ x \in Picks /\ x.of.try = try /\ x.of.lane = Nobody
    BY <1>2 DEF Original, Picks, Commits
  <2>2. head' = Append(head, x)  BY <1>3
  <2> HIDE DEF x
  <2>3. /\ \A i \in DOMAIN head' : (i \in DOMAIN head /\ head'[i] = head[i]) \/ head'[i] = x
        /\ \A i \in DOMAIN head : i \in DOMAIN head' /\ head'[i] = head[i]
    BY <1>2, <2>1, <2>2, Appended
  <2>4. AttemptsPast'
    <3>1. ASSUME NEW i \in DOMAIN head'  PROVE head'[i].of.try <= try
      <4>1. CASE i \in DOMAIN head /\ head'[i] = head[i]  BY <4>1 DEF Heads, AttemptsPast
      <4>2. CASE head'[i] = x  BY <1>2, <2>1, <4>2 DEF Attempts
      <4> QED  BY <2>3, <4>1, <4>2
    <3> QED  BY <1>1, <3>1 DEF AttemptsPast
  <2>5. OfTheDone'  BY <1>1, <2>1, <2>3, NobodyAssumption DEF Heads, OfTheDone
  <2>6. WithHistory'
    <3>2. ASSUME NEW i \in DOMAIN head', head'[i].own, NEW m \in Lane, NEW j \in DOMAIN chain[m],
                 chain[m][j] = head'[i].of, NEW k \in 1 .. j
          PROVE  Present(chain[m][k])'
      <4>1. head'[i].of.lane \in Lane  BY <3>2 DEF Chained
      <4>2. i \in DOMAIN head /\ head'[i] = head[i]
        BY <2>1, <2>3, <4>1, NobodyAssumption
      <4>3. Present(chain[m][k])  BY <3>2, <4>2 DEF Heads, WithHistory
      <4> QED  BY <1>1, <2>3, <4>3 DEF Present
    <3> QED  BY <1>1, <3>2 DEF WithHistory
  <2> QED  BY <2>4, <2>5, <2>6 DEF Heads
<1>4. ASSUME NEW l \in Lane, head' = [i \in DOMAIN chain[l] |-> Original(chain[l][i])]
      PROVE  Heads'
  <2>1. \A i \in DOMAIN head' : i \in DOMAIN chain[l] /\ head'[i].of = chain[l][i]
    BY <1>4 DEF Original
  <2>2. \A i \in DOMAIN chain[l] : i \in DOMAIN head' /\ head'[i].of = chain[l][i]
    BY <1>4 DEF Original
  <2>3. AttemptsPast'  BY <1>1, <1>2, <2>1 DEF Chained, AttemptsPast, Attempts
  <2>4. OfTheDone'  BY <1>1, <2>1 DEF Chained, OfTheDone
  <2>5. WithHistory'
    <3>1. ASSUME NEW i \in DOMAIN head', NEW m \in Lane, NEW j \in DOMAIN chain[m],
                 chain[m][j] = head'[i].of, NEW k \in 1 .. j
          PROVE  Present(chain[m][k])'
      <4>1. i \in DOMAIN chain[l] /\ chain[m][j] = chain[l][i]  BY <2>1, <3>1
      <4>2. \E h \in DOMAIN chain[l] : chain[l][h] = chain[m][k]
        BY <3>1, <4>1 DEF Chained
      <4> QED  BY <1>1, <2>2, <4>2 DEF Present
    <3> QED  BY <1>1, <3>1 DEF WithHistory
  <2> QED  BY <2>3, <2>4, <2>5 DEF Heads
<1> QED  BY <1>3, <1>4 DEF MoveHead

LEMMA WorkersHeads ==
    ASSUME TypeOK, Planned, TreesMade, Chained, Heads, NEW l \in Lane, WorkerDone(l)
    PROVE  Heads'
<1>1. PICK c \in Seq(Commits), base \in Seq(Commits) :
            /\ chain' = [chain EXCEPT ![l] = c]
            /\ base = <<>> \/ \E d \in Lane \ {l} : base = chain[d]
            /\ Len(base) <= Len(c)
            /\ \A i \in DOMAIN base : c[i] = base[i]
            /\ \A i \in DOMAIN c : i > Len(base) => c[i].lane = l /\ c[i].try = try
  BY NewChain
<1>2. /\ UNCHANGED <<pc, try, head>> /\ job[l] = "working" /\ job' = [job EXCEPT ![l] = "done"]
  BY DEF WorkerDone, mainVars, mergeVars
<1>3. chain \in [Lane -> Seq(Commits)] /\ job \in [Lane -> JobStates]
  BY DEF TypeOK, MergeTypeOK
<1>4. \A m \in Lane : job[m] = "done" => job'[m] = "done"  BY <1>2, <1>3
<1>5. AttemptsPast'  BY <1>2 DEF Heads, AttemptsPast
<1>6. OfTheDone'  BY <1>2, <1>4 DEF Heads, OfTheDone
<1>7. chain'[l] = c /\ \A m \in Lane \ {l} : chain'[m] = chain[m]  BY <1>1, <1>3
<1>8. \A i \in DOMAIN head : ~(head[i].of.lane = l /\ head[i].of.try = try)
  BY <1>2, FreshTree DEF Heads, OfTheDone
<1>9. WithHistory'
  <2>1. ASSUME NEW i \in DOMAIN head, head[i].own, NEW m \in Lane, NEW j \in DOMAIN chain'[m],
               chain'[m][j] = head[i].of, NEW k \in 1 .. j
        PROVE  Present(chain'[m][k])
    <3>1. CASE m # l  BY <1>7, <2>1, <3>1 DEF Heads, WithHistory
    <3>2. CASE m = l
      <4>1. j \in DOMAIN c /\ c[j] = head[i].of  BY <1>7, <2>1, <3>2
      <4>2. j \in DOMAIN base /\ c[j] = base[j]  BY <1>1, <1>8, <4>1
      <4>3. PICK d \in Lane : base = chain[d]  BY <1>1, <4>2
      <4>4. k \in DOMAIN base  BY <4>2
      <4>5. c[k] = chain[d][k]  BY <1>1, <4>3, <4>4
      <4>6. Present(chain[d][k])  BY <2>1, <4>1, <4>2, <4>3 DEF Heads, WithHistory
      <4> QED  BY <1>7, <3>2, <4>5, <4>6
    <3> QED  BY <3>1, <3>2
  <2> QED  BY <1>2, <2>1 DEF WithHistory, Present
<1> QED  BY <1>5, <1>6, <1>9 DEF Heads

LEMMA HeadsStep ==
    ASSUME TypeOK, InPass, Planned, TreesMade, Chained, Heads, [Next]_vars
    PROVE  Heads'
<1>1. try \in Nat /\ head \in Seq(Picks)  BY DEF TypeOK, MergeTypeOK, Attempts
<1>2. \A i \in DOMAIN head : head[i].of.try \in Nat
  <2>1. \A c \in Commits : c.try \in Nat  BY DEF Commits, Attempts
  <2>2. \A p \in Picks : p.of \in Commits  BY DEF Picks
  <2>3. \A i \in DOMAIN head : head[i] \in Picks  BY <1>1
  <2> QED  BY <2>1, <2>2, <2>3
<1>3. CASE Spawn
  <2>1. /\ try' = try + 1 /\ head' = head /\ chain' = [l \in Lane |-> <<>>]
    BY <1>3 DEF Spawn, EachLane
  <2> QED  BY <1>1, <1>2, <2>1 DEF Heads, AttemptsPast, OfTheDone, WithHistory
<1>4. CASE Crash
  <2>1. /\ pc' = "stopped" /\ UNCHANGED <<head, try>> /\ chain' = [l \in Lane |-> <<>>]
    BY <1>4 DEF Crash, EachLane
  <2> QED  BY <2>1 DEF Heads, AttemptsPast, OfTheDone, WithHistory
<1>5. CASE RunAgain
  <2>1. head' = <<>>  BY <1>5 DEF RunAgain
  <2> QED  BY <2>1 DEF Heads, AttemptsPast, OfTheDone, WithHistory
<1>6. CASE HeadStays
  BY <1>6 DEF HeadStays, Heads, AttemptsPast, OfTheDone, WithHistory, Present
<1> QED  BY <1>3, <1>4, <1>5, <1>6, HeadSteps, MergingHeads, MovedHeads, WorkersHeads

-----------------------------------------------------------------------------
(* The merge.                                                              *)

(* A lane that is recorded for good: skipped, or on the head as a whole.   *)
Whole(l) == \A i \in DOMAIN chain[l] : Present(chain[l][i])
Settled(l) ==
    \/ record[l] = "skipped_conflict"
    \/ /\ record[l] \in {"noop", "already_integrated", "applied", "applied_after_defer"}
       /\ Whole(l)

(* The lanes the first pass has left behind are settled or deferred; what  *)
(* has been gone through of the current lane's chain is on the head; the   *)
(* lanes of the second pass are settled, lost or still to come; a merge    *)
(* that has ended has settled them all.                                    *)
FirstPass ==
    pc = "merge" /\ merge.step = "first" => \A i \in DOMAIN order :
        i < merge.at => \/ Settled(order[i])
                        \/ \E j \in DOMAIN merge.deferred : merge.deferred[j] = order[i]
WithinChain ==
    pc = "merge" /\ Replaying => \A k \in DOMAIN chain[Current] :
        k < merge.nth => Present(chain[Current][k])
SecondPass ==
    pc = "merge" /\ merge.step = "second" => \A l \in Lane :
        \/ Settled(l) \/ l \in merge.lost
        \/ \E j \in DOMAIN merge.deferred : j >= merge.at /\ merge.deferred[j] = l
AllSettled ==
    (pc = "merge" /\ merge.step = "end") \/ pc = "merged" => \A l \in Lane : Settled(l)
Merges == FirstPass /\ WithinChain /\ SecondPass /\ AllSettled

LEMMA StaysPresent ==
    ASSUME MergeTypeOK, InPass, MergeStep, merge'.step # "raised", NEW c, Present(c)
    PROVE  Present(c)'
<1>1. merge \in MergeLocals /\ head \in Seq(Picks)  BY DEF MergeTypeOK, MergeLocals
<1>2. CASE PickApplies
  <2>1. Replayed(chain[Current][merge.nth]) \in Picks  BY <1>2, PickTyped DEF PickApplies
  <2>2. head' = Append(head, Replayed(chain[Current][merge.nth]))  BY <1>2 DEF PickApplies
  <2>3. \A i \in DOMAIN head : i \in DOMAIN head' /\ head'[i] = head[i]
    BY <1>1, <2>1, <2>2, Appended
  <2> QED  BY <2>3 DEF Present
<1>3. CASE FailFast
  <2>1. PICK why \in {"conflict", "git"} : Raise(why)  BY <1>3 DEF FailFast
  <2> QED  BY <1>1, <2>1, RaiseTyped
<1>4. CASE ~PickApplies /\ ~FailFast
  <2>1. head' = head
    BY <1>4 DEF MergeStep, Gate, PassOver, SkipAncestor, SkipLane, DeferLane, LaneReplayed,
                FirstPassEnds, DeferredConflict, DeferredReplayed, SecondPassEnds, GitBreaks
  <2> QED  BY <2>1 DEF Present
<1> QED  BY <1>2, <1>3, <1>4

LEMMA StaysSettled ==
    ASSUME MergeTypeOK, InPass, MergeStep, merge'.step # "raised", chain' = chain,
           NEW l \in Lane, Settled(l), record'[l] = record[l]
    PROVE  Settled(l)'
<1>1. \A c : Present(c) => Present(c)'  BY StaysPresent
<1>2. Whole(l) => Whole(l)'
  <2> SUFFICES ASSUME Whole(l), NEW i \in DOMAIN chain[l] PROVE Present(chain[l][i])'
    BY DEF Whole
  <2>1. Present(chain[l][i])  BY DEF Whole
  <2>2. \A c : c = chain[l][i] => Present(c)'  BY <1>1, <2>1
  <2> QED  BY <2>2 DEF Present
<1> QED  BY <1>2 DEF Settled

(* A lane that the merge leaves for good has all its commits on the head.  *)
LEMMA LeavesSettled ==
    ASSUME TypeOK, InPass, WithHistory, WithinChain, pc = "merge", chain' = chain,
           PassOver \/ SkipLane \/ LaneReplayed \/ DeferredReplayed, NEW l \in Lane, l = Current
    PROVE  Settled(l)'
<1>1. /\ chain \in [Lane -> Seq(Commits)] /\ record \in [Lane -> RecordStates]
      /\ merge \in MergeLocals
  BY DEF TypeOK, MergeTypeOK, MergeLocals
<1>2. head' = head /\ Replaying
  BY DEF PassOver, SkipLane, LaneReplayed, DeferredReplayed, PickFails, InChain
<1>3. ASSUME \A i \in DOMAIN chain[l] : Present(chain[l][i])  PROVE Whole(l)'
  BY <1>2, <1>3 DEF Whole, Present
<1>4. CASE PassOver
  <2>1. CASE ~HasWork(l) /\ record' = [record EXCEPT ![l] = "noop"]
    <3>1. chain[l] = <<>> /\ record'[l] = "noop"  BY <1>1, <2>1 DEF HasWork
    <3> QED  BY <1>3, <3>1 DEF Settled
  <2>2. CASE Integrated(l) /\ record' = [record EXCEPT ![l] = "already_integrated"]
    <3>1. Len(chain[l]) \in DOMAIN chain[l] /\ DOMAIN chain[l] = 1 .. Len(chain[l])
      BY <1>1, <2>2 DEF Integrated, HasWork
    <3>2. PICK i \in DOMAIN head : head[i] = Original(chain[l][Len(chain[l])])
      BY <2>2 DEF Integrated, IsAncestor, LaneHead
    <3>3. head[i].own /\ head[i].of = chain[l][Len(chain[l])]  BY <3>2 DEF Original
    <3>4. \A k \in 1 .. Len(chain[l]) : Present(chain[l][k])
      BY <3>1, <3>3 DEF WithHistory
    <3>5. record'[l] = "already_integrated"  BY <1>1, <2>2
    <3> QED  BY <1>3, <3>1, <3>4, <3>5 DEF Settled
  <2> QED  BY <1>4, <2>1, <2>2 DEF PassOver
<1>5. CASE SkipLane
  BY <1>1, <1>5 DEF SkipLane, Settled
<1>6. CASE LaneReplayed \/ DeferredReplayed
  <2>1. merge.nth = Len(chain[l]) + 1  BY <1>6 DEF LaneReplayed, DeferredReplayed
  <2>2. \A k \in DOMAIN chain[l] : k < merge.nth  BY <1>1, <2>1
  <2>3. Whole(l)'  BY <1>2, <1>3, <2>2 DEF WithinChain
  <2>4. record'[l] \in {"applied", "already_integrated", "applied_after_defer"}
    BY <1>1, <1>6 DEF LaneReplayed, DeferredReplayed
  <2> QED  BY <2>3, <2>4 DEF Settled
<1> QED  BY <1>4, <1>5, <1>6

(* Whoever the merge does not record keeps his record.                     *)
LEMMA OtherRecords ==
    ASSUME MergeTypeOK, MergeStep, NEW l \in Lane, ~(Replaying /\ l = Current)
    PROVE  record'[l] = record[l]
<1>1. record \in [Lane -> RecordStates]  BY DEF MergeTypeOK
<1>2. CASE \/ PassOver \/ SkipLane \/ DeferLane \/ LaneReplayed \/ DeferredConflict
           \/ DeferredReplayed
  <2>1. l # Current
    BY <1>2 DEF PassOver, SkipLane, DeferLane, LaneReplayed, DeferredConflict, DeferredReplayed,
                PickFails, InChain
  <2> QED  BY <1>1, <1>2, <2>1 DEF PassOver, SkipLane, DeferLane, LaneReplayed, DeferredConflict,
                              DeferredReplayed
<1>3. CASE \/ Gate \/ SkipAncestor \/ PickApplies \/ FailFast \/ FirstPassEnds
           \/ SecondPassEnds \/ GitBreaks
  BY <1>3 DEF Gate, SkipAncestor, PickApplies, FailFast, FirstPassEnds, SecondPassEnds, GitBreaks
<1> QED  BY <1>2, <1>3 DEF MergeStep

(* At the first commit of a chain nothing of it need be there.             *)
LEMMA ChainBegins ==
    ASSUME chain' \in [Lane -> Seq(Commits)], order' \in Seq(Lane), merge' \in MergeLocals,
           merge'.at >= 1, merge'.nth = 1
    PROVE  WithinChain'
<1> SUFFICES ASSUME Replaying' PROVE \A k \in DOMAIN chain'[Current'] : ~(k < 1)
  BY DEF WithinChain
<1>1. Todo' \in Seq(Lane) /\ merge'.at \in 1 .. Len(Todo')
  BY DEF Todo, Replaying, MergeLocals
<1>2. Current' \in Lane  BY <1>1 DEF Current
<1> QED  BY <1>2

LEMMA MergingMerges ==
    ASSUME TypeOK, InPass, Ordered, Gated, Heads, Merges, Merging
    PROVE  Merges'
<1>1. /\ pc = "merge" /\ pc' = "merge" /\ UNCHANGED <<order, chain>> /\ MergeStep
      /\ MergeTypeOK
  BY DEF Merging, mainVars, laneVars, TypeOK
<1>2. /\ order \in Seq(Lane) /\ merge \in MergeLocals /\ head \in Seq(Picks)
      /\ merge.at \in Nat /\ merge.nth \in Nat /\ merge.deferred \in Seq(Lane)
      /\ chain \in [Lane -> Seq(Commits)]
  BY <1>1 DEF MergeTypeOK, MergeLocals
<1>3. ASSUME NEW l \in Lane, merge'.step # "raised", Settled(l), ~(Replaying /\ l = Current)
      PROVE  Settled(l)'
  <2>1. record'[l] = record[l]  BY <1>1, <1>3, OtherRecords
  <2> QED  BY <1>1, <1>3, <2>1, StaysSettled
<1>4. CASE merge'.step = "raised"
  BY <1>1, <1>4 DEF Merges, FirstPass, WithinChain, SecondPass, AllSettled, Replaying, Passing
<1>5. CASE Gate /\ merge'.step # "raised"
  <2>1. merge' \in MergeLocals /\ merge'.step = "first" /\ merge'.at = 1 /\ merge'.nth = 1
    BY <1>2, <1>5, GateTyped
  <2>2. \A i \in DOMAIN order : ~(i < 1)  BY <1>2
  <2>3. FirstPass'  BY <1>1, <2>1, <2>2 DEF FirstPass
  <2>4. WithinChain'  BY <1>1, <1>2, <2>1, ChainBegins
  <2> QED  BY <1>1, <2>1, <2>3, <2>4 DEF Merges, SecondPass, AllSettled
<1>6. CASE PassOver \/ SkipLane \/ LaneReplayed \/ DeferredReplayed
  <2>1. /\ merge' \in MergeLocals
        /\ merge'.step = merge.step /\ merge'.at = merge.at + 1 /\ merge'.nth = 1
        /\ merge'.deferred = merge.deferred /\ merge'.lost = merge.lost
    BY <1>1, <1>6, LaneEndsTyped
  <2>2. Replaying /\ Passing
    BY <1>6 DEF PassOver, SkipLane, LaneReplayed, DeferredReplayed, PickFails, InChain, Replaying
  <2>3. WithinChain'  BY <1>1, <1>2, <2>1, <2>2, ChainBegins DEF InPass
  <2>4. \A l \in Lane : l = Current => Settled(l)'
    BY <1>1, <1>6, LeavesSettled DEF Heads, Merges
  <2>5. \A l \in Lane : Settled(l) => Settled(l)'
    BY <1>3, <2>1, <2>2, <2>4 DEF Passing
  <2>6. CASE merge.step = "first"
    <3>1. Current = order[merge.at]  BY <2>6 DEF Current, Todo
    <3>2. ASSUME NEW i \in DOMAIN order, i < merge.at + 1
          PROVE  \/ Settled(order[i])'
                 \/ \E j \in DOMAIN merge.deferred : merge.deferred[j] = order[i]
      <4>1. order[i] \in Lane  BY <1>2
      <4>2. CASE i = merge.at
        <5>1. \A l \in Lane : l = order[i] => Settled(l)'  BY <2>4, <3>1, <4>2
        <5> QED  BY <1>1, <4>1, <5>1 DEF Settled, Whole, Present
      <4>3. CASE i # merge.at
        <5>1. i < merge.at  BY <1>2, <3>2, <4>3
        <5>2. CASE Settled(order[i])
          <6>1. \A l \in Lane : l = order[i] => Settled(l)'  BY <2>5, <5>2
          <6> QED  BY <1>1, <4>1, <6>1 DEF Settled, Whole, Present
        <5> QED  BY <1>1, <2>6, <5>1, <5>2 DEF Merges, FirstPass
      <4> QED  BY <4>2, <4>3
    <3>3. FirstPass'  BY <1>1, <2>1, <3>2 DEF FirstPass, Settled, Whole, Present
    <3> QED  BY <1>1, <2>1, <2>3, <2>6, <3>3 DEF Merges, SecondPass, AllSettled
  <2>7. CASE merge.step = "second"
    <3>1. Current = merge.deferred[merge.at]  BY <2>7 DEF Current, Todo
    <3>2. ASSUME NEW l \in Lane
          PROVE  \/ Settled(l)' \/ l \in merge.lost
                 \/ \E j \in DOMAIN merge.deferred : j >= merge.at + 1 /\ merge.deferred[j] = l
      <4>1. CASE \E j \in DOMAIN merge.deferred : j >= merge.at /\ merge.deferred[j] = l
        <5>1. PICK j \in DOMAIN merge.deferred : j >= merge.at /\ merge.deferred[j] = l
          BY <4>1
        <5>2. CASE j = merge.at  BY <2>4, <3>1, <5>1, <5>2
        <5>3. CASE j # merge.at
          <6>1. j >= merge.at + 1  BY <1>2, <5>1, <5>3
          <6> QED  BY <5>1, <6>1
        <5> QED  BY <5>2, <5>3
      <4> QED  BY <1>1, <2>5, <2>7, <4>1 DEF Merges, SecondPass
    <3>3. SecondPass'  BY <1>1, <2>1, <3>2 DEF SecondPass
    <3> QED  BY <1>1, <2>1, <2>3, <2>7, <3>3 DEF Merges, FirstPass, AllSettled
  <2> QED  BY <2>2, <2>6, <2>7 DEF Passing
<1>7. CASE SkipAncestor \/ PickApplies
  <2>1. /\ merge' \in MergeLocals
        /\ merge'.step = merge.step /\ merge'.at = merge.at /\ merge'.nth = merge.nth + 1
        /\ merge'.deferred = merge.deferred /\ merge'.lost = merge.lost
    BY <1>1, <1>7, PickingTyped
  <2>2. Replaying /\ Passing /\ merge.nth \in DOMAIN chain[Current] /\ record' = record
    BY <1>1, <1>7, PickTyped DEF SkipAncestor, PickApplies, InChain, Replaying
  <2>3. \A c : Present(c) => Present(c)'
    BY <1>1, <2>1, <2>2, StaysPresent DEF Passing
  <2>4. \A l \in Lane : Settled(l) => Settled(l)'
    <3>1. \A l \in Lane : Whole(l) => \A i \in DOMAIN chain[l] : Present(chain[l][i])'
      <4> SUFFICES ASSUME NEW l \in Lane, Whole(l), NEW i \in DOMAIN chain[l]
                   PROVE  Present(chain[l][i])'
        OBVIOUS
      <4>1. Present(chain[l][i])  BY DEF Whole
      <4> QED  BY <1>1, <2>3, <4>1 DEF Present
    <3> QED  BY <1>1, <2>2, <3>1 DEF Settled, Whole, Present
  <2>5. \E i \in DOMAIN head' : head'[i].of = chain[Current][merge.nth]
    <3> DEFINE c == chain[Current][merge.nth]
    <3>1. CASE SkipAncestor
      <4>1. IsAncestor(c) /\ head' = head  BY <3>1 DEF SkipAncestor
      <4> QED  BY <4>1 DEF IsAncestor, Original
    <3>2. CASE PickApplies
      <4>1. PICK x \in Picks : x = Replayed(c) /\ head' = Append(head, x)
        BY <1>1, <3>2, PickTyped DEF PickApplies
      <4>2. \E i \in DOMAIN head' : head'[i] = x
        <5> HIDE DEF c
        <5>1. head' = Append(head, x)  BY <4>1
        <5>2. head \in Seq(Picks)  BY <1>2
        <5> QED  BY <5>1, <5>2, Appended
      <4>3. x.of = c  BY <4>1 DEF Replayed
      <4> QED  BY <4>2, <4>3
    <3> QED  BY <1>7, <3>1, <3>2
  <2>6. Current' = Current  BY <1>1, <2>1 DEF Current, Todo
  <2>7. ASSUME NEW k \in DOMAIN chain[Current], k < merge.nth + 1
        PROVE  \E i \in DOMAIN head' : head'[i].of = chain[Current][k]
    <3>1. CASE k = merge.nth  BY <2>5, <3>1
    <3>2. CASE k # merge.nth
      <4>1. Current \in Lane  BY <1>1, <2>2, CurrentTyped
      <4>2. k < merge.nth  BY <1>2, <2>7, <3>2, <4>1
      <4>3. Present(chain[Current][k])  BY <1>1, <2>2, <4>2 DEF Merges, WithinChain
      <4> QED  BY <1>1, <2>3, <2>6, <4>3 DEF Present
    <3> QED  BY <3>1, <3>2
  <2>8. WithinChain'  BY <1>1, <2>1, <2>6, <2>7 DEF WithinChain, Present
  <2>9. FirstPass'
    <3> SUFFICES ASSUME merge.step = "first", NEW i \in DOMAIN order, i < merge.at
                 PROVE  \/ Settled(order[i])'
                        \/ \E j \in DOMAIN merge.deferred : merge.deferred[j] = order[i]
      BY <1>1, <2>1 DEF FirstPass, Settled, Whole, Present
    <3>1. order[i] \in Lane  BY <1>2
    <3>2. Settled(order[i]) => Settled(order[i])'
      <4>1. \A l \in Lane : l = order[i] /\ Settled(l) => Settled(l)'  BY <2>4
      <4> QED  BY <1>1, <3>1, <4>1 DEF Settled, Whole, Present
    <3> QED  BY <1>1, <3>2 DEF Merges, FirstPass
  <2>10. SecondPass'  BY <1>1, <2>1, <2>4 DEF Merges, SecondPass
  <2>11. AllSettled'  BY <1>1, <2>1, <2>2 DEF AllSettled, Passing
  <2> QED  BY <2>8, <2>9, <2>10, <2>11 DEF Merges
<1>8. CASE DeferLane
  <2>1. /\ merge' \in MergeLocals
        /\ merge'.step = merge.step /\ merge'.at = merge.at + 1 /\ merge'.nth = 1
        /\ merge'.deferred = Append(merge.deferred, Current) /\ merge'.lost = merge.lost
    BY <1>1, <1>8, DeferLaneTyped
  <2>2. Replaying /\ merge.step = "first"  BY <1>8 DEF DeferLane, PickFails, InChain
  <2>3. Current = order[merge.at] /\ Current \in Lane  BY <1>1, <2>2, CurrentTyped
  <2>4. /\ \A j \in DOMAIN merge.deferred : /\ j \in DOMAIN merge'.deferred
                                            /\ merge'.deferred[j] = merge.deferred[j]
        /\ \E j \in DOMAIN merge'.deferred : merge'.deferred[j] = Current
    <3>1. Len(merge'.deferred) = Len(merge.deferred) + 1 /\ Len(merge.deferred) \in Nat
      BY <1>2, <2>1, <2>3
    <3>2. merge'.deferred[Len(merge.deferred) + 1] = Current  BY <1>2, <2>1, <2>3
    <3>3. \A j \in DOMAIN merge.deferred : merge'.deferred[j] = merge.deferred[j]
      BY <1>2, <2>1, <2>3, SMTT(30)
    <3>4. /\ DOMAIN merge.deferred = 1 .. Len(merge.deferred)
          /\ DOMAIN merge'.deferred = 1 .. Len(merge.deferred) + 1
      BY <1>2, <2>1, <2>3
    <3> QED  BY <3>1, <3>2, <3>3, <3>4
  <2>5. WithinChain'  BY <1>1, <1>2, <2>1, <2>2, ChainBegins DEF InPass, Passing
  <2>6. ASSUME NEW i \in DOMAIN order, i < merge.at + 1
        PROVE  \/ Settled(order[i])'
               \/ \E j \in DOMAIN merge'.deferred : merge'.deferred[j] = order[i]
    <3>1. order[i] \in Lane  BY <1>2
    <3>2. CASE order[i] = Current  BY <2>4, <3>2
    <3>3. CASE order[i] # Current
      <4>1. i < merge.at  BY <1>2, <2>3, <2>6, <3>3
      <4>2. CASE Settled(order[i])
        <5>1. \A l \in Lane : l = order[i] => Settled(l)'
          BY <1>3, <2>1, <2>2, <3>3, <4>2
        <5> QED  BY <1>1, <3>1, <5>1 DEF Settled, Whole, Present
      <4> QED  BY <1>1, <2>2, <2>4, <4>1, <4>2 DEF Merges, FirstPass
    <3> QED  BY <3>2, <3>3
  <2>7. FirstPass'  BY <1>1, <2>1, <2>6 DEF FirstPass, Settled, Whole, Present
  <2> QED  BY <1>1, <2>1, <2>2, <2>5, <2>7 DEF Merges, SecondPass, AllSettled
<1>9. CASE DeferredConflict
  <2>1. /\ merge' \in MergeLocals
        /\ merge'.step = merge.step /\ merge'.at = merge.at + 1 /\ merge'.nth = 1
        /\ merge'.deferred = merge.deferred /\ merge'.lost = merge.lost \cup {Current}
    BY <1>1, <1>9, DeferredConflictTyped
  <2>2. Replaying /\ merge.step = "second"  BY <1>9 DEF DeferredConflict, PickFails, InChain
  <2>3. Current = merge.deferred[merge.at]  BY <1>1, <2>2, CurrentTyped
  <2>4. WithinChain'  BY <1>1, <1>2, <2>1, <2>2, ChainBegins DEF InPass, Passing
  <2>5. ASSUME NEW l \in Lane
        PROVE  \/ Settled(l)' \/ l \in merge.lost \cup {Current}
               \/ \E j \in DOMAIN merge.deferred : j >= merge.at + 1 /\ merge.deferred[j] = l
    <3>1. CASE l = Current  BY <3>1
    <3>2. CASE l # Current /\ Settled(l)  BY <1>3, <2>1, <2>2, <3>2
    <3>3. CASE l # Current /\ \E j \in DOMAIN merge.deferred :
                                  j >= merge.at /\ merge.deferred[j] = l
      <4>1. PICK j \in DOMAIN merge.deferred : j >= merge.at /\ merge.deferred[j] = l  BY <3>3
      <4>2. j >= merge.at + 1  BY <1>2, <2>3, <3>3, <4>1
      <4> QED  BY <4>1, <4>2
    <3> QED  BY <1>1, <2>2, <3>1, <3>2, <3>3 DEF Merges, SecondPass
  <2>6. SecondPass'  BY <1>1, <2>1, <2>5 DEF SecondPass
  <2> QED  BY <1>1, <2>1, <2>2, <2>4, <2>6 DEF Merges, FirstPass, AllSettled
<1>10. CASE FirstPassEnds
  <2>1. /\ merge' \in MergeLocals /\ merge.step = "first" /\ merge.at > Len(order)
        /\ \/ merge.deferred = <<>> /\ merge'.step = "end"
           \/ /\ merge'.step = "second" /\ merge'.at = 1 /\ merge'.nth = 1
              /\ merge'.deferred = merge.deferred /\ merge'.lost = merge.lost
    BY <1>2, <1>10, FirstPassEndsTyped DEF FirstPassEnds
  <2>2. ~Replaying  BY <1>2, <2>1 DEF Replaying, Todo
  <2>3. \A l \in Lane : Settled(l) => Settled(l)'  BY <1>3, <2>1, <2>2
  <2>4. ASSUME NEW l \in Lane
        PROVE  Settled(l)' \/ \E j \in DOMAIN merge.deferred : merge.deferred[j] = l
    <3>1. PICK i \in DOMAIN order : order[i] = l  BY <1>1 DEF Gated, Ordered, ToSet
    <3>2. i < merge.at  BY <1>2, <2>1, <3>1
    <3> QED  BY <1>1, <2>1, <2>3, <3>1, <3>2 DEF Merges, FirstPass
  <2>5. CASE merge.deferred = <<>> /\ merge'.step = "end"
    <3>1. \A l \in Lane : Settled(l)'  BY <2>4, <2>5
    <3>2. AllSettled'  BY <3>1 DEF AllSettled
    <3> QED  BY <1>1, <2>5, <3>2 DEF Merges, FirstPass, SecondPass, WithinChain, Replaying, Passing
  <2>6. CASE /\ merge'.step = "second" /\ merge'.at = 1 /\ merge'.nth = 1
             /\ merge'.deferred = merge.deferred /\ merge'.lost = merge.lost
    <3>1. \A j \in DOMAIN merge.deferred : j >= 1  BY <1>2
    <3>2. SecondPass'  BY <1>1, <2>4, <2>6, <3>1 DEF SecondPass
    <3>3. WithinChain'  BY <1>1, <1>2, <2>1, <2>6, ChainBegins
    <3> QED  BY <1>1, <2>6, <3>2, <3>3 DEF Merges, FirstPass, AllSettled
  <2> QED  BY <2>1, <2>5, <2>6
<1>11. CASE SecondPassEnds /\ merge'.step # "raised"
  <2>1. /\ merge.step = "second" /\ merge.at > Len(merge.deferred) /\ merge.lost = {}
        /\ merge'.step = "end"
    BY <1>2, <1>11, SecondPassEndsTyped DEF SecondPassEnds
  <2>2. ~Replaying  BY <1>2, <2>1 DEF Replaying, Todo
  <2>3. \A j \in DOMAIN merge.deferred : ~(j >= merge.at)  BY <1>2, <2>1
  <2>4. \A l \in Lane : Settled(l)'
    BY <1>1, <1>3, <2>1, <2>2, <2>3 DEF Merges, SecondPass
  <2>5. AllSettled'  BY <2>4 DEF AllSettled
  <2> QED  BY <1>1, <2>1, <2>5 DEF Merges, FirstPass, SecondPass, WithinChain, Replaying, Passing
<1>12. CASE FailFast \/ GitBreaks
  <2>1. PICK why \in {"conflict", "git"} : Raise(why)  BY <1>12 DEF FailFast, GitBreaks
  <2> QED  BY <1>2, <1>4, <2>1, RaiseTyped
<1> QED  BY <1>1, <1>4, <1>5, <1>6, <1>7, <1>8, <1>9, <1>10, <1>11, <1>12 DEF MergeStep

(* Outside the merge nothing of it changes before the round is over.       *)
LEMMA MergesStep ==
    ASSUME TypeOK, InPass, Planned, Ordered, Gated, Heads, Merges, [Next]_vars
    PROVE  Merges'
<1> DEFINE Idle == UNCHANGED <<pc, order, chain, head, record, merge>>
<1> USE DEF mergeVars, mainVars, laneVars
<1>1. CASE BeginMerge
  <2>1. merge' = [NoMerge EXCEPT !.step = "gate", !.current = head]
    BY <1>1 DEF BeginMerge, StartMerge
  <2>2. merge'.step = "gate" /\ pc' = "merge"  BY <1>1, <2>1 DEF BeginMerge, NoMerge
  <2> QED  BY <2>2 DEF Merges, FirstPass, WithinChain, SecondPass, AllSettled, Replaying, Passing
<1>2. CASE ChecksPass
  <2>1. /\ pc = "merge" /\ merge.step = "end" /\ pc' = "merged"
        /\ UNCHANGED <<chain, head, record>>
    BY <1>2 DEF ChecksPass
  <2>2. \A l \in Lane : Settled(l)  BY <2>1 DEF Merges, AllSettled
  <2>3. AllSettled'  BY <2>1, <2>2 DEF AllSettled, Settled, Whole, Present
  <2> QED  BY <2>1, <2>3 DEF Merges, FirstPass, WithinChain, SecondPass
<1>3. CASE Idle
  BY <1>3 DEF Merges, FirstPass, WithinChain, SecondPass, AllSettled, Replaying, Passing, Todo,
              Current, Settled, Whole, Present
<1>4. ASSUME NEW l \in Lane, TakeReview(l) \/ Reviewed(l)  PROVE Idle
  BY <1>4 DEF TakeReview, Reviewed
<1>5. ASSUME NEW l \in Lane, TakeJob(l) \/ WorkerDone(l) \/ WorkerFails(l)
      PROVE  pc' = "collect"
  <2>1. job[l] \in {"queued", "working"} /\ pc' = pc
    BY <1>5 DEF TakeJob, WorkerDone, WorkerFails
  <2> QED  BY <2>1 DEF Planned
<1>6. CASE UNCHANGED vars  BY <1>3, <1>6 DEF vars
<1>7. CASE pc' \notin {"merge", "merged"}
  BY <1>7 DEF Merges, FirstPass, WithinChain, SecondPass, AllSettled
<1>8. CASE \/ ParentStarts \/ Spawn \/ PrepareTree \/ PrepareFails \/ Prepared
           \/ Stage \/ Collect \/ StageEnds \/ FanOut
  <2>1. pc' \notin {"merge", "merged"}
    BY <1>8 DEF ParentStarts, Spawn, PrepareTree, PrepareFails, Prepared, Stage, Collect,
                StageEnds, FanOut
  <2> QED  BY <1>7, <2>1
<1>9. CASE \/ LanesFailed \/ LanesRejected \/ MergeRaised \/ ChecksFail \/ ChecksBreak \/ Approve
           \/ AskAgain \/ Crash \/ MoveHead \/ RunAgain
  <2>1. pc' \notin {"merge", "merged"}
    BY <1>9 DEF LanesFailed, LanesRejected, MergeRaised, ChecksFail, ChecksBreak, Approve,
                AskAgain, Crash, MoveHead, RunAgain, EndRun
  <2> QED  BY <1>7, <2>1
<1> HIDE DEF Idle, mergeVars, mainVars, laneVars
<1>10. CASE \E l \in Lane : Pool(l)
  <2>1. CASE \E l \in Lane : TakeReview(l) \/ Reviewed(l)  BY <1>3, <1>4, <2>1
  <2>2. CASE \E l \in Lane : TakeJob(l) \/ WorkerDone(l) \/ WorkerFails(l)
    <3>1. pc' = "collect"  BY <1>5, <2>2
    <3> QED  BY <1>7, <3>1
  <2> QED  BY <1>10, <2>1, <2>2 DEF Pool
<1> QED  BY <1>1, <1>2, <1>3, <1>6, <1>8, <1>9, <1>10, MergingMerges DEF Next, Main, Over

-----------------------------------------------------------------------------
(* What a reset may take away.                                             *)

(* In the first pass either the head is nothing but what this pass has put *)
(* there, or there is nothing to replay.                                   *)
OwnReplays == \A i \in DOMAIN head : ~head[i].own /\ head[i].of.try = try
NothingToReplay ==
    merge.nth = 1 /\ \A i \in DOMAIN order : HasWork(order[i]) => Integrated(order[i])
Resettable == pc = "merge" /\ merge.step = "first" => OwnReplays \/ NothingToReplay

LEMMA ReplaysAreOwn ==
    ASSUME MergeTypeOK, InPass, Resettable, pc = "merge", merge.step = "first", InChain
    PROVE  OwnReplays
<1>1. Current = order[merge.at] /\ merge.at \in DOMAIN order  BY CurrentTyped DEF InChain
<1> QED  BY <1>1 DEF InChain, Resettable, NothingToReplay

LEMMA ResettableStep ==
    ASSUME TypeOK, InPass, Planned, Chained, Resettable, [Next]_vars
    PROVE  Resettable'
<1> USE DEF mergeVars, mainVars, laneVars
<1>1. /\ MergeTypeOK /\ merge \in MergeLocals /\ head \in Seq(Picks)
      /\ chain \in [Lane -> Seq(Commits)]
  BY DEF TypeOK, MergeTypeOK, MergeLocals
<1>2. CASE pc' # "merge"  BY <1>2 DEF Resettable
<1>3. CASE UNCHANGED <<pc, try, order, chain, head, merge>>
  BY <1>3 DEF Resettable, OwnReplays, NothingToReplay, HasWork, Integrated, IsAncestor, LaneHead
<1>4. CASE BeginMerge
  <2>1. merge' = [NoMerge EXCEPT !.step = "gate", !.current = head]
    BY <1>4 DEF BeginMerge, StartMerge
  <2>2. merge'.step = "gate"  BY <2>1 DEF NoMerge
  <2> QED  BY <2>2 DEF Resettable
<1>5. CASE Merging
  <2>1. pc = "merge" /\ UNCHANGED <<pc, try, order, chain>> /\ MergeStep
    BY <1>5 DEF Merging
  <2>2. CASE Gate
    <3>1. head' = head  BY <2>2 DEF Gate
    <3>2. CASE merge'.step = "raised"  BY <3>2 DEF Resettable
    <3>3. CASE merge'.step # "raised"
      <4>1. merge'.nth = 1  BY <1>1, <2>2, <3>3, GateTyped
      <4>2. \/ head = <<>>
            \/ \A i \in DOMAIN order : HasWork(order[i]) => Integrated(order[i])
        <5>1. ~Raise("moved")  BY <1>1, <3>3, RaiseTyped
        <5> QED  BY <2>2, <5>1 DEF Gate
      <4>3. CASE head = <<>>  BY <3>1, <4>3 DEF Resettable, OwnReplays
      <4>4. CASE \A i \in DOMAIN order : HasWork(order[i]) => Integrated(order[i])
        BY <2>1, <3>1, <4>1, <4>4
        DEF Resettable, NothingToReplay, HasWork, Integrated, IsAncestor, LaneHead
      <4> QED  BY <4>2, <4>3, <4>4
    <3> QED  BY <3>2, <3>3
  <2>3. CASE PassOver \/ SkipLane \/ DeferLane \/ LaneReplayed
    <3>1. merge.step = "first" /\ head' = head
      BY <2>3 DEF PassOver, SkipLane, DeferLane, LaneReplayed
    <3>2. merge'.nth = 1  BY <1>1, <2>3, LaneEndsTyped, DeferLaneTyped
    <3> QED  BY <2>1, <3>1, <3>2
             DEF Resettable, OwnReplays, NothingToReplay, HasWork, Integrated, IsAncestor, LaneHead
  <2>4. CASE SkipAncestor \/ PickApplies
    <3>1. merge'.step = merge.step /\ InChain
      BY <1>1, <2>4, PickingTyped DEF SkipAncestor, PickApplies
    <3>2. CASE merge.step # "first"  BY <3>1, <3>2 DEF Resettable
    <3>3. CASE merge.step = "first"
      <4>1. OwnReplays  BY <1>1, <2>1, <3>1, <3>3, ReplaysAreOwn
      <4>2. OwnReplays'
        <5>1. CASE SkipAncestor  BY <2>1, <4>1, <5>1 DEF SkipAncestor, OwnReplays
        <5>2. CASE PickApplies
          <6>1. Current \in Lane /\ merge.nth \in DOMAIN chain[Current]
            BY <1>1, <3>1, CurrentTyped, PickTyped DEF InChain
          <6>2. PICK x \in Picks : /\ x = Replayed(chain[Current][merge.nth])
                                   /\ head' = Append(head, x)
            BY <1>1, <3>1, <5>2, PickTyped DEF PickApplies
          <6>3. ~x.own /\ x.of.try = try  BY <6>1, <6>2 DEF Chained, Replayed
          <6>4. \A i \in DOMAIN head' : (i \in DOMAIN head /\ head'[i] = head[i]) \/ head'[i] = x
            BY <1>1, <6>2, Appended
          <6> QED  BY <2>1, <4>1, <6>3, <6>4 DEF OwnReplays
        <5> QED  BY <2>4, <5>1, <5>2
      <4> QED  BY <4>2 DEF Resettable
    <3> QED  BY <3>2, <3>3
  <2>5. CASE \/ FailFast \/ FirstPassEnds \/ DeferredConflict \/ DeferredReplayed
             \/ SecondPassEnds \/ GitBreaks
    <3>1. merge'.step # "first"
      <4>1. CASE FailFast \/ GitBreaks
        <5>1. PICK why \in {"conflict", "git"} : Raise(why)  BY <4>1 DEF FailFast, GitBreaks
        <5> QED  BY <1>1, <5>1, RaiseTyped
      <4>2. CASE FirstPassEnds \/ SecondPassEnds
        BY <1>1, <4>2, FirstPassEndsTyped, SecondPassEndsTyped
      <4>3. CASE DeferredConflict
        BY <1>1, <4>3, DeferredConflictTyped DEF DeferredConflict
      <4>4. CASE DeferredReplayed  BY <1>1, <4>4, LaneEndsTyped DEF DeferredReplayed
      <4> QED  BY <2>5, <4>1, <4>2, <4>3, <4>4
    <3> QED  BY <3>1 DEF Resettable
  <2> QED  BY <2>1, <2>2, <2>3, <2>4, <2>5 DEF MergeStep
<1>6. CASE UNCHANGED vars  BY <1>3, <1>6 DEF vars
<1>7. ASSUME NEW l \in Lane, TakeJob(l) \/ WorkerFails(l) \/ TakeReview(l) \/ Reviewed(l)
      PROVE  Resettable'
  BY <1>3, <1>7 DEF TakeJob, WorkerFails, TakeReview, Reviewed
<1>8. ASSUME NEW l \in Lane, WorkerDone(l)  PROVE Resettable'
  <2>1. job[l] = "working" /\ pc' = pc  BY <1>8 DEF WorkerDone
  <2>2. pc = "collect"  BY <2>1 DEF Planned
  <2> QED  BY <2>1, <2>2 DEF Resettable
<1>9. CASE \/ ParentStarts \/ Spawn \/ PrepareTree \/ PrepareFails \/ Prepared
           \/ Stage \/ Collect \/ StageEnds \/ FanOut
  <2>1. pc' # "merge"
    BY <1>9 DEF ParentStarts, Spawn, PrepareTree, PrepareFails, Prepared, Stage, Collect,
                StageEnds, FanOut
  <2> QED  BY <1>2, <2>1
<1>10. CASE \/ LanesFailed \/ LanesRejected \/ MergeRaised \/ ChecksFail \/ ChecksBreak
            \/ ChecksPass \/ Approve \/ AskAgain \/ Crash \/ MoveHead \/ RunAgain
  <2>1. pc' # "merge"
    BY <1>10 DEF LanesFailed, LanesRejected, MergeRaised, ChecksFail, ChecksBreak, ChecksPass,
                 Approve, AskAgain, Crash, MoveHead, RunAgain, EndRun
  <2> QED  BY <1>2, <2>1
<1> HIDE DEF mergeVars, mainVars, laneVars
<1> QED  BY <1>4, <1>5, <1>6, <1>7, <1>8, <1>9, <1>10 DEF Next, Main, Pool, Over

(* Only a replay that fails in the first pass takes anything off the head. *)
LEMMA OnlyFailFastTakesAway ==
    ASSUME TypeOK, InPass, pc = "merge", [Next]_vars,
           NEW i \in DOMAIN head, ~(i \in DOMAIN head' /\ head'[i] = head[i])
    PROVE  merge.step = "first" /\ InChain
<1> USE DEF mergeVars
<1>1. MergeTypeOK /\ head \in Seq(Picks)  BY DEF TypeOK, MergeTypeOK
<1>2. head' # head  OBVIOUS
<1>3. Merging
  <2>1. CASE \/ ParentStarts \/ Spawn \/ PrepareTree \/ PrepareFails \/ Prepared
             \/ Stage \/ Collect \/ StageEnds \/ LanesFailed
    BY <1>2, <2>1 DEF ParentStarts, Spawn, PrepareTree, PrepareFails, Prepared, Stage, Collect,
                      StageEnds, LanesFailed
  <2>2. CASE \/ FanOut \/ LanesRejected \/ BeginMerge \/ MergeRaised \/ ChecksFail
             \/ ChecksBreak \/ ChecksPass \/ Approve \/ AskAgain
    BY <1>2, <2>2 DEF FanOut, LanesRejected, BeginMerge, MergeRaised, ChecksFail, ChecksBreak,
                      ChecksPass, Approve, AskAgain, StartMerge
  <2>3. CASE \/ Crash \/ MoveHead \/ RunAgain \/ UNCHANGED vars
    BY <1>2, <2>3 DEF Crash, MoveHead, RunAgain, vars
  <2>4. ASSUME NEW l \in Lane, Pool(l)  PROVE FALSE
    BY <1>2, <2>4 DEF Pool, TakeJob, WorkerDone, WorkerFails, TakeReview, Reviewed
  <2> QED  BY <2>1, <2>2, <2>3, <2>4 DEF Next, Main, Over
<1>4. MergeStep  BY <1>3 DEF Merging
<1>5. ~PickApplies
  <2> SUFFICES ASSUME PickApplies PROVE FALSE  OBVIOUS
  <2>1. PICK x \in Picks : head' = Append(head, x)  BY <1>1, PickTyped DEF PickApplies
  <2> QED  BY <1>1, <2>1, Appended
<1>6. FailFast
  BY <1>2, <1>4, <1>5
  DEF MergeStep, Gate, PassOver, SkipAncestor, SkipLane, DeferLane, LaneReplayed, FirstPassEnds,
      DeferredConflict, DeferredReplayed, SecondPassEnds, GitBreaks
<1> QED  BY <1>6 DEF FailFast, PickFails

-----------------------------------------------------------------------------
(* The inductive invariant and what follows from it.                       *)

IInv ==
    /\ Typed /\ Planned /\ DependenciesCompleteFirst /\ Ordered /\ Staged /\ Gated
    /\ TreesMade /\ Swept
    /\ Chained /\ Heads /\ Merges /\ Resettable

LEMMA InitIInv == Init => IInv
<1> SUFFICES ASSUME Init PROVE IInv  OBVIOUS
<1>1. /\ pc = "stopped" /\ order = <<>> /\ head = <<>> /\ round = 1
      /\ ahead = Lane /\ waiting = {}
      /\ chain = [l \in Lane |-> <<>>] /\ lane = [l \in Lane |-> "pending"]
      /\ job = [l \in Lane |-> "none"]
      /\ tree = [r \in Rounds |-> [l \in Lane |-> NoTree]]
  BY DEF Init, EachLane
<1>2. Typed  BY TypedInit
<1>3. Planned /\ DependenciesCompleteFirst  BY <1>1 DEF Planned, DependenciesCompleteFirst
<1>4. Ordered /\ Gated  BY <1>1 DEF Ordered, Gated, ToSet
<1>11. Staged  BY <1>1, BeginsStaged
<1>5. TreesMade  BY <1>1 DEF TreesMade, Built
<1>6. Swept  BY <1>1 DEF Swept
<1>7. Chained  BY <1>1 DEF Chained
<1>8. Heads  BY <1>1 DEF Heads, AttemptsPast, OfTheDone, WithHistory
<1>9. Merges  BY <1>1 DEF Merges, FirstPass, WithinChain, SecondPass, AllSettled
<1>10. Resettable  BY <1>1 DEF Resettable
<1> QED  BY <1>2, <1>3, <1>4, <1>5, <1>6, <1>7, <1>8, <1>9, <1>10, <1>11 DEF IInv

LEMMA IInvStep == IInv /\ [Next]_vars => IInv'
<1> SUFFICES ASSUME IInv, [Next]_vars PROVE IInv'  OBVIOUS
<1>1. TypeOK /\ InPass  BY DEF IInv, Typed
<1>2. Typed'  BY TypedStep DEF IInv
<1>3. Planned'  BY <1>1, PlannedStep DEF IInv
<1>4. DependenciesCompleteFirst'  BY <1>1, DependenciesStep DEF IInv
<1>5. Ordered'  BY <1>1, OrderedStep DEF IInv
<1>13. Staged'  BY <1>1, StagedStep DEF IInv
<1>6. Gated'  BY <1>1, GatedStep DEF IInv
<1>7. TreesMade'  BY <1>1, TreesMadeStep DEF IInv
<1>8. Swept'  BY <1>1, SweptStep DEF IInv
<1>9. Chained'  BY <1>1, ChainedStep DEF IInv
<1>10. Heads'  BY <1>1, HeadsStep DEF IInv
<1>11. Merges'  BY <1>1, MergesStep DEF IInv
<1>12. Resettable'  BY <1>1, ResettableStep DEF IInv
<1> QED  BY <1>2, <1>3, <1>4, <1>5, <1>6, <1>7, <1>8, <1>9, <1>10, <1>11, <1>12, <1>13
         DEF IInv

LEMMA IInvAlways == Spec => []IInv
<1> QED  BY InitIInv, IInvStep, PTL DEF Spec

(* The card and the set of lanes that complete determine                   *)
(* lane_execution_order, however the pool's workers finish                 *)
(* (_plan_lane_execution_stages and the collection of the futures).        *)
THEOREM OrderDetermined == Spec => []OrderIsDeterministic
<1>1. IInv => OrderIsDeterministic  BY StagedIsOrdered DEF IInv, Typed
<1> QED  BY <1>1, IInvAlways, PTL

(* A lane's worker is sent only when every lane it depends on has          *)
(* completed, whatever the card's graph and however the pool schedules its *)
(* threads (_plan_lane_execution_stages, _lane_dependency_blockers).       *)
THEOREM DependenciesFirst == Spec => []DependenciesCompleteFirst
<1>1. IInv => DependenciesCompleteFirst  BY DEF IInv
<1> QED  BY <1>1, IInvAlways, PTL

(* A worker runs in a tree that its own attempt has made: no crash, no     *)
(* earlier run and no removal that failed leaves it one of theirs          *)
(* (_create_lane_worktree).                                                *)
THEOREM FreshTrees == Spec => []TreesAreFresh
<1>1. IInv => TreesAreFresh  BY FreshTree DEF IInv, TreesAreFresh
<1> QED  BY <1>1, IInvAlways, PTL

(* Only a round whose lanes have all completed, and all been approved      *)
(* where the card asks for it, is merged (the lane_failures and            *)
(* lane_review_failures gates of the single-round child).                  *)
THEOREM WholeRounds == Spec => []OnlyWholeRoundsMerge
<1>1. IInv => OnlyWholeRoundsMerge  BY DEF IInv, Gated, OnlyWholeRoundsMerge
<1> QED  BY <1>1, IInvAlways, PTL

(* A run of a card that does not preserve worktrees ends with none, in any *)
(* round, unless a removal failed or the trees could not be prepared       *)
(* (_cleanup_lane_worktrees and _prune_stale_worktrees).                   *)
THEOREM NothingLeft == Spec => []NoTreeIsLeft
<1>1. IInv => NoTreeIsLeft  BY DEF IInv, Swept, NoTreeIsLeft
<1> QED  BY <1>1, IInvAlways, PTL

(* A merge that ends has put every commit of every lane that it does not   *)
(* record as skipped on the integration head, however the lanes build on   *)
(* one another and whatever the head held before                           *)
(* (_cherry_pick_lane_reports).                                            *)
THEOREM MergeWhole == Spec => []MergedIsWhole
<1>1. IInv => MergedIsWhole
  <2> SUFFICES ASSUME IInv, pc = "merged", NEW l \in Lane
               PROVE  /\ record[l] \notin {"pending", "deferred_pending_retry", "deferred_conflict"}
                      /\ record[l] # "skipped_conflict" =>
                             \A i \in DOMAIN chain[l] : Present(chain[l][i])
    BY DEF MergedIsWhole
  <2>1. Settled(l)  BY DEF IInv, Merges, AllSettled
  <2> QED  BY <2>1 DEF Settled, Whole
<1> QED  BY <1>1, IInvAlways, PTL

(* A reset after a failed replay takes away only what that replay has put  *)
(* on the head, so no commit of the operator's, of another round or of     *)
(* another attempt is lost (_restore_merge_head_after_failure).            *)
THEOREM ResetsOnlyOwn == Spec => ResetLosesNothing
<1> DEFINE Lossless ==
      \A i \in DOMAIN head : ~(i \in DOMAIN head' /\ head'[i] = head[i]) /\ pc = "merge"
          => ~head[i].own /\ head[i].of.try = try
<1>1. IInv /\ [Next]_vars => [Lossless]_vars
  <2> SUFFICES ASSUME IInv, [Next]_vars, pc = "merge", NEW i \in DOMAIN head,
                      ~(i \in DOMAIN head' /\ head'[i] = head[i])
               PROVE  ~head[i].own /\ head[i].of.try = try
    OBVIOUS
  <2>1. TypeOK /\ InPass /\ MergeTypeOK /\ Resettable  BY DEF IInv, Typed, TypeOK
  <2>2. merge.step = "first" /\ InChain  BY <2>1, OnlyFailFastTakesAway
  <2>3. OwnReplays  BY <2>1, <2>2, ReplaysAreOwn
  <2> QED  BY <2>3 DEF OwnReplays
<1> QED  BY <1>1, IInvAlways, PTL DEF Spec, ResetLosesNothing
=============================================================================
