# loop_kit in TLA+

A verification project for `loop_kit` (`src/src/loop_kit`, almost all of it in
`_core.py`), the orchestrator that drives a worker agent and a reviewer agent
through rounds of work on one task card. It holds TLA+ modules translated from
that code, TLC configurations that check them on small instances, and theorems
about them proved with TLAPS. Line numbers below are of
`src/src/loop_kit/_core.py` unless another file is named.

## The system

`loop run` starts a **parent** process. It takes two locks, copies the task
card into the loop directory, decides whether a run is resumed or begun, and
then, for every round, spawns a **single-round child** (`loop run
--single-round --round N`). The child asks the worker, checks its report, asks
the reviewer, records the decision and ends with an exit code. Parent and child
never talk: both load `state.json` into memory, change it there through a
transition table and save it again; what one knows of the other is that file,
the task card, the reports and the exit code. The agents answer through
`work_report.json` and `review_report.json`, at any time or never. A card may
divide its work into **lanes**: the child then drives one worker per lane, each
in a git worktree of its own, and replays what they committed.

| Component | State it keeps | What makes it correct | Module |
|---|---|---|---|
| Round state machine (7361–7732) | `state.json`: phase, round, task, run id, outcome, head, details | only legal transitions; terminal outcomes stay; the audit trail survives the skipped save | `StateMachine` |
| Parent loop (13907–14360, 14411–14656) | contract in memory, interrupt flag | what it writes after a child is about this run; exit 0 only for a success; it ends | `RunLoop` |
| Single-round child (12655–13905, 14903–15133) | contract in memory | an approval was given by a reviewer, of this commit; a retry has its fix list | `RunLoop` |
| File bus (1008–1331, 10399–10700) | reports, fix list, summary, archive | no report of another task, run or round is taken | `RunLoop`, `Gates` |
| State store (5738–5755, 7530–7622, 8349–8365) | `state.json`, its backup, a temporary file | one readable contract after a crash at any system call | `StateStore`, `StateRegister` |
| Locks (1423–1625, 14427–14446) | flocks on lock files, pid records | one loop per working tree; no lock in use removed; no leaked lock | `LoopLocks` |
| Dispatch of a role (3460–4477, 12282–12445) | process, attempts, report | bounded attempts; a late report is not lost; every dispatch ends | `Dispatch` |
| Backend sessions (11999–12280) | session ids by role in `state.json` | none of another role, backend, run or moved head; rotation | `Dispatch` |
| Wall-clock budget (3315–3357, 14380–14408) | deadline in `state.json` and in the parent | no agent is spawned past it | `Dispatch` |
| Lanes (12885–13518, 8309–8600) | lane status, worktrees, thread pool | dependency order; whole rounds only; no tree left | `Lanes` |
| Lane merge (8727–9066) | integration head, merge records | nothing lost, nothing half merged | `LaneMerge` |
| Task graph, card rules (9194–9559, 9741–9813, 12616–12653) | none | blocked exactly when it must be; lanes disjoint and acyclic | `TaskGraph`, `Gates` |
| Outer commit (7842–8025) | index and working tree | commits only what is declared and owned, of a rename the new name | `WorkTree`, `Gates` |
| No-change evidence (14659–14994) | archive | only what was claimed before counts | `Gates` |
| Plan patch (8092–8306) | none | nothing outside the card's files reaches the reviewer, up to the reported commit | `WorkTree`, `Gates` |
| Heartbeat, feed, knowledge, prompts, reports | files | see *Not modelled* | |

What is hard here is that the same contract lives in three places at once (the
file, the parent's memory, a child's memory), that any of these processes may
die between two writes, that a child may outlive its parent, that answers come
late, and that what one card leaves behind (in the index, in the archive, in
`.loop/worktrees`, in `state.json`) is met by the next. `PROJECT.json` lists the
hazards with their lines.

## Modules

`StateMachine` has operators only; `RunLoop` is built on it and is shown to
implement `RoundProtocol`. `LaneMerge` has the variables and steps of the merge;
`Lanes` extends it with everything around. `TaskGraph` and `WorkTree` are
operators; `Gates` composes them into a repository of several cards.
`StateStore` is shown to implement `StateRegister`. `LoopLocks` and `Dispatch`
stand alone. `MC*` modules hold instances for TLC, `*_proofs` the theorems; those
of `RunLoop` are in three, each of which extends the one before: `RunLoop_proofs`
(for any faults), `RunLoopSerial_proofs` (one process at a time holds the contract)
and `RunLoopApproval_proofs` (who approved what).

The modules meet in assumptions. `LoopLocks` shows what `RunLoop` and
`StateStore` take for granted: one parent at a time. `StateStore` shows what
`RunLoop` takes for granted: a save is atomic. `RunLoop` takes the verdicts of
the dispatch, of the gates and of git as choices, so that what it shows holds
for each of their answers; `Dispatch`, `Lanes` and `Gates` say which answers
those are, and keep of the rounds only what they need.

### StateMachine, RunLoop, RoundProtocol

`Transitions` is `STATE_TRANSITIONS` row by row. `Moved` is
`_apply_state_transition`; `Bootstrapped`, `Prepared`, `Submitted`, `NoChange`,
`Retried` and `Failed` add the updates its callers pass. `Saved` is
`_save_state`, which writes nothing when six compared keys are equal, whatever
happened to `round_details`.

In `RunLoop`, `st`, `card`, `work`, `rev`, `fix`, `summary` and `out` are files,
`src` the status in the cards outside the loop directory, `par` and `kid` the
processes with a program counter and their contract in memory, `jobs` what the
agents were asked and have not answered. `okd` is a history variable: the
approvals reviewers gave, with the commit each was asked about. A step is what
a process does between two points where another process or a crash can matter;
in most functions that is one written file. The order of the writes is the
code's: on an approval `state.json`, card, summary; on changes required the fix
list, the archived report, `state.json`; on a failure `state.json`, card,
summary.

- The parent: `Invoke` (flags, `--reset`, the card's copy, the dirty-worktree
  exit), `ResumeRefused`, `Decide`, `Bootstrap…`, `Resume`, `MarkInProgress`,
  `SpawnRound`, `Reap…` (one per way to read a child's end), the interrupt and
  the failure tails.
- The child: `LoadRound` to `Return`, one action per phase of
  `_run_single_round` and its handlers, plus each of its failures.
- Faults: the host crashes, the parent is killed alone (its child becomes an
  orphan), the child dies, an interrupt arrives. An orphan dies at its next
  `_log`, because the pipe it writes to is closed; actions that log before
  they write require `Piped`.

A run id is a number, fresh by construction (it is a random id in the code). A
commit is a number, 0 the base commit; a report that `_validate_report` rejects
carries a commit of its own. Outcomes the loop treats alike are folded (the
comment at `FailureOutcomes` says which).

### LoopLocks

`link` is the directory, `record` and `holder` belong to inodes. A process
opens the file (`Opened`), writes its pid into an empty one before it has the
lock, tries the flock, and gives up on a conflict. The run lock is preceded by
`_cleanup_stale_lock` in its three system calls, between which anything may
happen. `Die` is the end of a process wherever it is; a pid may start again. The
probe may fail for a process that lives, as `kill` does for another user's.

### StateStore, StateRegister

`state`, `bak` and `tmp` are the three files; a file is absent, torn, odd or a
contract. Each system call that changes one is an action: the backup is copied
in two (`StartCopy` tears it, `EndCopy` completes it), the temporary file is
opened, filled and renamed. `Crash` and `WriteFails` may come between any two,
`Damage` spoils `state.json` while no command runs: it is torn, or it is JSON but no
object, for which `_load_state` does not look for the backup (7579). A contract is a
key (what `_save_state` compares) and the progress of lanes (what it means to compare).
The abstract register holds one contract and a spare: a save goes over a contract
only when that contract is the spare. So damage falls back to a contract set aside,
never to half of one, if there is a spare: before the second save, after a backup that
was interrupted and after a recovery there is none, and the contract is lost.

### Dispatch

`d` is one dispatch: its program counter, the call (1 or 2) of
`_dispatch_with_artifact_fallback`, the attempt of `_run_auto_dispatch`, the
session it was given and the one it got. `Policy` is
`_resolve_session_resume_policy`; `AgentSucceeds`, `InvalidResume`, `AgentFails`,
`PermanentFailure` and `AgentDies` are the ways an attempt ends, the last after
`AgentTimesOut`, the SIGTERM of a command that has a `dispatch_timeout` (`par.timed`),
and perhaps never; `Found`, `Synthesize` and `NoReport` the ways a call ends.
The second call has attempts of its own and starts from the session the first was given,
even if the first found it invalid. A session's id records who made it, for which role,
run and round, so that properties can speak of its age. `par.deadline` is the
parent's copy of the deadline, `st.deadline` the one in the file, which stale
cleanup can wipe (13922–13946).

### Lanes, LaneMerge

The main thread of the child (`pc`), one pool thread per lane (`job`,
`verdict`), the lanes of the stages to come (`ahead`) and those whose results are
awaited (`waiting`), the trees (`tree`, with the attempt that made each), and the
integration head: the commits beyond the base, each either the original or a
replay. git is modelled by what decides: a pick of a change that is there fails,
a chain applies to the tree it was made on, anything else may or may not
conflict. A stage is the lanes of `ahead` that depend on none of `ahead`
(`NextStage`), and its results are taken in declared order (`Before`); a card that
is not `Acyclic` is refused before the round. `PickApplies`, `SkipLane`,
`DeferLane`, `FailFast`, `LaneReplayed` and the second pass are
`_cherry_pick_lane_reports` commit by commit. Nobody else moves the head while the
merge runs; before it the operator may (`MoveHead`).

### TaskGraph, WorkTree, Gates

`TaskGraph` has the rules for lanes, the search of a dependency's card, the
breadth-first snapshot and the depth-first search for a cycle, with the early stops
of the code. The recursive `visit()` is its stack (`Visit` is one step: a node is put
on it, the topmost is taken from it, or a cycle is closed); the order in which a
node's dependencies are taken is any, and the path named in the error message is left
out. `WorkTree` has `git status --porcelain` (an untracked
directory is listed once, with a slash at its end; a staged rename has the name it
came from), what its two readers make of a line (the overreach check keeps of a rename
the new name, and passes over `.loop/`; the patch gate takes "old -> new" as one name),
the declared forms of paths, the outer commit and the patch check. Paths are sequences
of segments. `Gates`
is a repository of several cards and repeated commands `loop run --reset`: a
world fixes the cards, what workers may do and the configuration; the
statuses, the working tree, the index and the archive go on from command to
command. `log` holds the commits HEAD has on top of the run's base, and `head` which of
them the worker reported: the base, the last, one between, or one that HEAD does not
hold (`Reports`), as the code accepts any commit that can be resolved (13606). What
`git diff` says of them is `Between`; a path that a later commit renamed away is not
named. Commits that take an earlier one back are not among the workers' inputs. The
parent's and the child's look at the dependencies are one step.

## Runs

| Run | Instance | States | Shows |
|---|---|---|---|
| `crash` | one task, 2 rounds, 3 commands with any flags, 2 host crashes, 2 commits | 2,773,838 | `ExitZeroIsSuccess`, `AuditTrailIsWhole`, `FixListIsThere`, `RoundNeverRewinds`, `SuccessIsFinal`, `FollowsProtocol` |
| `child` | two tasks, cards inside and outside the loop directory, 2 commands, 2 child deaths or interrupts | 1,068,349 | `FilesAgree`, `ApprovedHeadWasReviewed` |
| `ends` | two child slots, 2 commands, one fault of any kind, fairness | 426,775 | `TypeOK`, `RoundIsTheChilds`, `ApprovalIsEarned`, `ApprovalIsBacked`, `EveryCommandEnds`, `ApprovalIsReported` |
| `locks` | 3 processes, 1 tree, 2 loop directories, 4 inodes, any number of starts and deaths | 599,778 | `OneLoopPerTree`, `RunLockInPlace`, `NoLockLeaks` |
| `lanes` | 3 lanes on 2 threads, 3 cards (one per policy), 2 rounds, one fault, fairness | 748,919 | `TypeOK`, `DependenciesCompleteFirst`, `TreesAreFresh`, `OnlyWholeRoundsMerge`, `OrderIsDeterministic`, `MergedIsWhole`, `ResetLosesNothing`, `NoTreeIsLeft`, `EveryRoundEnds` |
| `dispatch` | 1 retry, rotation after 2 of 3 rounds, 2 backends, 2 commands, with and without a dispatch timeout, one tick of the clock, one fault, fairness | 1,875,564 | `TypeOK`, `SpawnsAreBounded`, `RotationIsStrict`, `SessionIsTheRoles`, `BothStartOver`, `NothingSpawnedLate`, `EveryRunEnds` |
| `gates` | all graphs of 3 cards and a missing one, 10 odd sets of cards, 4 trees with renames, 4 archives, 2 patches with any reported commit; up to 4 commands | 193,527 | `GateAgrees`, `StartedInOrder`, `NoChangeIsBacked`, `OuterCommitIsOwned`, `PatchStaysInScope` |
| `store` | 3 keys, lanes in 2 states, 2 kinds of damage, 3 faults | 18,292 | `ImplementsRegister` |
| `v_stale_review`, `v_second_round`, `v_lanes`, `v_attempts` | the smallest instance each needs | | the findings below |

**Bounds.** Two rounds give a first, a later and a last round, and with
`MaxRounds + 1` the round past the last. Three commands allow a run, its
resumption and a new run over what is left; a second crash can hit the recovery
from the first. Two commits tell the reviewed one from another. Two child slots
are an orphan and the next parent's child. `ends` has one fault: with two its
liveness is out of reach, and its invariants are theorems for any number. Four
inodes are one repo lock, two run locks and one that is unlinked but open; only
one process at a time is past the repo lock. In `lanes`, one lane makes up to two
commits and the others one: a lane can then fail between two picks, and lanes can
share a commit; the three cards have one stage of three lanes for two threads,
and two stages of which the later is declared first. In `dispatch`, three rounds
are the least in which a session becomes too old after it was resumed once. In
`gates`, a graph of three cards has every cycle and diamond that decides, and two
commands a left-over and who meets it; three allow evidence to be replaced; two
commits of one worker are one that is reported and one above it. In
`store`, three keys tell the contract, the spare and the one being written apart,
and a fault may hit the repair of the repair of a first.

**Fairness.** `ends`: parent and children are weakly fair; the parent blocks on
nothing but its child, and every wait of the child has an end: the configured
timeout, or the 24 hours of `_WAIT_SAFETY_CAP_SEC` (483, 10695). `lanes`: the
main thread and the pool's threads are weakly fair, and a dispatch has a timeout.
`dispatch`: the loop and the calls are weakly fair, and so is the time limit of an agent
where the command has one; no agent is. With `dispatch_timeout` 0, the default, an agent
is waited for without end (3538), and after SIGTERM any is (3548). So `EveryRunEnds`
says that the run ends or waits for an agent for ever: nothing else keeps it, no
loop of retries, second calls or sessions. What `ends` and `lanes` show of a child
whose agents are dispatched stands on the same two things: a `dispatch_timeout` above 0
and agents that obey SIGTERM. Nothing is assumed of answers that are correct,
operators, faults, of an orphan's death, or of the outcomes listed under `KidTrouble`.

**What the passing runs leave out on purpose.**

- `SuccessIsFinal` and `FollowsProtocol` are checked with host crashes only.
  With a child that dies, or an interrupt, after its approval is on disk, the
  parent writes a failure over the approval (14190, 14340); with an orphan the
  next parent's contract can be overwritten. `SuccessIsFinal` excepts
  `blocked_dependencies`, which a later command writes over a finished run (12616).
- `FilesAgree` is checked with faults of the children and interrupts only. A host
  crash between two files leaves a summary that tells another outcome, and if the
  next command is refused, nothing writes it again; an orphan marks the card
  `in_progress` that the next parent has closed. A card that `--reset` has removed
  says nothing.
- `ApprovedHeadWasReviewed` needs that no round is taken up again, hence no crash of
  the host and no orphan; see the findings.
- `NothingSpawnedLate` excepts a deadline that stale cleanup has wiped from
  `state.json`: the parent still knows it, the children do not (13922–13946).
- `MergedIsWhole` excepts lanes recorded as skipped. Under `skip_lane` the commits
  picked before the conflict stay on the head (8948), and if it was the last lane
  the head check fails the round.
- `NoTreeIsLeft` excepts `lane_preserve_worktrees_on_failure`, which keeps the
  trees of a success too.
- `SpawnsAreBounded` is about each of the two calls of a dispatch; that the bound the
  README states for both together fails is `v_attempts`.
- `RunLockInPlace` is about loop directories that one working tree uses
  (`OneTreePerDir`); see below for two.
- `OuterCommitIsOwned` excepts the old name of a staged rename, which the code does not
  look at, and tracked files under `.loop/`, which it passes over (7904) and commits.
- `PatchStaysInScope` excepts what the gate cannot see: commits on top of the
  one that is reported, and paths that a later commit renamed away. It allows a whole
  untracked directory when the card names it with a slash at its end, which nothing
  refuses (9590).

### Findings

- `v_stale_review`: a resumed round has the same task, run and round, so a late
  answer to the review request from before the crash is taken as the answer to
  the new one. `head_sha` then names a commit no reviewer was asked about.
- `v_second_round`: a card with lanes cannot have a second round. The merge of the
  first moves HEAD, and the merge of the second demands the run's base (8871).
- `v_lanes`: `_save_state` compares `lane_state`, but the lanes are stored under
  `lanes`; a save that changes only them is skipped (7616).
- `v_attempts`: `src/README.md:237` says attempts are "always bounded to
  `--dispatch-retries + 1`"; the second call after a timeout (4420) counts anew.

Met while modelling, and modelled as the code has them, with no run of their own:

- `awaiting_review` is not resumed from the reviewer, as `src/CHANGELOG.md:121` and
  the log line at 13939 say; `prepare_round` sends it back to the worker (14034).
- "Re-run without --resume to start a fresh run" (14639) does not work after a
  finished run: the summary it left makes the new run's child fail (12669).
- `--outcome-file` is written on few of the exits (14323), against
  `src/docs/integration-spec.md:198`.
- Evidence for a no-change success exists only after a rejection: a card approved in
  round 1 leaves no work report in the archive, and no state or round detail with
  an accepted outcome, so that the idempotent confirmation `src/CHANGELOG.md:38`
  describes is refused, while a report of a rejected earlier run is taken.
  `_noop_evidence_from_round_details` counts entries without a run id, which its
  docstring excludes.
- Preserved worktrees are removed when the next command prunes, as only top-level
  directories are compared with git's list (8326) and lane trees lie three levels
  deeper, against `src/tests/test_orchestrator.py:16234`.
- An untracked directory is listed as one entry, so a file in a new directory is
  never committed by the outer commit. Of a staged rename only the target is read
  (9112), so that one of an unowned file to an owned one is no overreach, and its
  source is committed as gone, against the docstring at 7940.
- The patch gate compares up to the commit the worker reports (8150), so that a worker
  that makes two commits and reports the first has the second reviewed unchecked,
  against the prompt (6613).
- Two commands in two trees that share an absolute `--loop-dir` have the run lock only.
  The cleanup of the second (1537–1550) may unlink the file that the first has locked
  since the probe, and both run.
- An anchor need only be touched; edits beyond it pass (8192–8261), as does a plan
  file without anchors when another file has some, against the prompt (6610).

## Theorems

All are for every value of the constants that satisfies the named assumptions; of
these, `TaskGraph` takes ids and cards to be finitely many (`FiniteAssumption`).

- `TypeCorrect`, `RoundStaysTheChilds` (`RunLoop_proofs`): `TypeOK` and
  `RoundIsTheChilds`, for any faults.
  `TypeOK` alone is not inductive: `Retried` adds 1 to the round, and stays
  within `Rounds` only because a child's round is within `MaxRounds` and its
  contract is on that round. The invariant adds both, and what `AwaitingNext`
  and the resumption know of the round they go on from.
- `ExitZeroTrue`, `AuditTrailWhole`, `FixListReady`, `RoundsOnlyAdvance`,
  `SuccessFinal`, `ProtocolFollowed` (`RunLoopSerial_proofs`), all from one invariant,
  `SerialInv`, that holds if no parent is killed alone (`"parent" \notin Faults`).
  Then one process at a time holds the contract (`Alone`): a child is there only
  while its parent waits. Every contract in `state.json` is blank, in
  progress with the rounds before it recorded as sent back, or done with an outcome
  and, if approved, a whole trail (`Sound`). `Held` and `Stages` say what parent and
  child know of the file at each point of the code: a child that has read it has
  it in memory as it is (`Copied`), a parent has the contract it began the round with.
  So each save goes over the contract it was made from, and a step of the
  program is a step of `RoundProtocol` (`Lawful`), unless a parent overrules a child.
  It may when a child died or an interrupt came. So the first three theorems need
  no more; `RoundsOnlyAdvance` needs that no child dies (the parent's failure, over a
  round already sent back, would take the round back); `SuccessFinal` and the
  refinement hold with crashes of the host only. Each hypothesis is needed: with one
  fault of the kind it excludes, TLC finds each of these properties violated.
- `FilesAlwaysAgree` (same module): with neither the host nor a parent going down
  alone. `FileInv` adds what the processes have told the other files: no summary is
  of the run in progress (`SummaryLate`); a child that ended a run well has written
  it (`Reported`); a parent about to write one has in memory what `state.json`
  says (`Telling`).
- `ApprovalEarned`, `ApprovalBacked` (`RunLoopApproval_proofs`): no approval
  without a reviewer's. `ApprovalIsEarned` speaks of `state.json` only and is
  not inductive: an approval reaches the file from a child's memory, from the
  parent's memory after a failure, or from a review report. `ApprovalIsBacked`
  follows it through all of these, and is inductive together with the type
  invariant. The step that matters is `AcceptApproval`: the report matches the
  child's task, run and round, and it was written by a reviewer with that
  identity. The theorems hold for orphans and all faults, and for stale files.
- `ApprovedHeadReviewed` (same module): with neither the host nor a parent going
  down alone. Task, run and round do not tell a review request from one made for an
  earlier attempt of the round, so it has to be shown that there is no other
  attempt: when no child is at work the round in progress waits for its worker
  (`WorkersTurn`), and every request and every approving report that could
  concern it is about the commit in `state.json` (`RequestsCurrent`, `ReportCurrent`).
- `TreeIsExclusive`, `CleanupSparesLocks`, `LocksAreReleased`, `LocksTypeCorrect`
  (`LoopLocks_proofs`): mutual exclusion. A repo lock file is never unlinked, so all
  handles on it meet in one inode (`RepoHandle`), and an inode's flock has one holder.
  The run lock alone would not exclude: its file is unlinked by `--reset`, and by a
  starter that believes its pid dead. `CleanupSparesLocks` says that the latter
  never happens to a lock in use, since whoever unlinks the name holds the repo lock of
  the tree. It is an implication, `OneTreePerDir => RunLockInPlace`: no other theorem
  takes it that a loop directory is used from one tree only.
- `StoreInvariant`, `StoreImplementsRegister` (`StateStore_proofs`): a step
  simulation. The invariant says what the program counter knows of the files:
  from `compare` on the backup is what `state.json` holds, the temporary file is
  the contract to be written when it is renamed, and a repair never meets a
  torn backup. With it every action maps to one abstract step or to a stutter.
- `TypeCorrect`, `DependenciesFirst`, `OrderDetermined`, `FreshTrees`, `WholeRounds`,
  `NothingLeft`, `MergeWhole`, `ResetsOnlyOwn` (`Lanes_proofs`), for any lanes, cards,
  threads, commits, rounds and faults, from one invariant `IInv`:
  - main thread and pool agree on each lane (`Planned`), the lanes in the order are
    the completed ones, and a blocked lane has a failed one (`Ordered`); so no
    lane is left when none has failed (`Gated`);
  - the stages begun number the lanes that are through with them, one after the
    last of their dependencies (`Staged`): the lanes that come next depend on one of
    the last stage, and the lanes awaited come after all in the order;
  - the trees are this attempt's as far as they have been made (`TreesMade`), and
    no other round has any, or one that the next start prunes (`Swept`);
  - what two lanes share of their commits they share with its whole history
    (`Chained`); an original commit on the head has its history there (`WithHistory`), so
    that skipping what is an ancestor loses nothing;
  - of the merge: a lane behind its pass is settled, deferred or lost, and the
    current one is on the head up to the commit in turn (`Merges`);
  - in the first pass either all of the head is this attempt's replays, or
    there is nothing to replay (`Resettable`): the head check is what makes the reset
    to the base harmless.
- `GateExact` (`Gates_proofs`): the gate is open exactly when everything behind the
  card is there once, can be loaded and is not behind itself, and all the card names is
  done. `Behind` says what is behind a card as the least closed set, the code by two
  searches with bounded loops, so it takes that these end and that they miss nothing:
  - the snapshot (`SnapshotInv`): what it knows is behind the card and recorded as the
    cards say; what has left the queue names only what is known; no id enters the queue
    twice, so as many steps as there are ids empty it, and then what it knows is closed
    under naming, hence all that is behind the card (`SnapshotIsWhole`). It is given up
    only for a card that is not clear (`PopIsTrue`);
  - the search for a cycle (`SearchInv`): the stack is a path of the graph without
    repetition, and what the search is through with names only such nodes and lies on
    no cycle. So a dependency on the stack closes a cycle, and a node whose
    dependencies are all behind it may leave. Every step visits a node or leaves one
    (`Paces`), so twice as many steps as there are ids are enough (`SearchFindsCycles`);
  - the lanes of a card that loads: the first stage a lane is in is its turn
    (`StagesAreAnOrder`), and paths that do not overlap are not one below the other
    (`LanesStayApart`).

  That these recursive functions over `0..n` have values is proved from induction over
  a set of numbers (`AllUpTo`, `RunExists`), which needs no operator as a parameter.
- `StartsInOrder`, `NoChangeBacked`, `OuterCommitOwned`, `PatchInScope`
  (same module). The first: an open gate means that every direct dependency is done
  (`GateIsExact`); what was done once had its own dependencies done before, and the
  set of such ids is closed under naming, hence holds all that is behind. The second
  rests on `ReportsAreClaims` and `WorkIsClaimed`: an archived report that claims
  changes is of a command whose worker claimed them, and one of this command is no
  evidence. The third: what is committed is staged; what is staged is either
  added now, hence measured, declared and owned, or a left-over of a tracked path,
  hence overreach unless it is owned or the loop's. Of a rename this is the new
  name. Listed directories end in a slash and declared forms never do
  (`DeclaredIsBare`, `ListedIsBare`). The last is for any reported commit: a path of a
  commit up to it is in the diff unless it was renamed away since, and every dirty path
  is listed as itself, as a directory or as a rename, which the card then names as such.
- `DispatchTypeCorrect`, `SpawnsBounded`, `SessionsAreTheRoles`, `RotationStrict`,
  `StartOver`, `SpawnedInTime` (`Dispatch_proofs`), for any number of retries, rounds,
  commands, backends, ticks and faults; `SpawnsBounded` bounds each call by itself. One
  invariant has five parts besides the
  types: a dispatch runs only while the parent waits (`Waiting`); the attempts of the two
  calls add up (`Counts`); a session in `state.json` is of its role, of the backend
  and the round filed with it and of this run, and in a round that found the head
  moved it is of that round (`Entries`); a dispatch has in hand the session that is
  filed, or one it made (`InHand`); the file's deadline is the parent's, or none
  (`Budget`). `Entries` and `InHand` need each other: `store_session` keeps
  the old round only for an id it compares with the filed one.

Only model-checked: liveness (`EveryCommandEnds`, `ApprovalIsReported`,
`EveryRoundEnds`, `EveryRunEnds`), which is beyond the prover.

Every other property of the passing runs is stated by a theorem, some of them
under the hypotheses on `Faults` given above, which are those of the runs or weaker.
`crash` and `child` show the properties for the faults they allow, the theorems
for those and for every number of rounds, tasks, commands, commits and child slots.

## Not modelled

- `loop run --single-round` given by hand, and with it `state_contract_missing`;
  an interrupt before the loop is entered; review requests and retention;
  Windows locking; `untracked_baseline`; names that match `<id>-*` of two ids beyond
  the pattern's ambiguity, which `names` has.
- Two processes at the state store: an orphaned child beside the next parent's
  (`RunLoop` has it, with atomic saves), and `status`, which takes no lock and
  writes when it meets a contract that is damaged or vanishes (7558–7586), through
  the same temporary file (5740).
- In `Lanes`: the text of the merged report, metrics, heartbeats, and acceptance
  checks a card brings, which can fail a round but change nothing else.
- Heartbeat, event feed, logs, the knowledge store, prompts and reports: output
  that no decision of the loop reads. A failure of the knowledge lock inside the
  approval handler (12518) is `ChildDies` in `RunLoop`.
- Parsing of the agents' streams, backoff times and the in-process backend.
- `src/adapters`, `src/coupling` and `src/scripts`: not part of the orchestrator.

## Plan

1. Done: all modules and runs above.
2. Done: a theorem for every safety property and both refinements.
3. The state store with two writers, composed with the orphan of `RunLoop`.
