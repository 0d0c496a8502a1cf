------------------------------- MODULE Gates -------------------------------
(***************************************************************************)
(* A repository with several task cards, and the gates between a card and  *)
(* `done`: the working tree must be clean and the dependencies done before *)
(* a run starts; a worker that could not commit has its files committed by *)
(* the orchestrator, if they are what it declared and what the card owns;  *)
(* a report of no change needs evidence; the patch of a plan must stay in  *)
(* scope; and what is left is for the reviewer.                            *)
(*                                                                         *)
(* Each command is one `loop run --reset` that nothing interrupts, for any *)
(* card; what a crash, --resume or the files of an earlier run do to the   *)
(* rounds is RunLoop's matter.  .loop/archive survives a reset.  The       *)
(* parent and the child check the dependencies one after the other, with   *)
(* nothing between: one step here.                                         *)
(***************************************************************************)
EXTENDS WorkTree

CONSTANTS
    MaxRounds,      \* bound: config.max_rounds in any world
    MaxRuns,        \* bound: commands in any world
    Worlds,         \* [cards, works, dirtyOk, asError, gating, rounds, runs]
    None

ASSUME BoundsAssumption == MaxRounds \in Nat /\ MaxRuns \in Nat
ASSUME NoneAssumption == None \notin File

Segment == STRING \cup {Slash}
Path == Seq(Segment)
Lanes == [id : STRING, owners : SUBSET Path, deps : SUBSET STRING]
Dirty == [path : Path, from : Path, kind : {"changed", "staged", "new"}, at : SUBSET STRING]

ASSUME WorldsAssumption ==
    \A w \in Worlds :
        /\ w.rounds \in 1..MaxRounds /\ w.runs \in 0..MaxRuns
        /\ \A v \in w.works : v.leaves \subseteq Dirty /\ v.declared \subseteq Path
        /\ \A f \in File :
            /\ w.cards[f].id \in Id /\ w.cards[f].deps \subseteq Id
            /\ w.cards[f].lanes \in Seq(Lanes)

VARIABLES
    world,      \* cards, workers and configuration; fixed
    status,     \* the status in each card
    at, pc,     \* the card of this command, and how far it is
    run, round,
    dirt, log,  \* the working tree, and the commits HEAD has on top of the run's base
    work, head, \* the worker's report, and the commit of `log` it names (None: another)
    archive,    \* the archived work report of each task and round
    everDone,   \* history: the cards that were done once
    claimed,    \* history: the runs whose worker claimed changed files, by task
    passed,     \* history: the no-change success of this command
    made        \* history: the outer commit of this command

vars == <<world, status, at, pc, run, round, dirt, log, work, head, archive, everDone,
          claimed, passed, made>>

Cards == world.cards
Card == Cards[at]

Archived == [run : 1..MaxRuns, changed : BOOLEAN]

TypeOK ==
    /\ world \in Worlds
    /\ status \in [File -> Statuses]
    /\ at \in File \cup {None} /\ (pc # "idle" => at \in File)
    /\ pc \in {"idle", "work", "judge", "noop", "patch", "review"}
    /\ run \in 0..MaxRuns /\ round \in 0..MaxRounds
    /\ dirt \subseteq Dirty
    /\ pc \notin {"idle", "work"} => work \in world.works
    /\ archive \in [Id -> [1..MaxRounds -> Archived \cup {None}]]
    /\ everDone \subseteq File /\ claimed \in [Id -> SUBSET (1..MaxRuns)]

Init ==
    /\ world \in Worlds
    /\ status = [f \in File |-> "todo"]
    /\ at = None /\ pc = "idle" /\ run = 0 /\ round = 0
    /\ dirt = {} /\ log = <<>> /\ work = None /\ head = 0
    /\ archive = [t \in Id |-> [r \in 1..MaxRounds |-> None]]
    /\ everDone = {} /\ claimed = [t \in Id |-> {}] /\ passed = None /\ made = None

-----------------------------------------------------------------------------
(* The start of a command.                                                 *)

\* _enforce_clean_worktree_or_exit
TreeIsClean == world.dirtyOk \/ Tracked(dirt) = {}

\* A card that cannot be loaded fails the command and is not written to.
MayStart(f) ==
    /\ pc = "idle" /\ run < world.runs
    /\ TreeIsClean
    /\ Loads(Cards[f])

Start(f) ==
    /\ MayStart(f)
    /\ DependencyGate(Cards, status, f) = "open"
    /\ status' = [status EXCEPT ![f] = "in_progress"]
    /\ at' = f /\ pc' = "work" /\ run' = run + 1 /\ round' = 1
    /\ log' = <<>> /\ head' = 0 /\ work' = None /\ passed' = None /\ made' = None
    /\ UNCHANGED <<world, dirt, archive, everDone, claimed>>

Refuse(f) ==
    /\ MayStart(f)
    /\ DependencyGate(Cards, status, f) # "open"
    /\ status' = [status EXCEPT ![f] = "blocked"]
    /\ run' = run + 1
    /\ UNCHANGED <<world, at, pc, round, dirt, log, work, head, archive, everDone, claimed,
                   passed, made>>

-----------------------------------------------------------------------------
(* The worker: w.commits are its commits, w.leaves is what it leaves       *)
(* uncommitted.  A commit [touches, gone] maps the paths that git names to *)
(* the places touched in them; `gone` are the paths it renamed to others,  *)
(* which git does not name.  Its first commit takes what was staged.       *)

Committed(ds) == [p \in {d.path : d \in ds} |-> UNION {d.at : d \in {e \in ds : e.path = p}}]
Commit(ds) == [touches |-> Committed(ds), gone |-> {d.from : d \in {e \in ds : IsRename(e)}}]

Merged(f, g) ==
    [p \in DOMAIN f \cup DOMAIN g |-> (IF p \in DOMAIN f THEN f[p] ELSE {})
                                        \cup (IF p \in DOMAIN g THEN g[p] ELSE {})]
Joined(c, e) == [touches |-> Merged(c.touches, e.touches), gone |-> c.gone \cup e.gone]

Taken(w) == IF w.commits = <<>> THEN {} ELSE {d \in dirt : d.kind = "staged"}
Touched(w) == UNION {DOMAIN w.commits[i].touches : i \in DOMAIN w.commits}

AgentWrites(w) ==
    /\ log' = log \o (IF w.commits = <<>> THEN <<>>
                      ELSE [w.commits EXCEPT ![1] = Joined(@, Commit(Taken(w)))])
    /\ dirt' = {d \in dirt \ Taken(w) : d.path \notin Touched(w)} \cup w.leaves

\* Any commit may be reported that can be resolved: the base, the last of HEAD, one
\* between them, or one that HEAD does not hold, as w.aside.
Reports(w, n) ==
    CASE w.says = "base"   -> {0}
      [] w.says = "tip"    -> {n}
      [] w.says = "any"    -> 0..n
      [] w.says = "aside"  -> {None}

Work(w) ==
    /\ pc = "work"
    /\ AgentWrites(w)
    /\ work' = w /\ head' \in Reports(w, Len(log')) /\ pc' = "judge"
    /\ claimed' = IF w.declared = {} THEN claimed
                  ELSE [claimed EXCEPT ![Card.id] = @ \cup {run}]
    /\ UNCHANGED <<world, status, at, run, round, archive, everDone, passed, made>>

Close(f, s) ==
    /\ status' = [status EXCEPT ![f] = s]
    /\ everDone' = IF s = "done" THEN everDone \cup {f} ELSE everDone
    /\ at' = None /\ pc' = "idle" /\ round' = 0
    /\ UNCHANGED <<world, run>>

\* No report: a timeout or a failed dispatch.
WorkerFails(w) ==
    /\ pc = "work"
    /\ AgentWrites(w)
    /\ Close(at, "blocked")
    /\ UNCHANGED <<work, head, archive, claimed, passed, made>>

-----------------------------------------------------------------------------
(* The outer commit.                                                       *)

HeadIsBase == head = 0

Owned == Whitelist(Card)

OuterCommits ==
    /\ pc = "judge" /\ HeadIsBase
    /\ CommitsForWorker(dirt, Owned, work.declared)

CommitAll ==
    /\ made' = [entries |-> OuterCommit(dirt, Owned), card |-> at, declared |-> work.declared]
    /\ log' = Append(log, Commit(OuterCommit(dirt, Owned)))
    /\ dirt' = LeftBehind(dirt, Owned)

\* The report is rewritten with the new head.
CommitForWorker ==
    /\ OuterCommits
    /\ CommitAll
    /\ head' = Len(log') /\ pc' = "patch"
    /\ UNCHANGED <<world, status, at, run, round, work, archive, everDone, claimed, passed>>

\* `git add` fails, or `git commit`, and what was added stays staged; or the commit
\* is made and a time limit or `rev-parse` fails after it.
CommitFails ==
    /\ OuterCommits
    /\ CommitAll \/ (dirt' \in {dirt, Staged(dirt, Owned)} /\ UNCHANGED <<log, made>>)
    /\ pc' = "noop"
    /\ UNCHANGED <<world, status, at, run, round, work, head, archive, everDone, claimed, passed>>

-----------------------------------------------------------------------------
(* No change.                                                              *)

\* Mutant of CrossRun: any archived report is evidence.
AnyRun(report) == TRUE

\* The report of a round of this run proves nothing.
CrossRun(report) == report.run # run

\* _archive_rounds_for_task, _load_archived_round_artifact
Loaded(t) == {archive[t][r] : r \in 1..MaxRounds} \ {None}

\* _noop_evidence_from_archive.  An archived state is what state.json was while
\* its round was open, and no state with an outcome or an approval is archived.
HistoryBacks ==
    /\ world.asError /\ world.gating
    /\ \E report \in Loaded(Card.id) : CrossRun(report) /\ report.changed

\* _resolve_external_output_evidence, _resolve_work_tests_evidence
WorkBacks == work.outside \/ (Card.doc /\ work.tests)

NothingCommitted == pc = "noop" \/ (pc = "judge" /\ HeadIsBase /\ ~OuterCommits)

NoChangeSuccess ==
    /\ NothingCommitted
    /\ ~world.asError \/ WorkBacks \/ HistoryBacks
    /\ passed' = [task |-> Card.id, run |-> run, proved |-> WorkBacks]
    /\ Close(at, "done")
    /\ UNCHANGED <<dirt, log, work, head, archive, claimed, made>>

NoChangeFailure ==
    /\ NothingCommitted
    /\ world.asError /\ ~WorkBacks /\ ~HistoryBacks
    /\ Close(at, "blocked")
    /\ UNCHANGED <<dirt, log, work, head, archive, claimed, passed, made>>

-----------------------------------------------------------------------------
(* A change: the gate of a plan patch, and the reviewer.                   *)

Changed == pc = "patch" \/ (pc = "judge" /\ ~HeadIsBase)

\* `git diff` of two commits does not name what was renamed away between them.
Names(i, n) == DOMAIN log[i].touches \ UNION {log[j].gone : j \in i + 1..n}
Between(n) ==
    [p \in UNION {Names(i, n) : i \in 1..n} |->
        UNION {log[i].touches[p] : i \in {k \in 1..n : p \in Names(k, n)}}]

\* From the run's base to the commit that the worker named.
Diff == IF head = None THEN work.aside ELSE Between(head)

PatchHolds == Card.patch # None => PatchIsInScope(Card.patch, Diff, dirt)

ToReview ==
    /\ Changed /\ PatchHolds
    /\ pc' = "review"
    /\ UNCHANGED <<world, status, at, run, round, dirt, log, work, head, archive, everDone,
                   claimed, passed, made>>

\* The child exits with a code of its own and the command fails.
PatchViolation ==
    /\ Changed /\ ~PatchHolds
    /\ Close(at, "blocked")
    /\ UNCHANGED <<dirt, log, work, head, archive, claimed, passed, made>>

Approve ==
    /\ pc = "review"
    /\ Close(at, "done")
    /\ UNCHANGED <<dirt, log, work, head, archive, claimed, passed, made>>

\* _prepare_bus_file puts the report into the archive, over that of an earlier run.
Rejected ==
    archive' = [archive EXCEPT ![Card.id][round] = [run |-> run, changed |-> work.declared # {}]]

RoundsLeft == round < world.rounds

ChangesRequired ==
    /\ pc = "review" /\ RoundsLeft
    /\ Rejected
    /\ round' = round + 1 /\ pc' = "work"
    /\ UNCHANGED <<world, status, at, run, dirt, log, work, head, everDone, claimed, passed,
                   made>>

Exhausted ==
    /\ pc = "review" /\ ~RoundsLeft
    /\ Rejected
    /\ Close(at, "blocked")
    /\ UNCHANGED <<dirt, log, work, head, claimed, passed, made>>

-----------------------------------------------------------------------------

Next ==
    \/ \E f \in File : Start(f) \/ Refuse(f)
    \/ \E w \in world.works : Work(w) \/ WorkerFails(w)
    \/ CommitForWorker \/ CommitFails
    \/ NoChangeSuccess \/ NoChangeFailure
    \/ ToReview \/ PatchViolation
    \/ Approve \/ ChangesRequired \/ Exhausted

Spec == Init /\ [][Next]_vars

-----------------------------------------------------------------------------
(* Properties.                                                             *)

(* What a card's dependencies come to, said without an order of search.    *)

Deps(f, t) ==
    IF t = Cards[f].id THEN Cards[f].deps
    ELSE IF Cardinality(Found(Cards, t)) = 1 THEN UNION {Cards[g].deps : g \in Found(Cards, t)}
    ELSE {}

\* The least set that holds what t names and is closed under naming.
Behind(f, t) ==
    {u \in Id : \A S \in SUBSET Id :
        Deps(f, t) \subseteq S /\ (\A v \in S : Deps(f, v) \subseteq S) => u \in S}

BehindCard(f) == Behind(f, Cards[f].id)

IsClear(t) == Cardinality(Found(Cards, t)) <= 1
              /\ \A g \in Found(Cards, t) : Loads(Cards[g]) /\ Cards[g].id = t

MayRun(f) ==
    /\ \A t \in BehindCard(f) : t # Cards[f].id /\ IsClear(t) /\ t \notin Behind(f, t)
    /\ \A t \in Cards[f].deps : \E g \in Found(Cards, t) : status[g] = "done"

\* No file could belong to two lanes, and some order of the lanes respects their
\* dependencies.
LanesAreSeparate(lanes) ==
    \A i, j \in DOMAIN lanes : i # j =>
        ~\E p \in Owners(lanes[i]), q \in Owners(lanes[j]) : IsPrefix(p, q)
LanesHaveOrder(lanes) ==
    \E turn \in [DOMAIN lanes -> DOMAIN lanes] : \A i \in DOMAIN lanes :
        \A t \in lanes[i].deps : \E j \in DOMAIN lanes : lanes[j].id = t /\ turn[j] < turn[i]

\* The search for a card's dependencies, its cycle detection and the check of
\* statuses together open a card exactly when everything behind it can be found
\* once, nothing behind it depends on itself and all it names is done; and the
\* lanes of a card that loads can be run in some order and never share a file.
\* (_build_task_dependency_snapshot, _detect_graph_cycle, _normalize_task_lanes)
GateAgrees ==
    \A f \in File : Loads(Cards[f]) =>
        /\ DependencyGate(Cards, status, f) = "open" <=> MayRun(f)
        /\ LanesAreSeparate(Cards[f].lanes) /\ LanesHaveOrder(Cards[f].lanes)

\* The gate looks only at the dependencies a card names, and a status may change
\* again; still, whatever runs or was done has everything behind it done before.
\* (_enforce_dependencies_or_fail, _dependency_blocked_reasons)
StartedInOrder ==
    \A f \in everDone \cup ({at} \cap File) :
        \A t \in BehindCard(f) : \E g \in Found(Cards, t) : g \in everDone

\* Where no change is an error, it succeeds on proof of this round or on what a
\* worker of an earlier command for this task claimed, never on what this run's
\* own rejected rounds left in the archive.  (_single_round_handle_worker_noop)
NoChangeIsBacked ==
    passed # None /\ world.asError =>
        passed.proved \/ \E r \in claimed[passed.task] : r < passed.run

\* The orchestrator commits in the worker's name only what this worker declared
\* and this card owns, and files of the loop, whatever an earlier card or a failed
\* commit left staged in the index.  Excepted is where a staged rename took a file
\* from: the code looks at the new name alone, and commits that the old one is gone,
\* whoever owns it.  (_try_outer_commit_fallback, _worktree_dirty_split)
OuterCommitIsOwned ==
    made # None => \A e \in made.entries :
        \/ InBus(e.path)
        \/ /\ In(e.path, Whitelist(Cards[made.card]))
           /\ e.path \in {DeclaredForm(q) : q \in made.declared}

\* A directory that git does not know is allowed with a slash at its end.
DirectoryIsAllowed(d, files) ==
    d.kind = "new" /\ \E n \in 1..Len(d.path) - 1 : Append(SubSeq(d.path, 1, n), Slash) \in files

\* When the patch of a plan reaches the reviewer, what was committed since the run
\* began, in this round or an earlier one, up to the commit the worker reports, and
\* what lies about in the working tree is in the card's files.  The code sees no more:
\* excepted are commits on top of the reported one, or all where HEAD does not hold it;
\* paths renamed to others by a later commit; a whole untracked directory that the card
\* allows; and a rename the card allows word for word.  (_verify_plan_patch_scope)
PatchStaysInScope ==
    pc = "review" /\ Card.patch # None =>
        LET files == Card.patch.files
        IN  /\ head # None => \A i \in 1..head : \A p \in DOMAIN log[i].touches :
                   p \in files \/ \E j \in i + 1..head : p \in log[j].gone
            /\ \A d \in dirt : IF IsRename(d) THEN Line(d) \in files
                              ELSE d.path \in files \/ DirectoryIsAllowed(d, files)
=============================================================================
