------------------------------ MODULE WorkTree ------------------------------
(***************************************************************************)
(* A working tree as `git status --porcelain` shows it, and the two gates  *)
(* that read it: the outer commit, which commits for a worker that could   *)
(* not, and the plan-patch gate, which compares what changed with what the *)
(* card allows.                                                            *)
(*                                                                         *)
(* A dirty path is [path, kind, from]: "changed" since the last commit,    *)
(* "staged" for the next one, or "new" and untracked; `from` is where a    *)
(* staged rename took the file from, and <<>> where there is no rename.    *)
(***************************************************************************)
EXTENDS TaskGraph

CONSTANT Known      \* the directories that hold tracked files

-----------------------------------------------------------------------------
(* Porcelain.                                                              *)

IsRename(d) == d.from # <<>>

\* An untracked directory is listed once, with a slash at its end and without
\* what is in it.
UnknownDirs(p) == {d \in {SubSeq(p, 1, n) : n \in 1..Len(p) - 1} : d \notin Known}
Topmost(dirs) == CHOOSE d \in dirs : \A e \in dirs : Len(d) <= Len(e)

\* The path of a line; of a rename the new one.  (_parse_porcelain_path)
Listed(d) == IF d.kind = "new" /\ UnknownDirs(d.path) # {}
             THEN Append(Topmost(UnknownDirs(d.path)), Slash)
             ELSE d.path

\* Files of the loop itself are passed over, tracked or not.
InBus(p) == Len(p) > 1 /\ Head(p) = ".loop"
Seen(dirt) == {d \in dirt : ~InBus(Listed(d))}

\* _dirty_tracked_paths
Tracked(dirt) == {d \in Seen(dirt) : d.kind # "new"}

-----------------------------------------------------------------------------
(* The outer commit.                                                       *)

\* _normalize_declared_path: one leading "./" and the slashes at the end go.
DeclaredForm(p) ==
    LET cut == SelectLastInSeq(p, LAMBDA s : s # Slash)
        q   == SubSeq(p, 1, cut)
    IN  IF Len(q) > 1 /\ Head(q) = "." THEN Tail(q) ELSE q

IsLiteral(p) == \A i \in DOMAIN p : p[i] \notin Globs

\* _serial_outer_commit_whitelist: what the lanes own, or the literal scope.
Whitelist(c) ==
    {DeclaredForm(p) : p \in IF c.lanes # <<>>
                             THEN UNION {Owners(c.lanes[i]) : i \in DOMAIN c.lanes}
                             ELSE {q \in c.scope : IsLiteral(q)}}

In(p, wl) == \E w \in wl : Overlap(p, w)

\* _worktree_dirty_split
DirtyIn(dirt, wl) == {d \in Seen(dirt) : In(Listed(d), wl)}
DirtyOut(dirt, wl) == {d \in Tracked(dirt) : ~In(Listed(d), wl)}

\* Mutant of NoOverreach: what is only staged is no overreach.
NoChangedOverreach(dirt, wl) == \A d \in DirtyOut(dirt, wl) : d.kind = "staged"

NoOverreach(dirt, wl) == DirtyOut(dirt, wl) = {}

\* _try_outer_commit_fallback: the conditions that must all hold.
CommitsForWorker(dirt, wl, declared) ==
    LET fc == {DeclaredForm(p) : p \in declared}
    IN  /\ wl # {} /\ fc # {}
        /\ \A p \in fc : In(p, wl)
        /\ DirtyIn(dirt, wl) # {}
        /\ {Listed(d) : d \in DirtyIn(dirt, wl)} \subseteq fc
        /\ NoOverreach(dirt, wl)

\* `git add` of the measured paths, then `git commit` of all that is staged.
Staged(dirt, wl) ==
    {IF d \in DirtyIn(dirt, wl) THEN [d EXCEPT !.kind = "staged"] ELSE d : d \in dirt}
OuterCommit(dirt, wl) == {d \in Staged(dirt, wl) : d.kind = "staged"}
LeftBehind(dirt, wl) == Staged(dirt, wl) \ OuterCommit(dirt, wl)

-----------------------------------------------------------------------------
(* The plan patch: [files, anchors]; an anchor is [file, at].  `diff` maps *)
(* each path that `git diff` names to the places that were touched in it.  *)

IsPlan(p) == Last(p) \in {"plan.md"}

\* Mutant of PatchedFiles: only what was committed.
CommittedFiles(diff, dirt) == DOMAIN diff

\* This gate takes a line as it is: "old -> new" is the name of one file, that a card
\* would have to allow word for word.
Line(d) == IF IsRename(d) THEN d.from \o <<"->">> \o d.path ELSE Listed(d)

PatchedFiles(diff, dirt) == DOMAIN diff \cup {Line(d) : d \in dirt}

\* An anchor of a changed file must be touched by one of its hunks.
AnchorIsTouched(a, diff, dirt) ==
    a.file \in PatchedFiles(diff, dirt) => a.file \in DOMAIN diff /\ a.at \in diff[a.file]

\* _verify_plan_patch_scope.  A new file is a changed file, so that forbidding
\* new ones forbids nothing more.
PatchIsInScope(spec, diff, dirt) ==
    /\ PatchedFiles(diff, dirt) \subseteq spec.files
    /\ \A a \in spec.anchors : AnchorIsTouched(a, diff, dirt)
    /\ spec.anchors = {} => \A p \in PatchedFiles(diff, dirt) : ~IsPlan(p)
=============================================================================
