------------------------- MODULE LoopLocks_proofs -------------------------
(***************************************************************************)
(* Mutual exclusion of loops, for any number of processes, working trees,  *)
(* loop directories and lock files.                                        *)
(*                                                                         *)
(* The argument.  A repo lock file is never unlinked, so every handle on   *)
(* it leads to the inode its name leads to (RepoHandle), and a flock on an *)
(* inode has one holder: OneLoopPerTree.  Who unlinks a run lock's name    *)
(* holds the repo lock of its tree.  If every loop directory is used from  *)
(* one tree (OneTreePerDir) no other process in that directory does, and   *)
(* the file unlinked is nobody's: RunLockInPlace.  That hypothesis is made *)
(* there only; the other theorems are also about trees that share one.     *)
(***************************************************************************)
EXTENDS LoopLocks, TLAPS

(* Where a process has the repo lock file, and the run lock file, open.    *)
RepoOpen == {"repo_record", "repo_flock"} \cup RepoLocked

RunOpen == {"run_record", "run_flock"} \cup RunLocked

(* A process that is not dead was given a place, and has its files open    *)
(* exactly where cmd_run has them open.                                    *)
Handles ==
    \A p \in Pids :
        /\ pc[p] # "dead" => place[p] \in Places
        /\ repoFd[p] # None <=> pc[p] \in RepoOpen
        /\ runFd[p] # None <=> pc[p] \in RunOpen
        /\ pc[p] = "clean_probe" => seen[p] # None
        /\ pc[p] = "resetting" => reset[p]

(* A lock file has one name.                                               *)
OneName ==
    \A m, n \in Names : link[m] = link[n] /\ link[m] # None => m = n

(* A handle on a repo lock is on the file its name leads to.               *)
RepoHandle == \A p \in Pids : pc[p] \in RepoOpen => link[Root(p)] = repoFd[p]

(* No handle on a run lock is on a repo lock's file.                       *)
RunHandle ==
    \A p \in Pids : pc[p] \in RunOpen => \A n \in Roots : link[n] # runFd[p]

(* Who is past a flock has the lock.                                       *)
Holds ==
    \A p \in Pids :
        /\ pc[p] \in RepoLocked => holder[repoFd[p]] = p
        /\ pc[p] \in RunLocked => holder[runFd[p]] = p

(* The run lock's name leads to the file opened, until --reset removes it, *)
(* where no other tree uses the loop directory.                            *)
InPlace ==
    OneTreePerDir => \A p \in Pids :
        pc[p] \in {"run_record", "run_flock", "resetting"}
            \/ (pc[p] = "running" /\ ~reset[p])
            => link[Dir(p)] = runFd[p]

Inv ==
    /\ TypeOK
    /\ Handles
    /\ OneName
    /\ RepoHandle
    /\ RunHandle
    /\ Holds
    /\ NoLockLeaks
    /\ InPlace

(* The repo lock's argument: two holders have the same file open.          *)
LEMMA ExclusiveTree == Inv => OneLoopPerTree
BY DEF Inv, Handles, RepoHandle, Holds, RepoOpen, OneLoopPerTree

(* The run lock's argument: one loop directory is in one tree.             *)
LEMMA ExclusiveDir ==
    ASSUME Inv, OneTreePerDir, NEW p \in Pids, NEW q \in Pids,
           pc[p] \in RepoLocked, pc[q] \in RepoLocked, Dir(p) = Dir(q)
    PROVE  p = q
<1>1. place[p] \in Places /\ place[q] \in Places
  BY DEF Inv, Handles, RepoLocked
<1>2. Root(p) = Root(q)
  BY <1>1 DEF OneTreePerDir, Root, Dir
<1> QED
  BY <1>2, ExclusiveTree DEF OneLoopPerTree

(* A root names no run lock, a directory no repo lock.                     *)
LEMMA PlaceNames ==
    ASSUME Inv, NEW p \in Pids, pc[p] # "dead"
    PROVE  /\ Root(p) \in Roots /\ Root(p) \in Names
           /\ Dir(p) \in Dirs /\ Dir(p) \in Names
           /\ Dir(p) \notin Roots /\ Root(p) \notin Dirs
BY PlacesAssumption, NamesAssumption DEF Inv, Handles, Root, Dir, Names

LEMMA InitInv == Init => Inv
BY DEF Init, Inv, TypeOK, Handles, OneName, RepoHandle, RunHandle, Holds,
       NoLockLeaks, InPlace, RepoOpen, RunOpen, RepoLocked, RunLocked, Names, Pcs

-----------------------------------------------------------------------------
(* One lemma per action: each conjunct of Inv after the step.              *)

LEMMA StartKeeps ==
    ASSUME Inv, NEW p \in Pids, NEW a \in Places, NEW r \in BOOLEAN, Start(p, a, r)
    PROVE  Inv'
<1> USE NoneAssumption DEF Inv, Start, At, Goto, files,
           RepoOpen, RunOpen, RepoLocked, RunLocked
<1>1. TypeOK'
  BY DEF TypeOK, Pcs
<1>2. Handles'
  BY DEF Handles, TypeOK
<1>3. OneName'
  BY DEF OneName, TypeOK, Handles
<1>4. RepoHandle'
  BY DEF RepoHandle, TypeOK, Handles, Root
<1>5. RunHandle'
  BY DEF RunHandle, TypeOK, Handles, OneName
<1>6. Holds'
  BY DEF Holds, TypeOK, Handles, RepoHandle, RunHandle
<1>7. NoLockLeaks'
  BY DEF NoLockLeaks, TypeOK, Handles, Holds, RepoHandle, RunHandle
<1>8. InPlace'
  BY DEF InPlace, TypeOK, Handles, Dir
<1> QED
  BY <1>1, <1>2, <1>3, <1>4, <1>5, <1>6, <1>7, <1>8

LEMMA OpenRepoLockKeeps ==
    ASSUME Inv, NEW p \in Pids, NEW i \in Inodes, OpenRepoLock(p, i)
    PROVE  Inv'
<1> USE NoneAssumption DEF Inv, OpenRepoLock, At, Goto, files, Opened,
           RepoOpen, RunOpen, RepoLocked, RunLocked
<1>0. \A q \in Pids : pc[q] # "dead" =>
         /\ Root(q) \in Roots /\ Root(q) \in Names
         /\ Dir(q) \in Dirs /\ Dir(q) \in Names
         /\ Dir(q) \notin Roots /\ Root(q) \notin Dirs
  BY PlaceNames
<1>a. \A q \in Pids : Root(q)' = Root(q) /\ Dir(q)' = Dir(q)
  BY DEF Root, Dir
<1>1. TypeOK'
  BY <1>0 DEF TypeOK, Pcs
<1>2. Handles'
  BY <1>0 DEF Handles, TypeOK
<1>3. OneName'
  BY <1>0 DEF OneName, TypeOK, Unused, Handles
<1>4. RepoHandle'
  BY <1>0, <1>a DEF RepoHandle, TypeOK, Handles, Unused
<1>5. RunHandle'
  BY <1>0 DEF RunHandle, TypeOK, Handles, OneName, Unused, Names
<1>6. Holds'
  BY <1>0 DEF Holds, TypeOK, Handles, RepoHandle, RunHandle, Unused
<1>7. NoLockLeaks'
  BY <1>0 DEF NoLockLeaks, TypeOK, Handles, Holds, RepoHandle, RunHandle
<1>8. InPlace'
  BY <1>0, <1>a, ExclusiveDir DEF InPlace, TypeOK, Handles, Unused
<1> QED
  BY <1>1, <1>2, <1>3, <1>4, <1>5, <1>6, <1>7, <1>8

LEMMA RecordInRepoLockKeeps ==
    ASSUME Inv, NEW p \in Pids, RecordInRepoLock(p)
    PROVE  Inv'
<1> USE NoneAssumption DEF Inv, RecordInRepoLock, At, Goto, RecordIfEmpty,
           RepoOpen, RunOpen, RepoLocked, RunLocked
<1>1. TypeOK'
  BY DEF TypeOK, Pcs
<1>2. Handles'
  BY DEF Handles, TypeOK
<1>3. OneName'
  BY DEF OneName, TypeOK, Handles
<1>4. RepoHandle'
  BY DEF RepoHandle, TypeOK, Handles, Root
<1>5. RunHandle'
  BY DEF RunHandle, TypeOK, Handles, OneName
<1>6. Holds'
  BY DEF Holds, TypeOK, Handles, RepoHandle, RunHandle
<1>7. NoLockLeaks'
  BY DEF NoLockLeaks, TypeOK, Handles, Holds, RepoHandle, RunHandle
<1>8. InPlace'
  BY DEF InPlace, TypeOK, Handles, Dir
<1> QED
  BY <1>1, <1>2, <1>3, <1>4, <1>5, <1>6, <1>7, <1>8

LEMMA LockRepoKeeps ==
    ASSUME Inv, NEW p \in Pids, LockRepo(p)
    PROVE  Inv'
<1> USE NoneAssumption DEF Inv, LockRepo, At, Goto, Conflict, Lock,
           RepoOpen, RunOpen, RepoLocked, RunLocked
<1>1. TypeOK'
  BY DEF TypeOK, Pcs
<1>2. Handles'
  BY DEF Handles, TypeOK
<1>3. OneName'
  BY DEF OneName, TypeOK, Handles
<1>4. RepoHandle'
  BY DEF RepoHandle, TypeOK, Handles, Root
<1>5. RunHandle'
  BY DEF RunHandle, TypeOK, Handles, OneName
<1>6. Holds'
  BY DEF Holds, TypeOK, Handles, RepoHandle, RunHandle
<1>7. NoLockLeaks'
  BY DEF NoLockLeaks, TypeOK, Handles, Holds, RepoHandle, RunHandle
<1>8. InPlace'
  BY DEF InPlace, TypeOK, Handles, Dir
<1> QED
  BY <1>1, <1>2, <1>3, <1>4, <1>5, <1>6, <1>7, <1>8

LEMMA OwnRepoRecordKeeps ==
    ASSUME Inv, NEW p \in Pids, OwnRepoRecord(p)
    PROVE  Inv'
<1> USE NoneAssumption DEF Inv, OwnRepoRecord, At, Goto,
           RepoOpen, RunOpen, RepoLocked, RunLocked
<1>1. TypeOK'
  BY DEF TypeOK, Pcs
<1>2. Handles'
  BY DEF Handles, TypeOK
<1>3. OneName'
  BY DEF OneName, TypeOK, Handles
<1>4. RepoHandle'
  BY DEF RepoHandle, TypeOK, Handles, Root
<1>5. RunHandle'
  BY DEF RunHandle, TypeOK, Handles, OneName
<1>6. Holds'
  BY DEF Holds, TypeOK, Handles, RepoHandle, RunHandle
<1>7. NoLockLeaks'
  BY DEF NoLockLeaks, TypeOK, Handles, Holds, RepoHandle, RunHandle
<1>8. InPlace'
  BY DEF InPlace, TypeOK, Handles, Dir
<1> QED
  BY <1>1, <1>2, <1>3, <1>4, <1>5, <1>6, <1>7, <1>8

LEMMA ReadRunRecordKeeps ==
    ASSUME Inv, NEW p \in Pids, ReadRunRecord(p)
    PROVE  Inv'
<1> USE NoneAssumption DEF Inv, ReadRunRecord, At, Goto, files,
           RepoOpen, RunOpen, RepoLocked, RunLocked
<1>0. Dir(p) \in Names
  BY PlaceNames
<1>1. TypeOK'
  BY <1>0 DEF TypeOK, Pcs, RecordedAt
<1>2. Handles'
  BY DEF Handles, TypeOK
<1>3. OneName'
  BY DEF OneName, TypeOK, Handles
<1>4. RepoHandle'
  BY DEF RepoHandle, TypeOK, Handles, Root
<1>5. RunHandle'
  BY DEF RunHandle, TypeOK, Handles, OneName
<1>6. Holds'
  BY DEF Holds, TypeOK, Handles, RepoHandle, RunHandle
<1>7. NoLockLeaks'
  BY DEF NoLockLeaks, TypeOK, Handles, Holds, RepoHandle, RunHandle
<1>8. InPlace'
  BY DEF InPlace, TypeOK, Handles, Dir
<1> QED
  BY <1>1, <1>2, <1>3, <1>4, <1>5, <1>6, <1>7, <1>8

LEMMA ProbePidKeeps ==
    ASSUME Inv, NEW p \in Pids, ProbePid(p)
    PROVE  Inv'
<1> USE NoneAssumption DEF Inv, ProbePid, At, Goto, files,
           RepoOpen, RunOpen, RepoLocked, RunLocked
<1>1. TypeOK'
  BY DEF TypeOK, Pcs
<1>2. Handles'
  BY DEF Handles, TypeOK
<1>3. OneName'
  BY DEF OneName, TypeOK, Handles
<1>4. RepoHandle'
  BY DEF RepoHandle, TypeOK, Handles, Root
<1>5. RunHandle'
  BY DEF RunHandle, TypeOK, Handles, OneName
<1>6. Holds'
  BY DEF Holds, TypeOK, Handles, RepoHandle, RunHandle
<1>7. NoLockLeaks'
  BY DEF NoLockLeaks, TypeOK, Handles, Holds, RepoHandle, RunHandle
<1>8. InPlace'
  BY DEF InPlace, TypeOK, Handles, Dir
<1> QED
  BY <1>1, <1>2, <1>3, <1>4, <1>5, <1>6, <1>7, <1>8

LEMMA UnlinkStaleKeeps ==
    ASSUME Inv, NEW p \in Pids, UnlinkStale(p)
    PROVE  Inv'
<1> USE NoneAssumption DEF Inv, UnlinkStale, At, Goto, Unlink,
           RepoOpen, RunOpen, RepoLocked, RunLocked
<1>0. \A q \in Pids : pc[q] # "dead" =>
         /\ Root(q) \in Roots /\ Root(q) \in Names
         /\ Dir(q) \in Dirs /\ Dir(q) \in Names
         /\ Dir(q) \notin Roots /\ Root(q) \notin Dirs
  BY PlaceNames
<1>a. \A q \in Pids : Root(q)' = Root(q) /\ Dir(q)' = Dir(q)
  BY DEF Root, Dir
<1>1. TypeOK'
  BY <1>0 DEF TypeOK, Pcs
<1>2. Handles'
  BY <1>0 DEF Handles, TypeOK
<1>3. OneName'
  BY <1>0 DEF OneName, TypeOK, Handles
<1>4. RepoHandle'
  BY <1>0, <1>a DEF RepoHandle, TypeOK, Handles
<1>5. RunHandle'
  BY <1>0 DEF RunHandle, TypeOK, Handles, OneName, Names
<1>6. Holds'
  BY <1>0 DEF Holds, TypeOK, Handles, RepoHandle, RunHandle
<1>7. NoLockLeaks'
  BY <1>0 DEF NoLockLeaks, TypeOK, Handles, Holds, RepoHandle, RunHandle
<1>8. InPlace'
  BY <1>0, <1>a, ExclusiveDir DEF InPlace, TypeOK, Handles
<1> QED
  BY <1>1, <1>2, <1>3, <1>4, <1>5, <1>6, <1>7, <1>8

LEMMA OpenRunLockKeeps ==
    ASSUME Inv, NEW p \in Pids, NEW i \in Inodes, OpenRunLock(p, i)
    PROVE  Inv'
<1> USE NoneAssumption DEF Inv, OpenRunLock, At, Goto, files, Opened,
           RepoOpen, RunOpen, RepoLocked, RunLocked
<1>0. \A q \in Pids : pc[q] # "dead" =>
         /\ Root(q) \in Roots /\ Root(q) \in Names
         /\ Dir(q) \in Dirs /\ Dir(q) \in Names
         /\ Dir(q) \notin Roots /\ Root(q) \notin Dirs
  BY PlaceNames
<1>a. \A q \in Pids : Root(q)' = Root(q) /\ Dir(q)' = Dir(q)
  BY DEF Root, Dir
<1>1. TypeOK'
  BY <1>0 DEF TypeOK, Pcs
<1>2. Handles'
  BY <1>0 DEF Handles, TypeOK
<1>3. OneName'
  BY <1>0 DEF OneName, TypeOK, Unused, Handles
<1>4. RepoHandle'
  BY <1>0, <1>a DEF RepoHandle, TypeOK, Handles, Unused
<1>5. RunHandle'
  BY <1>0 DEF RunHandle, TypeOK, Handles, OneName, Unused, Names
<1>6. Holds'
  BY <1>0 DEF Holds, TypeOK, Handles, RepoHandle, RunHandle, Unused
<1>7. NoLockLeaks'
  BY <1>0 DEF NoLockLeaks, TypeOK, Handles, Holds, RepoHandle, RunHandle
<1>8. InPlace'
  BY <1>0, <1>a, ExclusiveDir DEF InPlace, TypeOK, Handles, Unused
<1> QED
  BY <1>1, <1>2, <1>3, <1>4, <1>5, <1>6, <1>7, <1>8

LEMMA RecordInRunLockKeeps ==
    ASSUME Inv, NEW p \in Pids, RecordInRunLock(p)
    PROVE  Inv'
<1> USE NoneAssumption DEF Inv, RecordInRunLock, At, Goto, RecordIfEmpty,
           RepoOpen, RunOpen, RepoLocked, RunLocked
<1>1. TypeOK'
  BY DEF TypeOK, Pcs
<1>2. Handles'
  BY DEF Handles, TypeOK
<1>3. OneName'
  BY DEF OneName, TypeOK, Handles
<1>4. RepoHandle'
  BY DEF RepoHandle, TypeOK, Handles, Root
<1>5. RunHandle'
  BY DEF RunHandle, TypeOK, Handles, OneName
<1>6. Holds'
  BY DEF Holds, TypeOK, Handles, RepoHandle, RunHandle
<1>7. NoLockLeaks'
  BY DEF NoLockLeaks, TypeOK, Handles, Holds, RepoHandle, RunHandle
<1>8. InPlace'
  BY DEF InPlace, TypeOK, Handles, Dir
<1> QED
  BY <1>1, <1>2, <1>3, <1>4, <1>5, <1>6, <1>7, <1>8

LEMMA LockRunKeeps ==
    ASSUME Inv, NEW p \in Pids, LockRun(p)
    PROVE  Inv'
<1> USE NoneAssumption DEF Inv, LockRun, At, Goto, Conflict, Lock,
           RepoOpen, RunOpen, RepoLocked, RunLocked
<1>1. TypeOK'
  BY DEF TypeOK, Pcs
<1>2. Handles'
  BY DEF Handles, TypeOK
<1>3. OneName'
  BY DEF OneName, TypeOK, Handles
<1>4. RepoHandle'
  BY DEF RepoHandle, TypeOK, Handles, Root
<1>5. RunHandle'
  BY DEF RunHandle, TypeOK, Handles, OneName
<1>6. Holds'
  BY DEF Holds, TypeOK, Handles, RepoHandle, RunHandle
<1>7. NoLockLeaks'
  BY DEF NoLockLeaks, TypeOK, Handles, Holds, RepoHandle, RunHandle
<1>8. InPlace'
  BY DEF InPlace, TypeOK, Handles, Dir
<1> QED
  BY <1>1, <1>2, <1>3, <1>4, <1>5, <1>6, <1>7, <1>8

LEMMA ResetBusKeeps ==
    ASSUME Inv, NEW p \in Pids, ResetBus(p)
    PROVE  Inv'
<1> USE NoneAssumption DEF Inv, ResetBus, At, Goto, Unlink,
           RepoOpen, RunOpen, RepoLocked, RunLocked
<1>0. \A q \in Pids : pc[q] # "dead" =>
         /\ Root(q) \in Roots /\ Root(q) \in Names
         /\ Dir(q) \in Dirs /\ Dir(q) \in Names
         /\ Dir(q) \notin Roots /\ Root(q) \notin Dirs
  BY PlaceNames
<1>a. \A q \in Pids : Root(q)' = Root(q) /\ Dir(q)' = Dir(q)
  BY DEF Root, Dir
<1>1. TypeOK'
  BY <1>0 DEF TypeOK, Pcs
<1>2. Handles'
  BY <1>0 DEF Handles, TypeOK
<1>3. OneName'
  BY <1>0 DEF OneName, TypeOK, Handles
<1>4. RepoHandle'
  BY <1>0, <1>a DEF RepoHandle, TypeOK, Handles
<1>5. RunHandle'
  BY <1>0 DEF RunHandle, TypeOK, Handles, OneName, Names
<1>6. Holds'
  BY <1>0 DEF Holds, TypeOK, Handles, RepoHandle, RunHandle
<1>7. NoLockLeaks'
  BY <1>0 DEF NoLockLeaks, TypeOK, Handles, Holds, RepoHandle, RunHandle
<1>8. InPlace'
  BY <1>0, <1>a, ExclusiveDir DEF InPlace, TypeOK, Handles
<1> QED
  BY <1>1, <1>2, <1>3, <1>4, <1>5, <1>6, <1>7, <1>8

LEMMA FinishKeeps ==
    ASSUME Inv, NEW p \in Pids, Finish(p)
    PROVE  Inv'
<1> USE NoneAssumption DEF Inv, Finish, At, Goto, files,
           RepoOpen, RunOpen, RepoLocked, RunLocked
<1>1. TypeOK'
  BY DEF TypeOK, Pcs
<1>2. Handles'
  BY DEF Handles, TypeOK
<1>3. OneName'
  BY DEF OneName, TypeOK, Handles
<1>4. RepoHandle'
  BY DEF RepoHandle, TypeOK, Handles, Root
<1>5. RunHandle'
  BY DEF RunHandle, TypeOK, Handles, OneName
<1>6. Holds'
  BY DEF Holds, TypeOK, Handles, RepoHandle, RunHandle
<1>7. NoLockLeaks'
  BY DEF NoLockLeaks, TypeOK, Handles, Holds, RepoHandle, RunHandle
<1>8. InPlace'
  BY DEF InPlace, TypeOK, Handles, Dir
<1> QED
  BY <1>1, <1>2, <1>3, <1>4, <1>5, <1>6, <1>7, <1>8

LEMMA ReleaseRunKeeps ==
    ASSUME Inv, NEW p \in Pids, ReleaseRun(p)
    PROVE  Inv'
<1> USE NoneAssumption DEF Inv, ReleaseRun, At, Goto, Unlock,
           RepoOpen, RunOpen, RepoLocked, RunLocked
<1>0. \A q \in Pids : pc[q] # "dead" => Root(q) \in Roots
  BY PlaceNames
<1>1. TypeOK'
  BY DEF TypeOK, Pcs
<1>2. Handles'
  BY DEF Handles, TypeOK
<1>3. OneName'
  BY DEF OneName, TypeOK, Handles
<1>4. RepoHandle'
  BY DEF RepoHandle, TypeOK, Handles, Root
<1>5. RunHandle'
  BY DEF RunHandle, TypeOK, Handles, OneName
<1>6. Holds'
  BY <1>0 DEF Holds, TypeOK, Handles, RepoHandle, RunHandle
<1>7. NoLockLeaks'
  BY DEF NoLockLeaks, TypeOK, Handles, Holds, RepoHandle, RunHandle
<1>8. InPlace'
  BY DEF InPlace, TypeOK, Handles, Dir
<1> QED
  BY <1>1, <1>2, <1>3, <1>4, <1>5, <1>6, <1>7, <1>8

LEMMA ReleaseRepoKeeps ==
    ASSUME Inv, NEW p \in Pids, ReleaseRepo(p)
    PROVE  Inv'
<1> USE NoneAssumption DEF Inv, ReleaseRepo, At, Goto, Unlock,
           RepoOpen, RunOpen, RepoLocked, RunLocked
<1>1. TypeOK'
  BY DEF TypeOK, Pcs
<1>2. Handles'
  BY DEF Handles, TypeOK
<1>3. OneName'
  BY DEF OneName, TypeOK, Handles
<1>4. RepoHandle'
  BY DEF RepoHandle, TypeOK, Handles, Root
<1>5. RunHandle'
  BY DEF RunHandle, TypeOK, Handles, OneName
<1>6. Holds'
  BY DEF Holds, TypeOK, Handles, RepoHandle, RunHandle
<1>7. NoLockLeaks'
  BY DEF NoLockLeaks, TypeOK, Handles, Holds, RepoHandle, RunHandle
<1>8. InPlace'
  BY DEF InPlace, TypeOK, Handles, Dir
<1> QED
  BY <1>1, <1>2, <1>3, <1>4, <1>5, <1>6, <1>7, <1>8

LEMMA DieKeeps ==
    ASSUME Inv, NEW p \in Pids, Die(p)
    PROVE  Inv'
<1> USE NoneAssumption DEF Inv, Die, At, Goto,
           RepoOpen, RunOpen, RepoLocked, RunLocked
<1>1. TypeOK'
  BY DEF TypeOK, Pcs
<1>2. Handles'
  BY DEF Handles, TypeOK
<1>3. OneName'
  BY DEF OneName, TypeOK, Handles
<1>4. RepoHandle'
  BY DEF RepoHandle, TypeOK, Handles, Root
<1>5. RunHandle'
  BY DEF RunHandle, TypeOK, Handles, OneName
<1>6. Holds'
  BY DEF Holds, TypeOK, Handles, RepoHandle, RunHandle
<1>7. NoLockLeaks'
  BY DEF NoLockLeaks, TypeOK, Handles, Holds, RepoHandle, RunHandle
<1>8. InPlace'
  BY DEF InPlace, TypeOK, Handles, Dir
<1> QED
  BY <1>1, <1>2, <1>3, <1>4, <1>5, <1>6, <1>7, <1>8

LEMMA StepKeeps == Inv /\ [Next]_vars => Inv'
<1> SUFFICES ASSUME Inv, [Next]_vars PROVE Inv'
  OBVIOUS
<1>1. CASE UNCHANGED vars
  BY <1>1 DEF Inv, TypeOK, Handles, OneName, RepoHandle, RunHandle, Holds,
              NoLockLeaks, InPlace, vars, files, Root, Dir
<1>2. CASE Next
  <2>1. PICK p \in Pids :
           \/ \E a \in Places, r \in BOOLEAN : Start(p, a, r)
           \/ Step(p) \/ Finish(p) \/ Die(p)
    BY <1>2 DEF Next
  <2>2. CASE \E a \in Places, r \in BOOLEAN : Start(p, a, r)
    BY <2>2, StartKeeps
  <2>3. CASE Step(p)
    BY <2>3, OpenRepoLockKeeps, RecordInRepoLockKeeps, LockRepoKeeps,
       OwnRepoRecordKeeps, ReadRunRecordKeeps, ProbePidKeeps, UnlinkStaleKeeps,
       OpenRunLockKeeps, RecordInRunLockKeeps, LockRunKeeps, ResetBusKeeps,
       ReleaseRunKeeps, ReleaseRepoKeeps DEF Step
  <2>4. CASE Finish(p)
    BY <2>4, FinishKeeps
  <2>5. CASE Die(p)
    BY <2>5, DieKeeps
  <2> QED
    BY <2>1, <2>2, <2>3, <2>4, <2>5
<1> QED
  BY <1>1, <1>2

LEMMA Invariance == Spec => []Inv
BY InitInv, StepKeeps, PTL DEF Spec

-----------------------------------------------------------------------------
(* Type correctness of the locks' state.                                   *)
THEOREM LocksTypeCorrect == Spec => []TypeOK
<1>1. Inv => TypeOK
  BY DEF Inv
<1> QED
  BY <1>1, Invariance, PTL

(* At most one loop is between lock and unlock in a working tree: the      *)
(* repo lock of cmd_run excludes, whatever dies and whatever pids recur.   *)
THEOREM TreeIsExclusive == Spec => []OneLoopPerTree
BY ExclusiveTree, Invariance, PTL

(* Where a loop directory is used from one tree, the stale-lock cleanup    *)
(* never removes the lock file of a running loop.                          *)
THEOREM CleanupSparesLocks == Spec => [](OneTreePerDir => RunLockInPlace)
<1>1. Inv => (OneTreePerDir => RunLockInPlace)
  BY DEF Inv, InPlace, Holds, RunLocked, RunLockInPlace
<1> QED
  BY <1>1, Invariance, PTL

(* A lock is held only by a process inside cmd_run that can release it.    *)
THEOREM LocksAreReleased == Spec => []NoLockLeaks
<1>1. Inv => NoLockLeaks
  BY DEF Inv
<1> QED
  BY <1>1, Invariance, PTL
=============================================================================
