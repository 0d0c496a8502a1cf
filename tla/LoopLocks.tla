----------------------------- MODULE LoopLocks -----------------------------
(***************************************************************************)
(* The two locks of `loop run`: the repo lock, one file per working tree   *)
(* in the temporary directory, and the run lock, `.loop/.lock`, one per    *)
(* loop directory (_LoopLock, _acquire_repo_lock, _acquire_run_lock,       *)
(* _cleanup_stale_lock and the lock handling of cmd_run).                  *)
(*                                                                         *)
(* A lock is a flock on an open file, so it belongs to an inode and not to *)
(* a path: a process that unlinks the path and creates it again locks      *)
(* another inode.  _cleanup_stale_lock unlinks the run lock when the pid   *)
(* recorded in it is dead, --reset unlinks it while it is held; nothing    *)
(* unlinks a repo lock.  The record says who first opened the file, which  *)
(* need not be who locked it.                                              *)
(*                                                                         *)
(* A step is one system call, or calls between which nothing can matter.   *)
(* A process may be killed between any two; the kernel then closes its     *)
(* files and drops its locks.  Pids are reused.  The children of a run     *)
(* take no lock and inherit no descriptor, so they are not here.           *)
(***************************************************************************)
EXTENDS Naturals

CONSTANTS
    Pids,     \* process ids
    Roots,    \* working trees, each naming its repo lock file
    Dirs,     \* loop directories, each naming its run lock file
    Places,   \* the (root, dir) pairs commands are run in
    Inodes,   \* lock files, those unlinked but still open included
    None      \* no inode, no pid

Names == Roots \cup Dirs

ASSUME PlacesAssumption == Places \subseteq [root : Roots, dir : Dirs]
ASSUME NamesAssumption  == Roots \cap Dirs = {}
ASSUME NoneAssumption   ==
    None \notin Inodes /\ None \notin Pids /\ None \notin Places

(* Commands that share a loop directory are run in one working tree, as    *)
(* they are with the default --loop-dir, which lies inside it; an absolute *)
(* --loop-dir may be given in two trees.                                   *)
OneTreePerDir == \A a, b \in Places : a.dir = b.dir => a.root = b.root

VARIABLES
    link,     \* directory entries: the inode each lock file name leads to
    record,   \* the pid on the first line of a lock file
    holder,   \* the process whose flock the inode carries
    pc,       \* where each process is in cmd_run
    place,    \* where its command was given, None when there is none
    reset,    \* whether with --reset
    seen,     \* the pid _cleanup_stale_lock has read
    repoFd,   \* the inode its repo lock handle has open
    runFd     \* the inode its run lock handle has open

files == <<link, record, holder>>
vars  == <<files, pc, place, reset, seen, repoFd, runFd>>

-----------------------------------------------------------------------------
(* dead: no such process; exiting: cmd_run is left, the process remains.   *)
Pcs ==
    {"dead", "repo_open", "repo_record", "repo_flock", "repo_own",
     "clean_read", "clean_probe", "clean_unlink",
     "run_open", "run_record", "run_flock", "resetting", "running",
     "run_release", "repo_release", "exiting"}

TypeOK ==
    /\ link \in [Names -> Inodes \cup {None}]
    /\ record \in [Inodes -> Pids \cup {None}]
    /\ holder \in [Inodes -> Pids \cup {None}]
    /\ pc \in [Pids -> Pcs]
    /\ place \in [Pids -> Places \cup {None}]
    /\ reset \in [Pids -> BOOLEAN]
    /\ seen \in [Pids -> Pids \cup {None}]
    /\ repoFd \in [Pids -> Inodes \cup {None}]
    /\ runFd \in [Pids -> Inodes \cup {None}]

Init ==
    /\ link = [n \in Names |-> None]
    /\ record = [i \in Inodes |-> None]
    /\ holder = [i \in Inodes |-> None]
    /\ pc = [p \in Pids |-> "dead"]
    /\ place = [p \in Pids |-> None]
    /\ reset = [p \in Pids |-> FALSE]
    /\ seen = [p \in Pids |-> None]
    /\ repoFd = [p \in Pids |-> None]
    /\ runFd = [p \in Pids |-> None]

Root(p) == place[p].root
Dir(p)  == place[p].dir

Goto(p, at) == pc' = [pc EXCEPT ![p] = at]

At(p, at) == pc[p] = at

-----------------------------------------------------------------------------
(* Lock files.                                                             *)

(* No name leads to it and nobody has it open: the next file may get it.   *)
Unused(i) ==
    /\ \A n \in Names : link[n] # i
    /\ \A p \in Pids : repoFd[p] # i /\ runFd[p] # i

(* open(path, "a+b"): the file there, or a new and empty one.              *)
Opened(name, i) ==
    IF link[name] # None
    THEN i = link[name] /\ UNCHANGED files
    ELSE /\ Unused(i)
         /\ link' = [link EXCEPT ![name] = i]
         /\ record' = [record EXCEPT ![i] = None]
         /\ holder' = [holder EXCEPT ![i] = None]

(* acquire writes the pid into an empty file before it asks for the lock.  *)
RecordIfEmpty(p, i) ==
    record' = IF record[i] = None THEN [record EXCEPT ![i] = p] ELSE record

(* Mutant of Conflict: the lock is never refused.                          *)
NoConflict(p, i) == FALSE

(* flock(LOCK_EX | LOCK_NB) fails while another process has the lock.      *)
Conflict(p, i) == holder[i] \notin {None, p}

Lock(p, i) == holder' = [holder EXCEPT ![i] = p]

Unlock(i) == holder' = [holder EXCEPT ![i] = None]

Unlink(name) == link' = [link EXCEPT ![name] = None]

-----------------------------------------------------------------------------
(* cmd_run: repo lock, run lock, reset, the loop, release.                 *)

Start(p, a, r) ==
    /\ At(p, "dead")
    /\ Goto(p, "repo_open")
    /\ place' = [place EXCEPT ![p] = a]
    /\ reset' = [reset EXCEPT ![p] = r]
    /\ UNCHANGED <<files, seen, repoFd, runFd>>

OpenRepoLock(p, i) ==
    /\ At(p, "repo_open")
    /\ Opened(Root(p), i)
    /\ repoFd' = [repoFd EXCEPT ![p] = i]
    /\ Goto(p, "repo_record")
    /\ UNCHANGED <<place, reset, seen, runFd>>

RecordInRepoLock(p) ==
    /\ At(p, "repo_record")
    /\ RecordIfEmpty(p, repoFd[p])
    /\ Goto(p, "repo_flock")
    /\ UNCHANGED <<link, holder, place, reset, seen, repoFd, runFd>>

(* On a conflict the handle is closed and the command exits 5.             *)
LockRepo(p) ==
    /\ At(p, "repo_flock")
    /\ IF Conflict(p, repoFd[p])
       THEN /\ repoFd' = [repoFd EXCEPT ![p] = None]
            /\ Goto(p, "exiting")
            /\ UNCHANGED holder
       ELSE /\ Lock(p, repoFd[p])
            /\ Goto(p, "repo_own")
            /\ UNCHANGED repoFd
    /\ UNCHANGED <<link, record, place, reset, seen, runFd>>

(* write_pid_record, through the handle that holds the lock.               *)
OwnRepoRecord(p) ==
    /\ At(p, "repo_own")
    /\ record' = [record EXCEPT ![repoFd[p]] = p]
    /\ Goto(p, "clean_read")
    /\ UNCHANGED <<link, holder, place, reset, seen, repoFd, runFd>>

(* _cleanup_stale_lock: read the record ...                                *)
RecordedAt(name) == IF link[name] = None THEN None ELSE record[link[name]]

ReadRunRecord(p) ==
    /\ At(p, "clean_read")
    /\ LET q == RecordedAt(Dir(p))
       IN  IF q \in {None, p}
           THEN Goto(p, "run_open") /\ UNCHANGED seen
           ELSE Goto(p, "clean_probe") /\ seen' = [seen EXCEPT ![p] = q]
    /\ UNCHANGED <<files, place, reset, repoFd, runFd>>

(* ... ask whether that process is alive: kill(pid, 0) fails when it is    *)
(* not, and when it is another user's ...                                  *)
ProbePid(p) ==
    /\ At(p, "clean_probe")
    /\ \/ Goto(p, "clean_unlink")
       \/ pc[seen[p]] # "dead" /\ Goto(p, "run_open")
    /\ seen' = [seen EXCEPT ![p] = None]
    /\ UNCHANGED <<files, place, reset, repoFd, runFd>>

(* ... and unlink what is at the path by then.                             *)
UnlinkStale(p) ==
    /\ At(p, "clean_unlink")
    /\ Unlink(Dir(p))
    /\ Goto(p, "run_open")
    /\ UNCHANGED <<record, holder, place, reset, seen, repoFd, runFd>>

OpenRunLock(p, i) ==
    /\ At(p, "run_open")
    /\ Opened(Dir(p), i)
    /\ runFd' = [runFd EXCEPT ![p] = i]
    /\ Goto(p, "run_record")
    /\ UNCHANGED <<place, reset, seen, repoFd>>

RecordInRunLock(p) ==
    /\ At(p, "run_record")
    /\ RecordIfEmpty(p, runFd[p])
    /\ Goto(p, "run_flock")
    /\ UNCHANGED <<link, holder, place, reset, seen, repoFd, runFd>>

(* On a conflict the finally of cmd_run gives the repo lock back.          *)
LockRun(p) ==
    /\ At(p, "run_flock")
    /\ IF Conflict(p, runFd[p])
       THEN /\ runFd' = [runFd EXCEPT ![p] = None]
            /\ Goto(p, "repo_release")
            /\ UNCHANGED holder
       ELSE /\ Lock(p, runFd[p])
            /\ Goto(p, IF reset[p] THEN "resetting" ELSE "running")
            /\ UNCHANGED runFd
    /\ UNCHANGED <<link, record, place, reset, seen, repoFd>>

(* _reset_bus: the run lock is the first of the files --reset removes.     *)
ResetBus(p) ==
    /\ At(p, "resetting")
    /\ Unlink(Dir(p))
    /\ Goto(p, "running")
    /\ UNCHANGED <<record, holder, place, reset, seen, repoFd, runFd>>

Finish(p) ==
    /\ At(p, "running")
    /\ Goto(p, "run_release")
    /\ UNCHANGED <<files, place, reset, seen, repoFd, runFd>>

ReleaseRun(p) ==
    /\ At(p, "run_release")
    /\ Unlock(runFd[p])
    /\ runFd' = [runFd EXCEPT ![p] = None]
    /\ Goto(p, "repo_release")
    /\ UNCHANGED <<link, record, place, reset, seen, repoFd>>

(* Mutant of ReleaseRepo: the handle is dropped, the lock is not.          *)
ForgetRepo(p) ==
    /\ At(p, "repo_release")
    /\ repoFd' = [repoFd EXCEPT ![p] = None]
    /\ Goto(p, "exiting")
    /\ UNCHANGED <<files, place, reset, seen, runFd>>

ReleaseRepo(p) ==
    /\ At(p, "repo_release")
    /\ Unlock(repoFd[p])
    /\ repoFd' = [repoFd EXCEPT ![p] = None]
    /\ Goto(p, "exiting")
    /\ UNCHANGED <<link, record, place, reset, seen, runFd>>

(* The process ends, or is killed wherever it is: its files are closed.    *)
Die(p) ==
    /\ ~At(p, "dead")
    /\ Goto(p, "dead")
    /\ holder' = [i \in Inodes |-> IF holder[i] = p THEN None ELSE holder[i]]
    /\ repoFd' = [repoFd EXCEPT ![p] = None]
    /\ runFd' = [runFd EXCEPT ![p] = None]
    /\ seen' = [seen EXCEPT ![p] = None]
    /\ place' = [place EXCEPT ![p] = None]
    /\ reset' = [reset EXCEPT ![p] = FALSE]
    /\ UNCHANGED <<link, record>>

Step(p) ==
    \/ RecordInRepoLock(p) \/ LockRepo(p) \/ OwnRepoRecord(p)
    \/ ReadRunRecord(p) \/ ProbePid(p) \/ UnlinkStale(p)
    \/ RecordInRunLock(p) \/ LockRun(p) \/ ResetBus(p)
    \/ ReleaseRun(p) \/ ReleaseRepo(p)
    \/ \E i \in Inodes : OpenRepoLock(p, i) \/ OpenRunLock(p, i)

Next ==
    \E p \in Pids :
        \/ \E a \in Places, r \in BOOLEAN : Start(p, a, r)
        \/ Step(p) \/ Finish(p) \/ Die(p)

Spec == Init /\ [][Next]_vars

-----------------------------------------------------------------------------
(* Properties.                                                             *)

(* From the flock that succeeds to the unlock in the finally of cmd_run.   *)
RepoLocked ==
    {"repo_own", "clean_read", "clean_probe", "clean_unlink", "run_open",
     "run_record", "run_flock", "resetting", "running", "run_release",
     "repo_release"}

RunLocked == {"resetting", "running", "run_release"}

(* One loop per working tree: what RunLoop takes for granted of parents.   *)
(* The repo lock file is never unlinked, so all who want it meet in one    *)
(* inode, whatever its record says.                                        *)
OneLoopPerTree ==
    \A p, q \in Pids :
        pc[p] \in RepoLocked /\ pc[q] \in RepoLocked /\ Root(p) = Root(q) => p = q

(* The file at the path is the one the running loop has locked, unless it  *)
(* has removed it itself: with one tree to a loop directory no stale-lock  *)
(* cleanup unlinks a lock in use.  Where two trees share one it does, when *)
(* the lock was taken after the probe, and both commands go on.            *)
RunLockInPlace ==
    \A p \in Pids :
        pc[p] = "resetting" \/ (pc[p] = "running" /\ ~reset[p])
            => link[Dir(p)] = runFd[p] /\ holder[runFd[p]] = p

(* Nobody keeps a lock past cmd_run, the command that got the first lock   *)
(* and not the second included (B7): a lock is held by a process that is   *)
(* in cmd_run and has the file open.                                       *)
NoLockLeaks ==
    \A i \in Inodes : holder[i] # None =>
        /\ pc[holder[i]] \in RepoLocked
        /\ i \in {repoFd[holder[i]], runFd[holder[i]]}
=============================================================================
