----------------------------- MODULE StateStore -----------------------------
(***************************************************************************)
(* The files of the state contract: state.json, its backup .state.json.bak *)
(* and the temporary file of an atomic write, with every system call that  *)
(* changes one of them a step of its own, and a crash or a full disk       *)
(* between any two.                                                        *)
(*                                                                         *)
(* One process at a time: the loop's locks and the wait of the parent for  *)
(* its child see to that, but for two cases that are not modelled: a child *)
(* that outlives its parent, and `status`, which takes no lock and writes  *)
(* when it meets a contract that is damaged or goes away under it.         *)
(*                                                                         *)
(* A contract is [key, lanes]: `key` stands for the fields that _save_state *)
(* compares, `lanes` for the progress of the lanes.  The others, which it  *)
(* does not compare either, change only together with a compared one.      *)
(***************************************************************************)
EXTENDS Naturals

CONSTANTS Key, Lanes,   \* what the two parts may be
          Nothing,      \* the contract of no run
          Absent, Torn, \* a file that is not there; one that is no JSON
          Odd,          \* a file that is JSON, but no object
          MaxFaults     \* bound: crashes, full disks, damaged files

ASSUME BoundsAssumption == MaxFaults \in Nat

Value == [key : Key, lanes : Lanes]

ASSUME ContentsAssumption ==
    /\ Absent # Torn /\ Odd \notin {Absent, Torn}
    /\ {Nothing, Absent, Torn, Odd} \cap Value = {}

Content == Value \cup {Absent, Torn, Odd}

VARIABLES
    state, bak, tmp,    \* the files
    pc, val,            \* the process, and the contract it writes
    recovering,         \* does it write the backup, or a contract to be saved?
    faults

files == <<state, bak, tmp>>
vars == <<state, bak, tmp, pc, val, recovering, faults>>

TypeOK ==
    /\ state \in Content /\ bak \in Content /\ tmp \in Content
    /\ pc \in {"off", "load", "ready", "copy", "copying", "compare", "open", "fill", "replace",
               "skipped", "clear", "forget"}
    /\ val \in Value \cup {Nothing}
    /\ recovering \in BOOLEAN /\ faults \in Nat

Init ==
    /\ state = Absent /\ bak = Absent /\ tmp = Absent
    /\ pc = "off" /\ val = Nothing /\ faults = 0 /\ recovering = FALSE

Goto(p, q) == pc = p /\ pc' = q

-----------------------------------------------------------------------------
(* _load_state                                                             *)

Begin ==
    /\ pc \in {"off", "ready", "skipped"} /\ pc' = "load"
    /\ UNCHANGED <<files, val, faults, recovering>>

\* Only a file that is no JSON makes it look for the backup, which must be an object.
Recoverable == state = Torn /\ bak \in Value

\* A contract, or the default: for a file that is not there, is no object, or is no
\* JSON and has no backup.
LoadAsIs ==
    /\ Goto("load", "ready") /\ ~Recoverable
    /\ UNCHANGED <<files, val, faults, recovering>>

\* Mutant of KeepWhileRecovering: the backup goes first.
DropFirst == bak' = Absent
KeepWhileRecovering == UNCHANGED bak

LoadBackup ==
    /\ Goto("load", "open") /\ Recoverable
    /\ val' = bak /\ recovering' = TRUE
    /\ KeepWhileRecovering
    /\ UNCHANGED <<state, tmp, faults>>

DropBackup ==
    /\ Goto("forget", "ready")
    /\ bak' = Absent /\ recovering' = FALSE
    /\ UNCHANGED <<state, tmp, val, faults>>

-----------------------------------------------------------------------------
(* _save_state                                                             *)

Save(v) ==
    /\ pc \in {"ready", "skipped"}
    /\ pc' = IF state = Absent THEN "open" ELSE "copy"
    /\ val' = v
    /\ UNCHANGED <<files, faults, recovering>>

\* shutil.copy2: not atomic.
StartCopy ==
    /\ Goto("copy", "copying") /\ bak' = Torn
    /\ UNCHANGED <<state, tmp, val, faults, recovering>>

EndCopy ==
    /\ Goto("copying", "compare") /\ bak' = state
    /\ UNCHANGED <<state, tmp, val, faults, recovering>>

\* The compared key "lane_state" is a name that no contract has: lanes are under
\* "lanes".
Unchanged == state \in Value /\ state.key = val.key

Skip ==
    /\ Goto("compare", "skipped") /\ Unchanged
    /\ UNCHANGED <<files, val, faults, recovering>>

Differ ==
    /\ Goto("compare", "open") /\ ~Unchanged
    /\ UNCHANGED <<files, val, faults, recovering>>

-----------------------------------------------------------------------------
(* _atomic_write_text                                                      *)

Open ==
    /\ Goto("open", "fill") /\ tmp' = Torn
    /\ UNCHANGED <<state, bak, val, faults, recovering>>

Fill ==
    /\ Goto("fill", "replace") /\ tmp' = val
    /\ UNCHANGED <<state, bak, val, faults, recovering>>

Replace ==
    /\ Goto("replace", IF recovering THEN "forget" ELSE "ready")
    /\ state' = tmp /\ tmp' = Absent
    /\ UNCHANGED <<bak, val, faults, recovering>>

-----------------------------------------------------------------------------
(* --reset and _clean_stale_loop_state remove state.json before its backup.*)

RemoveState ==
    /\ pc \in {"off", "ready"} /\ pc' = "clear"
    /\ state' = Absent
    /\ UNCHANGED <<bak, tmp, val, faults, recovering>>

RemoveBackup ==
    /\ Goto("clear", "ready") /\ bak' = Absent
    /\ UNCHANGED <<state, tmp, val, faults, recovering>>

-----------------------------------------------------------------------------
(* Faults.                                                                 *)

Fault == faults < MaxFaults /\ faults' = faults + 1

End ==
    /\ pc \in {"ready", "skipped"} /\ pc' = "off"
    /\ UNCHANGED <<files, val, faults, recovering>>

Crash ==
    /\ Fault
    /\ pc \notin {"off", "ready"} /\ pc' = "off" /\ recovering' = FALSE
    /\ UNCHANGED <<files, val>>

\* The temporary file is removed, and the exception ends the process.
WriteFails ==
    /\ Fault
    /\ pc \in {"fill", "replace"} /\ pc' = "off" /\ recovering' = FALSE
    /\ tmp' = Absent
    /\ UNCHANGED <<state, bak, val>>

\* While no command runs, something else spoils state.json.
Damage ==
    /\ Fault
    /\ pc = "off" /\ state \in Value
    /\ state' \in {Torn, Odd}
    /\ UNCHANGED <<bak, tmp, pc, val, recovering>>

Next ==
    \/ Begin \/ LoadAsIs \/ LoadBackup \/ DropBackup
    \/ \E v \in Value : Save(v)
    \/ StartCopy \/ EndCopy \/ Skip \/ Differ
    \/ Open \/ Fill \/ Replace
    \/ RemoveState \/ RemoveBackup
    \/ End \/ Crash \/ WriteFails \/ Damage

Spec == Init /\ [][Next]_vars

-----------------------------------------------------------------------------
(* Properties.                                                             *)

\* What _load_state would return now, and what it would if state.json were torn.
Spare == IF bak \in Value THEN bak ELSE Nothing
Loaded == IF state \in Value THEN state ELSE IF state = Torn THEN Spare ELSE Nothing

Register == INSTANCE StateRegister WITH held <- Loaded, spare <- Spare

\* With a crash or a failed write between any two system calls, a contract is
\* never half written or lost: each step leaves what a load returns as it is, or
\* is the one moment at which a save or a removal takes effect; and a save goes
\* over a contract only after that contract is whole in the backup.  Damage to
\* state.json between two commands goes back to what the backup holds: what a save
\* last went over, or a contract that was removed without its backup.  It loses the
\* contract where there is no backup (after a crash in the middle of its copy, or a
\* recovery that no save has followed) and where the file is JSON but no object.
\* (_load_state, _save_state, _atomic_write_text, _clean_stale_loop_state)
ImplementsRegister == Register!Spec

\* A save is skipped only when nothing would change, lane state included
\* (CHANGELOG.md:90).  (_save_state)
SkipsAreHarmless == pc = "skipped" => state = val
=============================================================================
