-------------------------- MODULE StateStore_proofs --------------------------
(***************************************************************************)
(* The files of the state contract implement the register: proved for any  *)
(* contracts and any number of faults.  The invariant says what each step  *)
(* of a save or a recovery may rely on.                                    *)
(***************************************************************************)
EXTENDS StateStore, TLAPS

Saving == {"copy", "copying", "compare"}
Writing == {"open", "fill", "replace"}

\* A process that writes has something to write, and has it all in the temporary
\* file when it replaces state.json.
WritesAreWhole ==
    /\ pc \in Saving \cup Writing => val \in Value
    /\ pc = "replace" => tmp = val

\* A recovery writes what is still in the backup.
RecoveryIsSafe ==
    /\ recovering => pc \in Writing \cup {"forget"}
    /\ recovering /\ pc \in Writing => state = Torn /\ bak = val
    /\ pc = "forget" => state \in Value

\* Past its load, a process finds nothing that it should have recovered.
NothingToRecover == pc \notin {"off", "load"} /\ ~recovering => ~Recoverable

\* A save that writes has put aside what it goes over.
SpareIsReady ==
    /\ pc = "compare" => bak = state
    /\ pc \in Writing /\ ~recovering => Loaded = Nothing \/ Spare = Loaded
    /\ pc = "clear" => state = Absent

IInv == TypeOK /\ WritesAreWhole /\ RecoveryIsSafe /\ NothingToRecover /\ SpareIsReady

USE ContentsAssumption DEF ContentsAssumption, Content

LEMMA InitIInv == Init => IInv
<1> SUFFICES ASSUME Init PROVE IInv
    OBVIOUS
<1>1. TypeOK             BY DEF Init, TypeOK
<1>2. WritesAreWhole     BY DEF Init, WritesAreWhole, Saving, Writing
<1>3. RecoveryIsSafe     BY DEF Init, RecoveryIsSafe
<1>4. NothingToRecover   BY DEF Init, NothingToRecover, Recoverable
<1>5. SpareIsReady       BY DEF Init, SpareIsReady, Writing
<1> QED   BY <1>1, <1>2, <1>3, <1>4, <1>5 DEF IInv

\* The invariant is inductive.
LEMMA NextIInv == IInv /\ [Next]_vars => IInv'
<1> SUFFICES ASSUME IInv, [Next]_vars PROVE IInv'
    OBVIOUS
<1> USE DEF IInv, TypeOK, WritesAreWhole, RecoveryIsSafe, NothingToRecover, SpareIsReady,
            Saving, Writing, Recoverable, Goto, files, Loaded, Spare
<1>1. CASE Begin       BY <1>1 DEF Begin
<1>2. CASE LoadAsIs    BY <1>2 DEF LoadAsIs
<1>3. CASE LoadBackup  BY <1>3 DEF LoadBackup, KeepWhileRecovering
<1>4. CASE DropBackup  BY <1>4 DEF DropBackup
<1>5. CASE \E v \in Value : Save(v)  BY <1>5 DEF Save
<1>6. CASE StartCopy   BY <1>6 DEF StartCopy
<1>7. CASE EndCopy     BY <1>7 DEF EndCopy
<1>8. CASE Skip        BY <1>8 DEF Skip, Unchanged
<1>9. CASE Differ      BY <1>9 DEF Differ, Unchanged
<1>10. CASE Open       BY <1>10 DEF Open
<1>11. CASE Fill       BY <1>11 DEF Fill
<1>12. CASE Replace    BY <1>12 DEF Replace
<1>13. CASE RemoveState   BY <1>13 DEF RemoveState
<1>14. CASE RemoveBackup  BY <1>14 DEF RemoveBackup
<1>15. CASE End        BY <1>15 DEF End
<1>16. CASE Crash
  <2> USE <1>16 DEF Crash, Fault
  <2>1. TypeOK'
    <3>1. faults' \in Nat         OBVIOUS
    <3>2. recovering' \in BOOLEAN OBVIOUS
    <3>3. state' \in Content /\ bak' \in Content /\ tmp' \in Content /\ pc' = "off"
          /\ val' \in Value \cup {Nothing}
        OBVIOUS
    <3> QED   BY <3>1, <3>2, <3>3
  <2>2. pc' = "off" /\ ~recovering'  OBVIOUS
  <2> HIDE <1>16 DEF Crash, IInv
  <2> QED   BY <2>1, <2>2 DEF IInv
<1>17. CASE WriteFails
  <2> USE <1>17 DEF WriteFails, Fault
  <2>1. TypeOK'
    <3>1. faults' \in Nat         OBVIOUS
    <3>2. recovering' \in BOOLEAN OBVIOUS
    <3>3. state' \in Content /\ bak' \in Content /\ tmp' \in Content /\ pc' = "off"
          /\ val' \in Value \cup {Nothing}
        OBVIOUS
    <3> QED   BY <3>1, <3>2, <3>3
  <2>2. pc' = "off" /\ ~recovering'  OBVIOUS
  <2> HIDE <1>17 DEF WriteFails, IInv
  <2> QED   BY <2>1, <2>2 DEF IInv
<1>18. CASE Damage     BY <1>18 DEF Damage, Fault
<1>19. CASE UNCHANGED vars  BY <1>19 DEF vars
<1> QED
    BY <1>1, <1>2, <1>3, <1>4, <1>5, <1>6, <1>7, <1>8, <1>9, <1>10, <1>11, <1>12, <1>13,
       <1>14, <1>15, <1>16, <1>17, <1>18, <1>19 DEF Next

\* Whoever reads state.json between any two system calls, past any fault, finds the
\* files typed and the process where the invariant says.
THEOREM StoreInvariant == Spec => []IInv
BY InitIInv, NextIInv, PTL DEF Spec

LEMMA InitRegister == Init => Register!Init
BY DEF Init, Register!Init, Loaded, Spare

\* A step changes neither what a load returns nor the spare, or changes them as one
\* action of the register does.
LEMMA NextRegister == IInv /\ [Next]_vars => [Register!Next]_<<Loaded, Spare>>
<1> SUFFICES ASSUME IInv, [Next]_vars PROVE [Register!Next]_<<Loaded, Spare>>
    OBVIOUS
<1> USE DEF IInv, TypeOK, WritesAreWhole, RecoveryIsSafe, NothingToRecover, SpareIsReady,
            Saving, Writing, Recoverable, Goto, files, Loaded, Spare
<1> DEFINE Same == UNCHANGED <<Loaded, Spare>>
<1>1. Begin \/ LoadAsIs \/ LoadBackup \/ Skip \/ Differ \/ Open \/ Fill \/ End \/ Crash
        \/ WriteFails \/ (\E v \in Value : Save(v)) \/ UNCHANGED vars => Same
    BY DEF Begin, LoadAsIs, LoadBackup, KeepWhileRecovering, Skip, Differ, Open, Fill, End,
           Crash, WriteFails, Save, vars
<1>2. ASSUME DropBackup \/ StartCopy \/ RemoveBackup PROVE Register!GiveUpSpare
    BY <1>2 DEF DropBackup, StartCopy, RemoveBackup, Register!GiveUpSpare
<1>3. ASSUME EndCopy PROVE Register!SetAside
    BY <1>3 DEF EndCopy, Register!SetAside
<1>4. ASSUME Replace PROVE Same \/ \E v \in Value : Register!Commit(v)
  <2>1. CASE recovering   BY <1>4, <2>1 DEF Replace
  <2>2. CASE ~recovering
    <3>1. Register!Commit(val)   BY <1>4, <2>2 DEF Replace, Register!Commit
    <3> QED   BY <1>4, <3>1 DEF Replace
  <2> QED   BY <2>1, <2>2
<1>5. ASSUME RemoveState PROVE Register!Clear
    BY <1>5 DEF RemoveState, Register!Clear
<1>6. ASSUME Damage PROVE Register!Damage
    BY <1>6 DEF Damage, Register!Damage
<1> QED
    BY <1>1, <1>2, <1>3, <1>4, <1>5, <1>6 DEF Next, Register!Next

\* The files, with every system call a step and a crash between any two, implement
\* the register, whatever the contracts are and however often it crashes.
THEOREM StoreImplementsRegister == Spec => ImplementsRegister
<1>1. Init => Register!Init   BY InitRegister
<1>2. IInv /\ [Next]_vars => [Register!Next]_Register!vars
    BY NextRegister DEF Register!vars
<1> QED
    BY <1>1, <1>2, StoreInvariant, PTL DEF Spec, ImplementsRegister, Register!Spec
=============================================================================
