----------------------------- MODULE Gates_proofs -----------------------------
(***************************************************************************)
(* What the gates promise for any cards, any workers and any number of     *)
(* commands: the orchestrator commits only what is declared and owned, a   *)
(* no-change success has proof or a claim of an earlier command behind it, *)
(* the patch of a plan reaches the reviewer in scope, a card is opened     *)
(* exactly when its dependencies allow it, and the cards are worked on in  *)
(* the order of their dependencies.                                        *)
(***************************************************************************)
EXTENDS Gates, TLAPS, WellFoundedInduction, SequenceTheorems, FiniteSetTheorems

-----------------------------------------------------------------------------
(* The least and the greatest of some numbers.                             *)

Less == {ss \in Nat \X Nat : ss[1] < ss[2]}

LEMMA HasLeast ==
    ASSUME NEW S, S \subseteq Nat, S # {}
    PROVE  \E n \in S : \A m \in S : n <= m
<1>1. IsWellFoundedOn(Less, Nat)
    BY NatLessThanWellFounded DEF OpToRel, Less
<1>2. PICK n \in S : \A m \in S : ~(<<m, n>> \in Less)
    BY <1>1, WFMin, Zenon
<1>3. ASSUME NEW m \in S PROVE n <= m
    <2>1. m < n => <<m, n>> \in Less   BY DEF Less
    <2> QED   BY <2>1, <1>2
<1> QED   BY <1>3

\* Induction, for the numbers that have a property.
LEMMA AllUpTo ==
    ASSUME NEW N \in Nat, NEW P, 0 \in P, \A n \in 1..N : n - 1 \in P => n \in P
    PROVE  \A n \in 0..N : n \in P
<1> SUFFICES ASSUME (0..N) \ P # {} PROVE FALSE
    OBVIOUS
<1>1. PICK n \in (0..N) \ P : \A m \in (0..N) \ P : n <= m
    <2>1. (0..N) \ P \subseteq Nat   OBVIOUS
    <2> QED   BY <2>1, HasLeast, Zenon
<1>2. n \in 1..N /\ n - 1 \in 0..N
    OBVIOUS
<1>3. n - 1 \in P
    BY <1>1, <1>2
<1> QED   BY <1>2, <1>3

\* A function over 0..N, each value of which is a step from the one before, exists.
IsRun(g, N, base, step) == g = [n \in 0..N |-> IF n = 0 THEN base ELSE step[g[n - 1]]]

LEMMA RunExists ==
    ASSUME NEW N \in Nat, NEW base, NEW step
    PROVE  \E g : IsRun(g, N, base, step)
<1> DEFINE P == {n \in Nat : \E g : IsRun(g, n, base, step)}
<1>1. 0 \in P
    <2> DEFINE h == [i \in 0..0 |-> base]
    <2>1. IsRun(h, 0, base, step)   BY DEF IsRun
    <2> HIDE DEF h
    <2> QED   BY <2>1
<1>2. ASSUME NEW n \in 1..N, n - 1 \in P PROVE n \in P
    <2>1. PICK g : IsRun(g, n - 1, base, step)   BY <1>2
    <2> DEFINE h == [i \in 0..n |-> IF i = 0 THEN base ELSE step[g[i - 1]]]
    <2>2. \A i \in 0..n - 1 : h[i] = g[i]
        BY <2>1 DEF IsRun
    <2>3. \A i \in 0..n : i # 0 => i - 1 \in 0..n - 1
        OBVIOUS
    <2>4. h = [i \in 0..n |-> IF i = 0 THEN base ELSE step[h[i - 1]]]
        BY <2>2, <2>3
    <2> HIDE DEF h
    <2>5. IsRun(h, n, base, step)   BY <2>4 DEF IsRun
    <2> QED   BY <2>5
<1> HIDE DEF P
<1>3. N \in P   BY <1>1, <1>2, AllUpTo
<1> QED   BY <1>3 DEF P

LEMMA HasGreatest ==
    ASSUME NEW n \in Nat, NEW S, S \subseteq 0..n, S # {}
    PROVE  \E x \in S : \A y \in S : x >= y
<1> DEFINE T == {m \in 0..n : n - m \in S}
<1>1. ASSUME NEW x \in S PROVE n - x \in T
    <2>1. x \in 0..n   OBVIOUS
    <2>2. n - x \in 0..n /\ n - (n - x) = x   BY <2>1
    <2> QED   BY <2>2
<1>2. T \subseteq Nat /\ T # {}
    <2>1. PICK x \in S : TRUE   OBVIOUS
    <2>2. n - x \in T   BY <1>1
    <2>3. T \subseteq Nat   OBVIOUS
    <2> QED   BY <2>2, <2>3, Zenon
<1>3. PICK t \in T : \A u \in T : t <= u
    BY <1>2, HasLeast
<1>4. ASSUME NEW y \in S PROVE n - t >= y
    <2>1. t <= n - y   BY <1>1, <1>3
    <2>2. y \in 0..n /\ t \in 0..n   OBVIOUS
    <2> QED   BY <2>1, <2>2
<1> QED   BY <1>4

-----------------------------------------------------------------------------
(* Paths.                                                                  *)

IsBare(p) == p = <<>> \/ Last(p) # Slash

LEMMA TrimmedIsBare ==
    ASSUME NEW p \in Seq(Segment), NEW cut \in 0..Len(p), cut = 0 \/ p[cut] # Slash,
           NEW q, q = SubSeq(p, 1, cut)
    PROVE  IsBare(q) /\ (Len(q) > 1 => IsBare(Tail(q)))
<1>1. Len(p) \in Nat /\ cut \in Nat
    BY LenProperties
<1>2. \A i \in 1..cut : p[i] \in Segment
    BY <1>1, ElementOfSeq
<1>3. q \in Seq(Segment) /\ Len(q) = cut /\ \A i \in 1..cut : q[i] = p[i]
    BY <1>1, <1>2, SubSeqProperties
<1>4. CASE cut = 0
    BY <1>3, <1>4, EmptySeq DEF IsBare
<1>5. CASE cut # 0
    <2>1. Last(q) # Slash
        BY <1>1, <1>3, <1>5 DEF Last
    <2>2. ASSUME cut > 1 PROVE Last(Tail(q)) # Slash
        <3>1. q # <<>>   BY <1>3, <2>2, EmptySeq
        <3>2. Len(Tail(q)) = cut - 1 /\ \A i \in 1..cut - 1 : Tail(q)[i] = q[i + 1]
            BY <1>3, <3>1, HeadTailProperties
        <3>3. Tail(q)[cut - 1] = p[cut]
            BY <1>1, <1>3, <2>2, <3>2
        <3> QED   BY <1>5, <3>2, <3>3 DEF Last
    <2> QED   BY <1>3, <2>1, <2>2 DEF IsBare
<1> QED   BY <1>4, <1>5

\* _normalize_declared_path leaves no slash at the end.
LEMMA DeclaredIsBare ==
    ASSUME NEW p \in Path
    PROVE  IsBare(DeclaredForm(p))
<1> DEFINE I == {i \in 1..Len(p) : p[i] # Slash}
           cut == IF I # {} THEN Max(I) ELSE 0
           q == SubSeq(p, 1, cut)
<1>1. p \in Seq(Segment) /\ Len(p) \in Nat
    BY LenProperties DEF Path
<1>2. DeclaredForm(p) = IF Len(q) > 1 /\ Head(q) = "." THEN Tail(q) ELSE q
    BY Zenon DEF DeclaredForm, SelectLastInSeq
<1>3. cut \in 0..Len(p) /\ (cut = 0 \/ p[cut] # Slash)
    <2>1. CASE I = {}
        BY <1>1, <2>1
    <2>2. CASE I # {}
        <3>1. I \subseteq 0..Len(p)   BY <1>1
        <3>2. \E x \in I : \A y \in I : x >= y
            BY <1>1, <2>2, <3>1, HasGreatest, Zenon
        <3>3. cut \in I   BY <2>2, <3>2, Zenon DEF Max
        <3> QED   BY <1>1, <3>3
    <2> QED   BY <2>1, <2>2
<1> HIDE DEF cut
<1>4. IsBare(q) /\ (Len(q) > 1 => IsBare(Tail(q)))
    BY <1>1, <1>3, TrimmedIsBare
<1> QED   BY <1>2, <1>4, Zenon

LEMMA SlashIsNotBare ==
    ASSUME NEW p \in Seq(Segment)
    PROVE  ~IsBare(Append(p, Slash))
<1>1. Slash \in Segment
    BY DEF Segment
<1>2. Len(Append(p, Slash)) = Len(p) + 1
    BY <1>1
<1>3. Append(p, Slash) # <<>> /\ Append(p, Slash)[Len(p) + 1] = Slash
    BY <1>1, AppendProperties
<1> QED   BY <1>2, <1>3 DEF IsBare, Last

LEMMA TopmostIsThere ==
    ASSUME NEW U, U \subseteq Seq(Segment), U # {}
    PROVE  Topmost(U) \in U
<1> DEFINE L == {n \in Nat : \E e \in U : n = Len(e)}
<1>1. \A e \in U : Len(e) \in Nat
    BY LenProperties
<1>2. L \subseteq Nat /\ L # {}
    <2>1. PICK e \in U : TRUE   OBVIOUS
    <2>2. Len(e) \in L   BY <1>1
    <2> QED   BY <2>2
<1>3. PICK n \in L : \A m \in L : n <= m
    BY <1>2, HasLeast, Zenon
<1>4. PICK x \in U : n = Len(x)
    OBVIOUS
<1>5. \A e \in U : Len(x) <= Len(e)
    BY <1>1, <1>3, <1>4
<1> QED   BY <1>5, Zenon DEF Topmost

LEMMA DirsArePaths ==
    ASSUME NEW d \in Dirty
    PROVE  UnknownDirs(d.path) \subseteq Seq(Segment)
<1>1. d.path \in Seq(Segment) /\ Len(d.path) \in Nat
    BY LenProperties DEF Dirty, Path
<1>2. ASSUME NEW n \in 1..Len(d.path) - 1 PROVE SubSeq(d.path, 1, n) \in Seq(Segment)
    <2>1. n \in Nat /\ \A i \in 1..n : d.path[i] \in Segment
        BY <1>1, ElementOfSeq
    <2> QED   BY <2>1, SubSeqProperties
<1> QED   BY <1>2 DEF UnknownDirs

\* git lists a path as it is, unless it is in a directory it does not know; that
\* one is listed with a slash.
LEMMA ListedIsBare ==
    ASSUME NEW d \in Dirty, IsBare(Listed(d))
    PROVE  Listed(d) = d.path
<1> DEFINE U == UnknownDirs(d.path)
<1>1. CASE U = {}
    BY <1>1 DEF Listed
<1>2. CASE U # {}
    <2>1. ~IsBare(Append(Topmost(U), Slash))
        BY <1>2, DirsArePaths, TopmostIsThere, SlashIsNotBare
    <2> QED   BY <2>1 DEF Listed
<1> QED   BY <1>1, <1>2

-----------------------------------------------------------------------------
(* Types.                                                                  *)

\* A command that runs has a number, and its round one.
Counts == pc # "idle" => run \in 1..MaxRuns /\ round \in 1..MaxRounds

TypeInv == TypeOK /\ Counts

LEMMA CardType ==
    ASSUME TypeInv, NEW f \in File
    PROVE  Cards[f].id \in Id
  BY WorldsAssumption DEF TypeInv, TypeOK, Cards

LEMMA LeavesType ==
    ASSUME TypeInv, NEW w \in world.works
    PROVE  w.leaves \subseteq Dirty /\ w.declared \subseteq Path
  BY WorldsAssumption DEF TypeInv, TypeOK

LEMMA AgentType ==
    ASSUME TypeInv, NEW w \in world.works, AgentWrites(w)
    PROVE  dirt' \subseteq Dirty
  BY LeavesType DEF TypeInv, TypeOK, AgentWrites

LEMMA StagedType ==
    ASSUME TypeInv, NEW wl
    PROVE  Staged(dirt, wl) \subseteq Dirty /\ LeftBehind(dirt, wl) \subseteq Dirty
<1>1. ASSUME NEW d \in Dirty PROVE [d EXCEPT !.kind = "staged"] \in Dirty
    BY DEF Dirty
<1> QED   BY <1>1 DEF Staged, LeftBehind, TypeInv, TypeOK

LEMMA RejectedType ==
    ASSUME TypeInv, pc # "idle", Rejected
    PROVE  archive' \in [Id -> [1..MaxRounds -> Archived \cup {None}]]
<1>1. [run |-> run, changed |-> work.declared # {}] \in Archived
    BY DEF Archived, TypeInv, Counts
<1> QED   BY <1>1 DEF Rejected, TypeInv, TypeOK

LEMMA ReportType ==
    ASSUME TypeInv, NEW t \in Id, NEW r \in 1..MaxRounds, archive[t][r] # None
    PROVE  archive[t][r].run \in Nat
<1>1. archive[t][r] \in Archived
    BY DEF TypeInv, TypeOK
<1> QED   BY <1>1, BoundsAssumption DEF Archived

LEMMA InitTypeInv == Init => TypeInv
  BY BoundsAssumption DEF Init, TypeInv, TypeOK, Counts, Statuses

LEMMA NextTypeInv == TypeInv /\ [Next]_vars => TypeInv'
<1> SUFFICES ASSUME TypeInv, [Next]_vars PROVE TypeInv'
    OBVIOUS
<1> USE BoundsAssumption DEF TypeInv, TypeOK, Counts
<1>1. ASSUME NEW f \in File, Start(f) PROVE TypeInv'
    BY <1>1, WorldsAssumption DEF Start, MayStart, Statuses
<1>2. ASSUME NEW f \in File, Refuse(f) PROVE TypeInv'
    BY <1>2, WorldsAssumption DEF Refuse, MayStart, Statuses
<1>3. ASSUME NEW w \in world.works, Work(w) PROVE TypeInv'
    BY <1>3, AgentType, CardType DEF Work, Card
<1>4. ASSUME NEW w \in world.works, WorkerFails(w) PROVE TypeInv'
    BY <1>4, AgentType DEF WorkerFails, Close, Statuses
<1>5. CASE CommitForWorker
    BY <1>5, StagedType DEF CommitForWorker, CommitAll, OuterCommits
<1>6. CASE CommitFails
    BY <1>6, StagedType DEF CommitFails, CommitAll, OuterCommits
<1>7. CASE NoChangeSuccess
    BY <1>7 DEF NoChangeSuccess, NothingCommitted, Close, Statuses
<1>8. CASE NoChangeFailure
    BY <1>8 DEF NoChangeFailure, NothingCommitted, Close, Statuses
<1>9. CASE ToReview
    BY <1>9 DEF ToReview, Changed
<1>10. CASE PatchViolation
    BY <1>10 DEF PatchViolation, Changed, Close, Statuses
<1>11. CASE Approve
    BY <1>11 DEF Approve, Close, Statuses
<1>12. CASE ChangesRequired
    BY <1>12, RejectedType, WorldsAssumption DEF ChangesRequired, RoundsLeft
<1>13. CASE Exhausted
    BY <1>13, RejectedType DEF Exhausted, Close, Statuses
<1>14. CASE UNCHANGED vars
    BY <1>14 DEF vars
<1> QED
    BY <1>1, <1>2, <1>3, <1>4, <1>5, <1>6, <1>7, <1>8, <1>9, <1>10, <1>11, <1>12, <1>13, <1>14
       DEF Next

-----------------------------------------------------------------------------
(* No change.                                                              *)

\* What the archive says of a task was claimed in a command before, or in this one.
ReportsAreClaims ==
    \A t \in Id, r \in 1..MaxRounds : archive[t][r] # None =>
        /\ archive[t][r].run <= run
        /\ archive[t][r].changed => archive[t][r].run \in claimed[t]

WorkIsClaimed ==
    pc \notin {"idle", "work"} /\ work.declared # {} => run \in claimed[Card.id]

PassedType == passed # None => passed.task \in Id

EvidenceInv ==
    TypeInv /\ ReportsAreClaims /\ WorkIsClaimed /\ PassedType /\ NoChangeIsBacked

\* Claims are kept, and nothing is archived under the number of a command to come.
LEMMA EvidenceStays ==
    ASSUME EvidenceInv, TypeInv', world' = world, passed' = passed, run' \in Nat, run <= run',
           \A t \in Id : claimed[t] \subseteq claimed'[t]
    PROVE  NoChangeIsBacked' /\ PassedType'
           /\ (archive' = archive => ReportsAreClaims')
<1> USE DEF EvidenceInv
<1>1. NoChangeIsBacked' /\ PassedType'
    BY DEF NoChangeIsBacked, PassedType
<1>2. ASSUME archive' = archive PROVE ReportsAreClaims'
    <2> SUFFICES ASSUME NEW t \in Id, NEW r \in 1..MaxRounds, archive[t][r] # None
                 PROVE  /\ archive[t][r].run <= run'
                        /\ archive[t][r].changed => archive[t][r].run \in claimed'[t]
        BY <1>2 DEF ReportsAreClaims
    <2>1. archive[t][r].run \in Nat /\ run \in Nat
        BY ReportType DEF TypeInv, TypeOK
    <2> QED   BY <2>1 DEF ReportsAreClaims
<1> QED   BY <1>1, <1>2

\* The rejected report of this round.
LEMMA EvidenceOfRejected ==
    ASSUME EvidenceInv, TypeInv', Rejected, pc = "review",
           world' = world, passed' = passed, run' = run, claimed' = claimed
    PROVE  NoChangeIsBacked' /\ PassedType' /\ ReportsAreClaims'
<1>1. run \in Nat /\ at \in File /\ Card.id \in Id
    BY CardType DEF EvidenceInv, TypeInv, TypeOK, Card
<1>2. NoChangeIsBacked' /\ PassedType'
    BY <1>1, EvidenceStays
<1>3. ASSUME NEW t \in Id, NEW r \in 1..MaxRounds, archive'[t][r] # None
      PROVE  /\ archive'[t][r].run <= run
             /\ archive'[t][r].changed => archive'[t][r].run \in claimed[t]
    <2> DEFINE report == [run |-> run, changed |-> work.declared # {}]
    <2>1. archive'[t][r] = archive[t][r] \/ (t = Card.id /\ archive'[t][r] = report)
        BY <1>1 DEF Rejected, EvidenceInv, TypeInv, TypeOK
    <2>2. CASE archive'[t][r] = archive[t][r]
        BY <1>3, <2>2 DEF EvidenceInv, ReportsAreClaims
    <2>3. CASE t = Card.id /\ archive'[t][r] = report
        <3>1. archive'[t][r].run = run   BY <2>3
        <3>2. report.changed = (work.declared # {})   OBVIOUS
        <3>3. work.declared # {} => run \in claimed[t]
            BY <2>3 DEF EvidenceInv, WorkIsClaimed
        <3>4. archive'[t][r].changed => run \in claimed[t]
            <4> HIDE DEF report
            <4> QED   BY <2>3, <3>2, <3>3, Zenon
        <3> QED   BY <1>1, <3>1, <3>4
    <2> QED   BY <2>1, <2>2, <2>3
<1> QED   BY <1>2, <1>3 DEF ReportsAreClaims

\* Evidence of history is of a command before this one.
LEMMA HistoryIsOlder ==
    ASSUME EvidenceInv, pc # "idle", HistoryBacks
    PROVE  \E r \in claimed[Card.id] : r < run
<1>1. run \in Nat /\ Card.id \in Id
    BY CardType DEF EvidenceInv, TypeInv, TypeOK, Card
<1>2. PICK n \in 1..MaxRounds : /\ archive[Card.id][n] # None
                                /\ archive[Card.id][n].run # run
                                /\ archive[Card.id][n].changed
    BY DEF HistoryBacks, Loaded, CrossRun
<1>3. archive[Card.id][n].run \in Nat
    BY <1>1, <1>2, ReportType DEF EvidenceInv
<1>4. archive[Card.id][n].run <= run /\ archive[Card.id][n].run \in claimed[Card.id]
    BY <1>1, <1>2 DEF EvidenceInv, ReportsAreClaims
<1> QED   BY <1>1, <1>2, <1>3, <1>4

LEMMA NextEvidence == EvidenceInv /\ [Next]_vars => EvidenceInv'
<1> SUFFICES ASSUME EvidenceInv, [Next]_vars PROVE EvidenceInv'
    OBVIOUS
<1>0. TypeInv' /\ run \in Nat
    BY NextTypeInv DEF EvidenceInv, TypeInv, TypeOK
<1> USE DEF EvidenceInv
<1>1. ASSUME NEW f \in File, Start(f) PROVE EvidenceInv'
    <2>1. run' = run + 1 /\ archive' = archive /\ claimed' = claimed /\ passed' = None
        BY <1>1 DEF Start
    <2>2. ReportsAreClaims'
        BY <1>0, <2>1, ReportType DEF ReportsAreClaims
    <2> QED   BY <1>0, <1>1, <2>1, <2>2 DEF Start, WorkIsClaimed, PassedType, NoChangeIsBacked
<1>2. ASSUME NEW f \in File, Refuse(f) PROVE EvidenceInv'
    BY <1>0, <1>2, EvidenceStays DEF Refuse, MayStart, WorkIsClaimed
<1>3. ASSUME NEW w \in world.works, Work(w) PROVE EvidenceInv'
    <2>1. Card.id \in Id /\ Card' = Card
        BY <1>3, CardType DEF Work, Card, Cards, TypeInv, TypeOK
    <2>2. \A t \in Id : claimed[t] \subseteq claimed'[t]
        BY <1>3, <2>1 DEF Work, TypeInv, TypeOK
    <2>3. work'.declared # {} => run \in claimed'[Card.id]
        BY <1>3, <2>1 DEF Work, TypeInv, TypeOK
    <2>4. NoChangeIsBacked' /\ PassedType' /\ ReportsAreClaims'
        BY <1>0, <1>3, <2>2, EvidenceStays DEF Work
    <2> QED   BY <1>0, <1>3, <2>1, <2>3, <2>4 DEF Work, WorkIsClaimed
<1>4. ASSUME NEW w \in world.works, WorkerFails(w) PROVE EvidenceInv'
    BY <1>0, <1>4, EvidenceStays DEF WorkerFails, Close, WorkIsClaimed
<1>5. CASE CommitForWorker
    BY <1>0, <1>5, EvidenceStays DEF CommitForWorker, OuterCommits, WorkIsClaimed, Card, Cards
<1>6. CASE CommitFails
    BY <1>0, <1>6, EvidenceStays DEF CommitFails, OuterCommits, WorkIsClaimed, Card, Cards
<1>7. CASE NoChangeSuccess
    <2>1. pc # "idle" /\ pc' = "idle" /\ run' = run /\ archive' = archive /\ claimed' = claimed
          /\ world' = world /\ passed' = [task |-> Card.id, run |-> run, proved |-> WorkBacks]
        BY <1>7 DEF NoChangeSuccess, NothingCommitted, Close
    <2>2. Card.id \in Id
        BY <2>1, CardType DEF Card, TypeInv, TypeOK
    <2>3. ReportsAreClaims' /\ WorkIsClaimed' /\ PassedType'
        BY <2>1, <2>2 DEF ReportsAreClaims, WorkIsClaimed, PassedType
    <2>4. world.asError => WorkBacks \/ \E r \in claimed[Card.id] : r < run
        BY <1>7, <2>1, HistoryIsOlder DEF NoChangeSuccess
    <2>5. NoChangeIsBacked'
        BY <2>1, <2>4 DEF NoChangeIsBacked
    <2> QED   BY <1>0, <2>3, <2>5
<1>8. CASE NoChangeFailure
    BY <1>0, <1>8, EvidenceStays DEF NoChangeFailure, Close, WorkIsClaimed
<1>9. CASE ToReview
    BY <1>0, <1>9, EvidenceStays DEF ToReview, Changed, WorkIsClaimed, Card, Cards
<1>10. CASE PatchViolation
    BY <1>0, <1>10, EvidenceStays DEF PatchViolation, Close, WorkIsClaimed
<1>11. CASE Approve
    BY <1>0, <1>11, EvidenceStays DEF Approve, Close, WorkIsClaimed
<1>12. CASE ChangesRequired
    BY <1>0, <1>12, EvidenceOfRejected DEF ChangesRequired, WorkIsClaimed
<1>13. CASE Exhausted
    BY <1>0, <1>13, EvidenceOfRejected DEF Exhausted, Close, WorkIsClaimed
<1>14. CASE UNCHANGED vars
    BY <1>0, <1>14, EvidenceStays DEF vars, WorkIsClaimed, Card, Cards
<1> QED
    BY <1>1, <1>2, <1>3, <1>4, <1>5, <1>6, <1>7, <1>8, <1>9, <1>10, <1>11, <1>12, <1>13, <1>14
       DEF Next

\* A no-change success where it is an error has proof of its round or the claim of
\* an earlier command for that task behind it, for any cards, workers and number of
\* commands.  (_single_round_handle_worker_noop)
THEOREM NoChangeBacked == Spec => []NoChangeIsBacked
<1>1. Init => EvidenceInv
    BY InitTypeInv DEF Init, EvidenceInv, ReportsAreClaims, WorkIsClaimed, PassedType,
                       NoChangeIsBacked
<1>2. EvidenceInv => NoChangeIsBacked
    BY DEF EvidenceInv
<1> QED   BY <1>1, <1>2, NextEvidence, PTL DEF Spec

-----------------------------------------------------------------------------
(* The outer commit.                                                       *)

\* What is tracked and not the loop's own was listed under its own name, owned and
\* declared: if it had been staged before, it would be overreach otherwise.
LEMMA CommittedIsOwned ==
    ASSUME NEW ds \in SUBSET Dirty, NEW wl, NEW declared \in SUBSET Path,
           CommitsForWorker(ds, wl, declared), NEW e \in OuterCommit(ds, wl), ~InBus(e.path)
    PROVE  In(e.path, wl) /\ e.path \in {DeclaredForm(q) : q \in declared}
<1> DEFINE fc == {DeclaredForm(q) : q \in declared}
<1>1. PICK d \in ds : d.path = e.path /\ (d \in DirtyIn(ds, wl) \/ d.kind = "staged")
    <2>1. e.kind = "staged"
        BY DEF OuterCommit
    <2>2. PICK d \in ds : e = IF d \in DirtyIn(ds, wl) THEN [d EXCEPT !.kind = "staged"] ELSE d
        BY DEF OuterCommit, Staged
    <2>3. CASE d \in DirtyIn(ds, wl)
        <3>1. d \in Dirty   OBVIOUS
        <3>2. e = [d EXCEPT !.kind = "staged"]   BY <2>2, <2>3
        <3>3. e.path = d.path   BY <3>1, <3>2 DEF Dirty
        <3> QED   BY <2>3, <3>3
    <2>4. CASE d \notin DirtyIn(ds, wl)
        BY <2>1, <2>2, <2>4
    <2> QED   BY <2>3, <2>4
<1>2. d \in DirtyIn(ds, wl)
    <2>1. CASE d.kind = "staged"
        <3>1. Listed(d) = e.path   BY <1>1, <2>1 DEF Listed
        <3>2. d \in Seen(ds)   BY <3>1 DEF Seen
        <3>3. d \in Tracked(ds)   BY <2>1, <3>2 DEF Tracked
        <3>4. d \notin DirtyOut(ds, wl)   BY DEF CommitsForWorker, NoOverreach
        <3> QED   BY <3>2, <3>3, <3>4 DEF DirtyOut, DirtyIn
    <2> QED   BY <1>1, <2>1
<1>3. In(Listed(d), wl) /\ Listed(d) \in fc
    BY <1>2 DEF CommitsForWorker, DirtyIn
<1>4. IsBare(Listed(d))
    BY <1>3, DeclaredIsBare
<1>5. Listed(d) = e.path
    BY <1>1, <1>4, ListedIsBare
<1> QED   BY <1>3, <1>5

OuterInv == TypeInv /\ OuterCommitIsOwned

LEMMA NextOuter == OuterInv /\ [Next]_vars => OuterInv'
<1> SUFFICES ASSUME OuterInv, [Next]_vars PROVE OuterCommitIsOwned'
    BY NextTypeInv DEF OuterInv
<1> USE DEF OuterInv
<1>1. ASSUME OuterCommits, CommitAll, world' = world PROVE OuterCommitIsOwned'
    <2>1. dirt \subseteq Dirty /\ work.declared \subseteq Path
        BY <1>1, LeavesType DEF OuterCommits, TypeInv, TypeOK
    <2>2. \A e \in OuterCommit(dirt, Owned) : ~InBus(e.path) =>
              In(e.path, Owned) /\ e.path \in {DeclaredForm(q) : q \in work.declared}
        BY <1>1, <2>1, CommittedIsOwned DEF OuterCommits
    <2>3. made' = [entries |-> OuterCommit(dirt, Owned), card |-> at, declared |-> work.declared]
        BY <1>1 DEF CommitAll
    <2>4. made'.entries = OuterCommit(dirt, Owned) /\ made'.declared = work.declared
          /\ Whitelist(Cards'[made'.card]) = Owned
        BY <1>1, <2>3 DEF Owned, Card, Cards
    <2> QED   BY <2>2, <2>4 DEF OuterCommitIsOwned
<1>2. ASSUME world' = world, made' = made \/ made' = None PROVE OuterCommitIsOwned'
    BY <1>2 DEF OuterCommitIsOwned, Cards
<1>3. CASE CommitForWorker
    BY <1>1, <1>3 DEF CommitForWorker
<1>4. CASE CommitFails
    BY <1>1, <1>2, <1>4 DEF CommitFails
<1>5. CASE ~CommitForWorker /\ ~CommitFails
    <2>1. world' = world /\ (made' = made \/ made' = None)
        BY <1>5 DEF Next, vars, Start, Refuse, Work, WorkerFails, NoChangeSuccess,
                    NoChangeFailure, ToReview, PatchViolation, Approve, ChangesRequired,
                    Exhausted, Close
    <2> QED   BY <1>2, <2>1
<1> QED   BY <1>3, <1>4, <1>5

\* What the orchestrator commits in the worker's name is declared by the worker and
\* owned by the card, or the loop's own, for any tree, with renames, that an earlier
\* card or a failed commit left behind; of a rename it is the new name that is.
\* (_try_outer_commit_fallback)
THEOREM OuterCommitOwned == Spec => []OuterCommitIsOwned
<1>1. Init => OuterInv
    BY InitTypeInv DEF Init, OuterInv, OuterCommitIsOwned
<1>2. OuterInv => OuterCommitIsOwned
    BY DEF OuterInv
<1> QED   BY <1>1, <1>2, NextOuter, PTL DEF Spec

-----------------------------------------------------------------------------
(* The patch of a plan.                                                    *)

PatchInv == TypeInv /\ PatchStaysInScope

\* What one line of `git status` stands for.
LEMMA LineIsAllowed ==
    ASSUME TypeInv, NEW d \in dirt, NEW files, Line(d) \in files
    PROVE  IF IsRename(d) THEN Line(d) \in files
           ELSE d.path \in files \/ DirectoryIsAllowed(d, files)
<1> DEFINE U == UnknownDirs(d.path)
<1>1. CASE IsRename(d)
    BY <1>1
<1>2. CASE ~IsRename(d) /\ ~(d.kind = "new" /\ U # {})
    BY <1>2 DEF Line, Listed
<1>3. CASE ~IsRename(d) /\ d.kind = "new" /\ U # {}
    <2>1. Append(Topmost(U), Slash) \in files
        BY <1>3 DEF Line, Listed
    <2>2. U \subseteq Seq(Segment)
        BY DirsArePaths DEF TypeInv, TypeOK
    <2>3. PICK n \in 1..Len(d.path) - 1 : Topmost(U) = SubSeq(d.path, 1, n)
        BY <1>3, <2>2, TopmostIsThere DEF UnknownDirs
    <2> QED   BY <1>3, <2>1, <2>3 DEF DirectoryIsAllowed
<1> QED   BY <1>1, <1>2, <1>3

\* What the gate lets through, up to the commit that was reported.
PatchIsIn(files) ==
    /\ head # None => \A i \in 1..head : \A p \in DOMAIN log[i].touches :
           p \in files \/ \E j \in i + 1..head : p \in log[j].gone
    /\ \A d \in dirt : IF IsRename(d) THEN Line(d) \in files
                      ELSE d.path \in files \/ DirectoryIsAllowed(d, files)

LEMMA HoldsIsInScope ==
    ASSUME TypeInv, Card.patch # None, PatchHolds
    PROVE  PatchIsIn(Card.patch.files)
<1>1. DOMAIN Diff \cup {Line(d) : d \in dirt} \subseteq Card.patch.files
    BY DEF PatchHolds, PatchIsInScope, PatchedFiles
<1>2. ASSUME head # None, NEW i \in 1..head, NEW p \in DOMAIN log[i].touches,
             ~ \E j \in i + 1..head : p \in log[j].gone
      PROVE  p \in Card.patch.files
    <2>1. p \in Names(i, head)   BY <1>2 DEF Names
    <2>2. p \in DOMAIN Between(head)   BY <2>1 DEF Between
    <2> QED   BY <1>1, <1>2, <2>2 DEF Diff
<1>3. ASSUME NEW d \in dirt
      PROVE  IF IsRename(d) THEN Line(d) \in Card.patch.files
             ELSE d.path \in Card.patch.files \/ DirectoryIsAllowed(d, Card.patch.files)
    BY <1>1, LineIsAllowed
<1> QED   BY <1>2, <1>3 DEF PatchIsIn

LEMMA NextPatch == PatchInv /\ [Next]_vars => PatchInv'
<1> SUFFICES ASSUME PatchInv, [Next]_vars PROVE PatchStaysInScope'
    BY NextTypeInv DEF PatchInv
<1> USE DEF PatchInv
<1>1. CASE ToReview
    <2>1. Card' = Card /\ log' = log /\ head' = head /\ dirt' = dirt
        BY <1>1 DEF ToReview, Card, Cards
    <2>2. Card.patch # None => PatchIsIn(Card.patch.files)
        BY <1>1, HoldsIsInScope DEF ToReview
    <2> QED   BY <2>1, <2>2 DEF PatchStaysInScope, PatchIsIn
<1>2. CASE ~ToReview
    <2>1. pc' # "review" \/ UNCHANGED <<pc, world, at, log, head, dirt>>
        BY <1>2 DEF Next, vars, Start, Refuse, MayStart, Work, WorkerFails, CommitForWorker,
                    CommitFails, NoChangeSuccess, NoChangeFailure, PatchViolation, Approve,
                    ChangesRequired, Exhausted, Close
    <2> QED   BY <2>1 DEF PatchStaysInScope, Card, Cards
<1> QED   BY <1>1, <1>2

\* When a plan's patch reaches the reviewer, all commits of the run up to the one that
\* was reported touch the card's files alone, and so does what lies uncommitted about,
\* for any cards, workers, rounds and reported commits.  (_verify_plan_patch_scope)
THEOREM PatchInScope == Spec => []PatchStaysInScope
<1>1. Init => PatchInv
    BY InitTypeInv DEF Init, PatchInv, PatchStaysInScope
<1>2. PatchInv => PatchStaysInScope
    BY DEF PatchInv
<1> QED   BY <1>1, <1>2, NextPatch, PTL DEF Spec

-----------------------------------------------------------------------------
(* The search for a cycle.                                                 *)

LEMMA PushPath ==
    ASSUME NEW V, NEW p \in Seq(V), NEW d \in V
    PROVE  /\ Append(p, d) \in Seq(V) /\ Len(Append(p, d)) = Len(p) + 1
           /\ \A i \in 1..Len(p) : Append(p, d)[i] = p[i]
           /\ Append(p, d)[Len(p) + 1] = d
           /\ ToSet(Append(p, d)) = ToSet(p) \cup {d}
<1>1. Len(p) \in Nat /\ DOMAIN p = 1..Len(p)   BY LenProperties
<1>2. /\ Append(p, d) \in Seq(V) /\ Len(Append(p, d)) = Len(p) + 1
      /\ \A i \in 1..Len(p) : Append(p, d)[i] = p[i]
      /\ Append(p, d)[Len(p) + 1] = d
    BY AppendProperties
<1>3. DOMAIN Append(p, d) = 1..Len(p) + 1   BY <1>2, LenProperties
<1> DEFINE q == Append(p, d)
<1> HIDE DEF q
<1>4. {q[i] : i \in 1..Len(p) + 1} = {p[i] : i \in 1..Len(p)} \cup {d}
    BY <1>1, <1>2 DEF q
<1> QED   BY <1>1, <1>2, <1>3, <1>4 DEF ToSet, q

LEMMA PopPath ==
    ASSUME NEW V, NEW p \in Seq(V), p # <<>>
    PROVE  /\ Front(p) \in Seq(V) /\ Len(p) \in Nat \ {0} /\ Len(Front(p)) = Len(p) - 1
           /\ \A i \in 1..Len(p) - 1 : Front(p)[i] = p[i]
           /\ Last(p) = p[Len(p)] /\ Last(p) \in V
           /\ ToSet(p) = ToSet(Front(p)) \cup {Last(p)}
<1>1. Len(p) \in Nat \ {0} /\ DOMAIN p = 1..Len(p)   BY LenProperties, EmptySeq
<1>2. \A i \in 1..Len(p) : p[i] \in V   BY ElementOfSeq
<1>3. \A i \in 1..Len(p) - 1 : p[i] \in V   BY <1>1, <1>2
<1>4. /\ Front(p) \in Seq(V) /\ Len(Front(p)) = Len(p) - 1
      /\ \A i \in 1..Len(p) - 1 : Front(p)[i] = p[i]
    <2>1. /\ Front(p) \in Seq(V)
          /\ Len(Front(p)) = IF 1 <= Len(p) - 1 THEN Len(p) - 1 - 1 + 1 ELSE 0
          /\ \A i \in 1..Len(p) - 1 - 1 + 1 : Front(p)[i] = p[1 + i - 1]
        BY <1>1, <1>3, SubSeqProperties DEF Front
    <2>2. Len(p) - 1 - 1 + 1 = Len(p) - 1 /\ (1 > Len(p) - 1 => Len(p) - 1 = 0)
        BY <1>1
    <2>3. ASSUME NEW i \in 1..Len(p) - 1 PROVE Front(p)[i] = p[i]
        <3>1. 1 + i - 1 = i   OBVIOUS
        <3> QED   BY <2>1, <2>2, <3>1
    <2>4. Len(Front(p)) = Len(p) - 1
        <3>1. CASE 1 <= Len(p) - 1   BY <2>1, <2>2, <3>1
        <3>2. CASE 1 > Len(p) - 1
            <4>1. ~(1 <= Len(p) - 1)   BY <1>1, <3>2
            <4> QED   BY <2>1, <2>2, <3>2, <4>1
        <3>3. 1 <= Len(p) - 1 \/ 1 > Len(p) - 1
            <4> DEFINE m == Len(p)
            <4>1. m \in Nat   BY <1>1
            <4> HIDE DEF m
            <4>2. 1 <= m - 1 \/ 1 > m - 1   BY <4>1
            <4> QED   BY <4>2 DEF m
        <3> QED   BY <3>1, <3>2, <3>3, Zenon
    <2> QED   BY <2>1, <2>3, <2>4
<1>5. Last(p) = p[Len(p)] /\ Last(p) \in V   BY <1>1, <1>2 DEF Last
<1>6. DOMAIN Front(p) = 1..Len(p) - 1   BY <1>4, LenProperties
<1> DEFINE q == Front(p)
<1> HIDE DEF q
<1>7. {p[i] : i \in 1..Len(p)} = {q[i] : i \in 1..Len(p) - 1} \cup {p[Len(p)]}
    <2>1. 1..Len(p) = (1..Len(p) - 1) \cup {Len(p)}
        BY <1>1
    <2>2. \A i \in 1..Len(p) - 1 : q[i] = p[i]
        BY <1>4 DEF q
    <2>3. {p[i] : i \in 1..Len(p)} = {p[i] : i \in 1..Len(p) - 1} \cup {p[Len(p)]}
        BY <2>1, Zenon
    <2> QED   BY <2>2, <2>3
<1> QED   BY <1>1, <1>4, <1>5, <1>6, <1>7 DEF ToSet, q

\* n can be reached from what it names.
OnCycle(graph, n) ==
    \A S \in SUBSET DOMAIN graph :
        graph[n] \subseteq S /\ (\A v \in S : graph[v] \subseteq S) => n \in S

\* All that is named has a place in the graph.
IsClosed(graph) ==
    DOMAIN graph \subseteq Id /\ \A n \in DOMAIN graph : graph[n] \subseteq DOMAIN graph

SearchStates(graph) ==
    [path : Seq(DOMAIN graph), seen : SUBSET DOMAIN graph, cycle : BOOLEAN]

Through(s) == s.seen \ ToSet(s.path)

\* The path is one of the graph and no node is on it twice; what the search is
\* through with names nothing else, and has no cycle.
PathIsTrue(graph, s) ==
    /\ ToSet(s.path) \subseteq s.seen
    /\ \A i, j \in 1..Len(s.path) : s.path[i] = s.path[j] => i = j
    /\ \A i \in 1..Len(s.path) - 1 : s.path[i + 1] \in graph[s.path[i]]

SearchInv(graph, s) ==
    /\ s \in SearchStates(graph)
    /\ PathIsTrue(graph, s)
    /\ \A n \in Through(s) : graph[n] \subseteq Through(s) /\ ~OnCycle(graph, n)
    /\ s.cycle => \E n \in DOMAIN graph : OnCycle(graph, n)

Ended(graph, s) == s.cycle \/ (s.path = <<>> /\ DOMAIN graph \subseteq s.seen)

\* Each step puts a node on the path or takes one from it.
Paces(graph, n, s) ==
    Ended(graph, s) \/ Cardinality(s.seen) + Cardinality(Through(s)) > n

LEMMA PathCloses ==
    ASSUME NEW graph, NEW s, SearchInv(graph, s), s.path # <<>>,
           NEW d \in graph[Last(s.path)], d \in ToSet(s.path)
    PROVE  OnCycle(graph, d)
<1> DEFINE V == DOMAIN graph
           p == s.path
<1>1. p \in Seq(V) /\ \A i \in 1..Len(p) - 1 : p[i + 1] \in graph[p[i]]
    BY DEF SearchInv, SearchStates, PathIsTrue
<1>2. /\ Len(p) \in Nat /\ DOMAIN p = 1..Len(p) /\ Last(p) = p[Len(p)]
      /\ d \in graph[Last(p)]
    BY <1>1, LenProperties DEF Last
<1>3. PICK i : i \in 1..Len(p) /\ p[i] = d   BY <1>2 DEF ToSet
<1> HIDE DEF p, V
<1> SUFFICES ASSUME NEW S \in SUBSET V, graph[d] \subseteq S, \A v \in S : graph[v] \subseteq S
             PROVE  d \in S
    BY DEF OnCycle, V
<1>4. CASE i = Len(p)
    BY <1>2, <1>3, <1>4
<1>5. CASE i < Len(p)
    <2> DEFINE P == {k \in Nat : i + 1 + k <= Len(p) => p[i + 1 + k] \in S}
    <2>1. 0 \in P
        <3>1. p[i + 1] \in graph[p[i]]   BY <1>1, <1>2, <1>3, <1>5
        <3> QED   BY <1>3, <3>1
    <2>2. ASSUME NEW k \in 1..Len(p), k - 1 \in P PROVE k \in P
        <3> SUFFICES ASSUME i + 1 + k <= Len(p) PROVE p[i + 1 + k] \in S
            OBVIOUS
        <3>1. i + 1 + (k - 1) = i + k /\ i + k \in 1..Len(p) - 1 /\ i + k + 1 = i + 1 + k
            BY <1>2, <1>3
        <3>2. p[i + k] \in S   BY <2>2, <3>1, <1>2
        <3>3. p[i + k + 1] \in graph[p[i + k]]   BY <1>1, <3>1
        <3> QED   BY <3>1, <3>2, <3>3
    <2> HIDE DEF P
    <2>3. \A k \in 0..Len(p) : k \in P   BY <1>2, <2>1, <2>2, AllUpTo
    <2>4. Len(p) - i - 1 \in P /\ i + 1 + (Len(p) - i - 1) = Len(p)
        BY <1>2, <1>3, <1>5, <2>3
    <2>5. p[Len(p)] \in S   BY <1>2, <2>4 DEF P
    <2> QED   BY <1>2, <2>5
<1>6. i = Len(p) \/ i < Len(p)
    <2>1. Len(p) \in Nat /\ i \in 1..Len(p)   BY <1>2, <1>3, Zenon
    <2> QED   BY <2>1
<1> QED   BY <1>4, <1>5, <1>6

LEMMA BeginSearch ==
    ASSUME NEW graph, IsClosed(graph), NEW first \in DOMAIN graph
    PROVE  SearchInv(graph, Begin(first)) /\ Paces(graph, 0, Begin(first))
<1> DEFINE s == Begin(first)
<1>1. s.path = <<first>> /\ s.seen = {first} /\ s.cycle = FALSE /\ s \in SearchStates(graph)
    BY DEF Begin, SearchStates
<1>2. Len(s.path) = 1 /\ DOMAIN s.path = {1} /\ s.path[1] = first
    BY <1>1
<1>3. ToSet(s.path) = {first}   BY <1>2 DEF ToSet
<1>4. Through(s) = {}   BY <1>1, <1>3 DEF Through
<1>5. PathIsTrue(graph, s)   BY <1>1, <1>2, <1>3 DEF PathIsTrue
<1>6. Cardinality({first}) = 1 /\ Cardinality({}) = 0
    BY FS_Singleton, FS_EmptySet
<1> HIDE DEF s
<1>7. Cardinality(s.seen) + Cardinality(Through(s)) > 0   BY <1>1, <1>4, <1>6
<1>8. SearchInv(graph, s)   BY <1>1, <1>4, <1>5 DEF SearchInv
<1>9. Paces(graph, 0, s)   BY <1>7 DEF Paces
<1> QED   BY <1>8, <1>9 DEF s

\* What a node is through with when all it names is behind the search.
LEMMA LeaveNode ==
    ASSUME NEW graph, IsClosed(graph), NEW s, SearchInv(graph, s), s.path # <<>>,
           Ahead(graph, s) = {}, NEW t, t = [s EXCEPT !.path = Front(@)]
    PROVE  SearchInv(graph, t) /\ \A n \in Nat : Paces(graph, n, s) => Paces(graph, n + 1, t)
<1> DEFINE V == DOMAIN graph
           p == s.path
           q == Front(p)
           top == Last(p)
<1>1. s \in SearchStates(graph) /\ p \in Seq(V) /\ s.seen \subseteq V /\ PathIsTrue(graph, s)
    BY DEF SearchInv, SearchStates
<1>2. /\ t \in SearchStates(graph) /\ t.path = q /\ t.seen = s.seen /\ t.cycle = s.cycle
    <2>1. q \in Seq(V)   BY <1>1, PopPath
    <2> HIDE DEF q
    <2>2. t = [s EXCEPT !.path = q]   BY DEF q
    <2> QED   BY <1>1, <2>1, <2>2 DEF SearchStates
<1>3. /\ q \in Seq(V) /\ Len(p) \in Nat \ {0} /\ Len(q) = Len(p) - 1
      /\ \A i \in 1..Len(p) - 1 : q[i] = p[i]
      /\ top = p[Len(p)] /\ top \in V
      /\ ToSet(p) = ToSet(q) \cup {top}
      /\ DOMAIN q = 1..Len(q)
    BY <1>1, PopPath, LenProperties
<1> HIDE DEF q, p, top
<1>4. top \notin ToSet(q)
    <2> SUFFICES ASSUME top \in ToSet(q) PROVE FALSE
        OBVIOUS
    <2>1. PICK i : i \in 1..Len(q) /\ q[i] = top   BY <1>3 DEF ToSet
    <2>2. Len(p) \in Nat \ {0} /\ i \in 1..Len(p) - 1   BY <1>3, <2>1, Zenon
    <2>3. i \in 1..Len(p) /\ i # Len(p) /\ Len(p) \in 1..Len(p)   BY <2>2
    <2>4. p[i] = p[Len(p)]   BY <1>3, <2>1, <2>2, Zenon
    <2> QED   BY <1>1, <2>3, <2>4 DEF PathIsTrue, p
<1>5. ToSet(p) \subseteq s.seen   BY <1>1 DEF PathIsTrue, p
<1>6. Through(t) = Through(s) \cup {top} /\ top \notin Through(s)
    BY <1>2, <1>3, <1>4, <1>5 DEF Through, p
<1>7. graph[top] \subseteq Through(s)
    <2>1. \A d \in graph[top] \cap V : d \notin ToSet(p) /\ d \in s.seen
        BY DEF Ahead, Closes, p, top
    <2>2. graph[top] \subseteq V   BY <1>3 DEF IsClosed
    <2> QED   BY <2>1, <2>2 DEF Through, p
<1>8. PathIsTrue(graph, t)
    <2>1. ToSet(q) \subseteq s.seen   BY <1>3, <1>5
    <2>2. ASSUME NEW i \in 1..Len(q) PROVE i \in 1..Len(p) /\ q[i] = p[i]
        <3>1. i \in 1..Len(p) - 1 /\ Len(p) \in Nat   BY <1>3, <2>2, Zenon
        <3>2. i \in 1..Len(p)   BY <3>1
        <3> QED   BY <1>3, <3>1, <3>2
    <2>3. ASSUME NEW i \in 1..Len(q) - 1 PROVE q[i + 1] \in graph[q[i]]
        <3>1. i \in 1..Len(p) - 1 - 1 /\ Len(p) \in Nat   BY <1>3, <2>3, Zenon
        <3>2. i \in 1..Len(p) - 1 /\ i + 1 \in 1..Len(p) - 1   BY <3>1
        <3>3. q[i] = p[i] /\ q[i + 1] = p[i + 1]   BY <1>3, <3>2
        <3>4. p[i + 1] \in graph[p[i]]   BY <1>1, <3>2 DEF PathIsTrue, p
        <3> QED   BY <3>3, <3>4
    <2>4. \A i, j \in 1..Len(q) : q[i] = q[j] => i = j
        BY <1>1, <2>2 DEF PathIsTrue, p
    <2> QED   BY <1>2, <2>1, <2>3, <2>4 DEF PathIsTrue
<1>9. \A n \in Through(t) : graph[n] \subseteq Through(t) /\ ~OnCycle(graph, n)
    <2>1. \A n \in Through(s) : graph[n] \subseteq Through(s) /\ ~OnCycle(graph, n)
        BY DEF SearchInv
    <2>2. Through(s) \in SUBSET V   BY <1>1 DEF Through
    <2>3. ~OnCycle(graph, top)
        BY <1>6, <1>7, <2>1, <2>2 DEF OnCycle
    <2> QED   BY <1>6, <1>7, <2>1, <2>3
<1>10. SearchInv(graph, t)
    BY <1>2, <1>8, <1>9 DEF SearchInv
<1>11. ASSUME NEW n \in Nat, Paces(graph, n, s) PROVE Paces(graph, n + 1, t)
    <2>1. CASE Ended(graph, s)
        BY <1>2, <2>1 DEF Ended, Paces
    <2>2. CASE Cardinality(s.seen) + Cardinality(Through(s)) > n
        <3>1. IsFiniteSet(s.seen) /\ IsFiniteSet(Through(s))
            BY <1>1, FiniteAssumption, FS_Subset DEF IsClosed, Through
        <3>2. Cardinality(Through(t)) = Cardinality(Through(s)) + 1
            BY <1>6, <3>1, FS_AddElement
        <3>3. Cardinality(s.seen) \in Nat /\ Cardinality(Through(s)) \in Nat
            BY <3>1, FS_CardinalityType
        <3>4. Cardinality(t.seen) = Cardinality(s.seen)   BY <1>2
        <3> QED   BY <2>2, <3>2, <3>3, <3>4 DEF Paces
    <2> QED   BY <1>11, <2>1, <2>2 DEF Paces
<1> QED   BY <1>10, <1>11

\* A node that is put on the path has not been seen and is named by the last.
LEMMA EnterNode ==
    ASSUME NEW graph, IsClosed(graph), NEW s, SearchInv(graph, s), ~s.cycle,
           NEW d \in Ahead(graph, s), d \notin ToSet(s.path),
           NEW t, t = [s EXCEPT !.path = Append(@, d), !.seen = @ \cup {d}]
    PROVE  SearchInv(graph, t) /\ \A n \in Nat : Paces(graph, n, s) => Paces(graph, n + 1, t)
<1> DEFINE V == DOMAIN graph
           p == s.path
           q == Append(p, d)
<1>1. s \in SearchStates(graph) /\ p \in Seq(V) /\ s.seen \subseteq V /\ PathIsTrue(graph, s)
    BY DEF SearchInv, SearchStates
<1>2. d \in V /\ d \notin s.seen /\ (p # <<>> => d \in graph[Last(p)])
    BY DEF Ahead, Closes
<1>3. /\ q \in Seq(V) /\ Len(q) = Len(p) + 1 /\ \A i \in 1..Len(p) : q[i] = p[i]
      /\ q[Len(p) + 1] = d /\ ToSet(q) = ToSet(p) \cup {d}
    BY <1>1, <1>2, PushPath
<1>4. Len(p) \in Nat /\ DOMAIN p = 1..Len(p) /\ Last(p) = p[Len(p)]
    BY <1>1, LenProperties DEF Last
<1>5. t \in SearchStates(graph) /\ t.path = q /\ t.seen = s.seen \cup {d} /\ t.cycle = s.cycle
    <2> DEFINE r == s.seen \cup {d}
    <2>1. t = [s EXCEPT !.path = q, !.seen = r]   OBVIOUS
    <2>2. r \in SUBSET V   BY <1>1, <1>2
    <2> HIDE DEF q, r
    <2>3. t \in SearchStates(graph) /\ t.path = q /\ t.seen = r /\ t.cycle = s.cycle
        BY <1>1, <1>3, <2>1, <2>2 DEF SearchStates
    <2> QED   BY <2>3 DEF r
<1> HIDE DEF q, p
<1>6. ToSet(p) \subseteq s.seen   BY <1>1 DEF PathIsTrue, p
<1>7. Through(t) = Through(s)
    BY <1>2, <1>3, <1>5, <1>6 DEF Through, p
<1>8. PathIsTrue(graph, t)
    <2>1. ToSet(q) \subseteq s.seen \cup {d}   BY <1>3, <1>6
    <2>2. ASSUME NEW i \in 1..Len(q)
          PROVE  \/ i \in 1..Len(p) /\ q[i] = p[i] /\ q[i] # d
                 \/ i = Len(p) + 1 /\ q[i] = d
        <3>1. i \in 1..Len(p) + 1 /\ Len(p) \in Nat   BY <1>3, <1>4, <2>2, Zenon
        <3>2. i \in 1..Len(p) \/ i = Len(p) + 1   BY <3>1
        <3>3. CASE i \in 1..Len(p)
            <4>1. p[i] \in ToSet(p)   BY <1>4, <3>3 DEF ToSet
            <4> QED   BY <1>2, <1>3, <1>6, <3>3, <4>1
        <3> QED   BY <1>3, <3>2, <3>3
    <2>3. \A i, j \in 1..Len(q) : q[i] = q[j] => i = j
        <3> SUFFICES ASSUME NEW i \in 1..Len(q), NEW j \in 1..Len(q), q[i] = q[j] PROVE i = j
            OBVIOUS
        <3>1. \A a, b \in 1..Len(p) : p[a] = p[b] => a = b   BY <1>1 DEF PathIsTrue, p
        <3> QED   BY <2>2, <3>1
    <2>4. ASSUME NEW i \in 1..Len(q) - 1 PROVE q[i + 1] \in graph[q[i]]
        <3>1. i \in 1..Len(p) + 1 - 1 /\ Len(p) \in Nat   BY <1>3, <1>4, <2>4
        <3>2. i \in 1..Len(p) /\ (i = Len(p) \/ (i \in 1..Len(p) - 1 /\ i + 1 \in 1..Len(p)))
            BY <3>1
        <3>3. CASE i = Len(p)
            <4>1. p # <<>>
                <5>1. Len(p) # 0   BY <3>1, <3>2
                <5> QED   BY <5>1
            <4> QED   BY <1>2, <1>3, <1>4, <3>2, <3>3, <4>1
        <3>4. CASE i \in 1..Len(p) - 1 /\ i + 1 \in 1..Len(p)
            <4>1. p[i + 1] \in graph[p[i]]   BY <1>1, <3>4 DEF PathIsTrue, p
            <4> QED   BY <1>3, <3>2, <3>4, <4>1
        <3> QED   BY <3>2, <3>3, <3>4
    <2>5. t.path = q /\ t.seen = s.seen \cup {d}   BY <1>5
    <2>6. ToSet(t.path) \subseteq t.seen   BY <2>1, <2>5
    <2>7. \A i, j \in 1..Len(t.path) : t.path[i] = t.path[j] => i = j   BY <2>3, <2>5
    <2>8. \A i \in 1..Len(t.path) - 1 : t.path[i + 1] \in graph[t.path[i]]   BY <2>4, <2>5
    <2> QED   BY <2>6, <2>7, <2>8 DEF PathIsTrue
<1>9. SearchInv(graph, t)
    BY <1>5, <1>7, <1>8 DEF SearchInv
<1>10. ASSUME NEW n \in Nat, Paces(graph, n, s) PROVE Paces(graph, n + 1, t)
    <2>1. ~Ended(graph, s)   BY <1>2 DEF Ended, p
    <2>2. IsFiniteSet(s.seen) /\ IsFiniteSet(Through(s))
        BY <1>1, FiniteAssumption, FS_Subset DEF IsClosed, Through
    <2>3. Cardinality(t.seen) = Cardinality(s.seen) + 1
        BY <1>2, <1>5, <2>2, FS_AddElement
    <2>4. Cardinality(s.seen) \in Nat /\ Cardinality(Through(s)) \in Nat
        BY <2>2, FS_CardinalityType
    <2>5. Cardinality(Through(t)) = Cardinality(Through(s))   BY <1>7
    <2> QED   BY <1>10, <2>1, <2>3, <2>4, <2>5 DEF Paces
<1> QED   BY <1>9, <1>10

LEMMA VisitKeeps ==
    ASSUME NEW graph, IsClosed(graph), NEW s, SearchInv(graph, s)
    PROVE  /\ SearchInv(graph, Visit(graph, s))
           /\ \A n \in Nat : Paces(graph, n, s) => Paces(graph, n + 1, Visit(graph, s))
<1> DEFINE d == CHOOSE d \in Ahead(graph, s) : TRUE
           t == Visit(graph, s)
<1>1. s \in SearchStates(graph)   BY DEF SearchInv
<1>2. CASE Ended(graph, s)
    <2>1. ~s.cycle => Ahead(graph, s) = {} /\ s.path = <<>>
        BY <1>2 DEF Ended, Ahead
    <2>2. [s EXCEPT !.path = s.path] = s   BY <1>1 DEF SearchStates
    <2>3. t = s   BY <2>1, <2>2 DEF Visit
    <2> QED   BY <1>2, <2>3 DEF Paces
<1>3. CASE ~Ended(graph, s) /\ Ahead(graph, s) = {}
    <2>1. ~s.cycle /\ s.path # <<>>   BY <1>3 DEF Ended, Ahead
    <2>2. t = [s EXCEPT !.path = Front(s.path)]   BY <1>3, <2>1 DEF Visit
    <2> QED   BY <1>3, <2>1, <2>2, LeaveNode
<1>4. CASE ~Ended(graph, s) /\ Ahead(graph, s) # {} /\ Closes(d, s.path, s.seen)
    <2>1. ~s.cycle /\ d \in Ahead(graph, s)   BY <1>4 DEF Ended
    <2>2. d \in ToSet(s.path)   BY <1>4 DEF Closes
    <2>3. s.path # <<>>   BY <2>2 DEF ToSet
    <2>4. d \in graph[Last(s.path)] /\ d \in DOMAIN graph   BY <2>1, <2>3 DEF Ahead
    <2> HIDE DEF d
    <2>5. OnCycle(graph, d)   BY <2>2, <2>3, <2>4, PathCloses
    <2>6. t = [s EXCEPT !.cycle = TRUE]   BY <1>4, <2>1 DEF Visit, d
    <2>7. /\ t \in SearchStates(graph) /\ t.path = s.path /\ t.seen = s.seen /\ t.cycle
        BY <1>1, <2>6 DEF SearchStates
    <2> HIDE DEF t
    <2>8. SearchInv(graph, t)
        BY <2>4, <2>5, <2>7 DEF SearchInv, PathIsTrue, Through
    <2>9. Ended(graph, t)   BY <2>7 DEF Ended
    <2> QED   BY <2>8, <2>9 DEF Paces, t
<1>5. CASE ~Ended(graph, s) /\ Ahead(graph, s) # {} /\ ~Closes(d, s.path, s.seen)
    <2>1. ~s.cycle /\ d \in Ahead(graph, s)   BY <1>5 DEF Ended
    <2>2. d \notin ToSet(s.path)   BY <1>5 DEF Closes
    <2>3. t = [s EXCEPT !.path = Append(s.path, d), !.seen = s.seen \cup {d}]
        BY <1>5, <2>1 DEF Visit
    <2> HIDE DEF d, t
    <2> QED   BY <2>1, <2>2, <2>3, EnterNode DEF t
<1> QED   BY <1>2, <1>3, <1>4, <1>5

\* The search finds a cycle if and only if there is one. (_detect_graph_cycle)
LEMMA SearchFindsCycles ==
    ASSUME NEW graph, IsClosed(graph), NEW first \in DOMAIN graph
    PROVE  HasCycle(graph, first) <=> \E n \in DOMAIN graph : OnCycle(graph, n)
<1> DEFINE N == 2 * Cardinality(Id)
           IsSearch(g) == g = [n \in 0..N |-> IF n = 0 THEN Begin(first)
                                              ELSE Visit(graph, g[n - 1])]
           step == [s \in SearchStates(graph) |-> Visit(graph, s)]
           after == CHOOSE g : IsSearch(g)
<1>1. N \in Nat /\ N = 2 * Cardinality(Id)   BY FiniteAssumption, FS_CardinalityType
<1>2. HasCycle(graph, first) = after[N].cycle   BY DEF HasCycle
<1> HIDE DEF N
<1>3. IsSearch(after)
    <2>1. PICK g : IsRun(g, N, Begin(first), step)   BY <1>1, RunExists
    <2> DEFINE P == {n \in Nat : n <= N => SearchInv(graph, g[n])}
    <2>2. 0 \in P   BY <1>1, <2>1, BeginSearch DEF IsRun
    <2>3. ASSUME NEW n \in 1..N, n - 1 \in P PROVE n \in P
        <3>1. n - 1 <= N /\ n \in 0..N /\ n # 0   BY <1>1
        <3>2. SearchInv(graph, g[n - 1])   BY <2>3, <3>1
        <3>3. g[n] = step[g[n - 1]]   BY <2>1, <3>1 DEF IsRun
        <3>4. g[n - 1] \in SearchStates(graph)   BY <3>2 DEF SearchInv
        <3>5. g[n] = Visit(graph, g[n - 1])   BY <3>3, <3>4
        <3>6. SearchInv(graph, g[n])   BY <3>2, <3>5, VisitKeeps
        <3> QED   BY <3>6
    <2> HIDE DEF P
    <2>4. \A n \in 0..N : n \in P   BY <1>1, <2>2, <2>3, AllUpTo
    <2>5. ASSUME NEW n \in 0..N, n # 0 PROVE step[g[n - 1]] = Visit(graph, g[n - 1])
        <3>1. n - 1 \in 0..N /\ n - 1 <= N   BY <1>1, <2>5
        <3>2. SearchInv(graph, g[n - 1])   BY <2>4, <3>1 DEF P
        <3> QED   BY <3>2 DEF SearchInv
    <2>6. IsSearch(g)
        <3> HIDE DEF step
        <3> QED   BY <2>1, <2>5 DEF IsRun
    <2> HIDE DEF IsSearch
    <2> QED   BY <2>6
<1> HIDE DEF after
<1> DEFINE P == {n \in Nat : n <= N => SearchInv(graph, after[n]) /\ Paces(graph, n, after[n])}
<1>4. 0 \in P   BY <1>1, <1>3, BeginSearch
<1>5. ASSUME NEW n \in 1..N, n - 1 \in P PROVE n \in P
    <2>1. n - 1 <= N /\ n \in 0..N /\ n # 0 /\ n - 1 \in Nat /\ (n - 1) + 1 = n   BY <1>1
    <2>2. SearchInv(graph, after[n - 1]) /\ Paces(graph, n - 1, after[n - 1])   BY <1>5, <2>1
    <2>3. after[n] = Visit(graph, after[n - 1])   BY <1>3, <2>1
    <2>4. SearchInv(graph, after[n])   BY <2>2, <2>3, VisitKeeps
    <2>5. Paces(graph, (n - 1) + 1, after[n])   BY <2>1, <2>2, <2>3, VisitKeeps
    <2>6. Paces(graph, n, after[n])   BY <2>1, <2>5
    <2> QED   BY <2>4, <2>6
<1> HIDE DEF P
<1>6. N \in P   BY <1>1, <1>4, <1>5, AllUpTo
<1> DEFINE s == after[N]
<1>7. SearchInv(graph, s) /\ Paces(graph, N, s)   BY <1>1, <1>6 DEF P
<1> HIDE DEF s
<1>8. Ended(graph, s)
    <2>1. s.seen \subseteq Id /\ Through(s) \subseteq Id
        BY <1>7 DEF SearchInv, SearchStates, IsClosed, Through
    <2>2. Cardinality(s.seen) <= Cardinality(Id) /\ Cardinality(Through(s)) <= Cardinality(Id)
        BY <2>1, FiniteAssumption, FS_Subset
    <2>3. /\ Cardinality(s.seen) \in Nat /\ Cardinality(Through(s)) \in Nat
          /\ Cardinality(Id) \in Nat
        BY <2>1, FiniteAssumption, FS_Subset, FS_CardinalityType
    <2> QED   BY <1>1, <1>7, <2>2, <2>3 DEF Paces
<1>9. s.cycle => \E n \in DOMAIN graph : OnCycle(graph, n)   BY <1>7 DEF SearchInv
<1>10. ASSUME ~s.cycle PROVE ~\E n \in DOMAIN graph : OnCycle(graph, n)
    <2>1. s.path = <<>> /\ DOMAIN graph \subseteq s.seen   BY <1>8, <1>10 DEF Ended
    <2>2. DOMAIN graph \subseteq Through(s)   BY <2>1 DEF Through, ToSet
    <2> QED   BY <1>7, <2>2 DEF SearchInv
<1> QED   BY <1>2, <1>9, <1>10 DEF s

-----------------------------------------------------------------------------
(* The lanes of a card.                                                    *)

\* The lanes all of whose dependencies are among those of S.
Follow(lanes, S) == {i \in DOMAIN lanes : lanes[i].deps \subseteq {lanes[j].id : j \in S}}

LEMMA StagesExist ==
    ASSUME NEW lanes \in Seq(Lanes), Schedulable(lanes)
    PROVE  \E staged : /\ staged[0] = {} /\ staged[Len(lanes)] = DOMAIN lanes
                       /\ \A n \in 1..Len(lanes) :
                              staged[n] = staged[n - 1] \cup Follow(lanes, staged[n - 1])
<1> DEFINE N == Len(lanes)
           V == DOMAIN lanes
           IsStaged(g) == g = [n \in 0..N |-> IF n = 0 THEN {}
                                              ELSE g[n - 1] \cup Follow(lanes, g[n - 1])]
           step == [S \in SUBSET V |-> S \cup Follow(lanes, S)]
           staged == CHOOSE g : IsStaged(g)
<1>1. N \in Nat   BY LenProperties
<1>2. staged[N] = V   BY DEF Schedulable, Follow
<1>3. \E g : IsStaged(g)
    <2>1. PICK g : IsRun(g, N, {}, step)   BY <1>1, RunExists
    <2> DEFINE P == {n \in Nat : n <= N => g[n] \in SUBSET V}
    <2>2. 0 \in P   BY <1>1, <2>1 DEF IsRun
    <2>3. ASSUME NEW n \in 1..N, n - 1 \in P PROVE n \in P
        <3>1. n - 1 <= N /\ n \in 0..N /\ n # 0   BY <1>1
        <3>2. g[n - 1] \in SUBSET V   BY <2>3, <3>1
        <3>3. g[n] = step[g[n - 1]]   BY <2>1, <3>1 DEF IsRun
        <3>4. g[n] \in SUBSET V   BY <3>2, <3>3 DEF Follow
        <3> QED   BY <3>4
    <2> HIDE DEF P
    <2>4. \A n \in 0..N : n \in P   BY <1>1, <2>2, <2>3, AllUpTo
    <2>5. ASSUME NEW n \in 0..N, n # 0
          PROVE  step[g[n - 1]] = g[n - 1] \cup Follow(lanes, g[n - 1])
        <3>1. n - 1 \in 0..N /\ n - 1 <= N   BY <1>1, <2>5
        <3>2. g[n - 1] \in SUBSET V   BY <2>4, <3>1 DEF P
        <3> QED   BY <3>2
    <2>6. IsStaged(g)
        <3> HIDE DEF step
        <3> QED   BY <2>1, <2>5 DEF IsRun
    <2> HIDE DEF IsStaged
    <2> QED   BY <2>6
<1>4. IsStaged(staged)
    <2> HIDE DEF IsStaged
    <2> QED   BY <1>3
<1> HIDE DEF staged
<1>5. staged[0] = {} /\ \A n \in 1..N : staged[n] = staged[n - 1] \cup Follow(lanes, staged[n - 1])
    <2>1. 0 \in 0..N /\ \A n \in 1..N : n \in 0..N /\ n # 0   BY <1>1
    <2> HIDE DEF N
    <2>2. staged[0] = {}   BY <1>4, <2>1
    <2>3. ASSUME NEW n \in 1..N PROVE staged[n] = staged[n - 1] \cup Follow(lanes, staged[n - 1])
        BY <1>4, <2>1
    <2> QED   BY <2>2, <2>3
<1> QED   BY <1>2, <1>5

\* Stages that take in all lanes put each behind what it depends on.
LEMMA StagesAreAnOrder ==
    ASSUME NEW lanes \in Seq(Lanes), Schedulable(lanes)
    PROVE  LanesHaveOrder(lanes)
<1> DEFINE N == Len(lanes)
<1>1. PICK staged : /\ staged[0] = {} /\ staged[N] = DOMAIN lanes
                    /\ \A n \in 1..N : staged[n] = staged[n - 1] \cup Follow(lanes, staged[n - 1])
    BY StagesExist
<1>2. N \in Nat /\ DOMAIN lanes = 1..N   BY LenProperties
<1> HIDE DEF N
<1> DEFINE IsIn(i) == {n \in 0..N : i \in staged[n]}
           IsTurn(i, n) == n \in IsIn(i) /\ \A m \in IsIn(i) : n <= m
           turn == [i \in DOMAIN lanes |-> CHOOSE n : IsTurn(i, n)]
<1>3. ASSUME NEW i \in DOMAIN lanes PROVE IsTurn(i, turn[i])
    <2>1. N \in IsIn(i) /\ IsIn(i) \subseteq Nat   BY <1>1, <1>2
    <2>2. \E n \in IsIn(i) : \A m \in IsIn(i) : n <= m
        <3> HIDE DEF IsIn
        <3> QED   BY <2>1, HasLeast
    <2>3. \E n : IsTurn(i, n)   BY <2>2
    <2> HIDE DEF IsTurn
    <2> QED   BY <2>3
<1>4. turn = [i \in DOMAIN lanes |-> turn[i]]   OBVIOUS
<1> HIDE DEF turn
<1>5. ASSUME NEW i \in DOMAIN lanes
      PROVE  /\ turn[i] \in 1..N
             /\ \A t \in lanes[i].deps : \E j \in DOMAIN lanes :
                    lanes[j].id = t /\ turn[j] < turn[i]
    <2> DEFINE n == turn[i]
    <2>1. n \in 0..N /\ i \in staged[n] /\ \A m \in 0..N : i \in staged[m] => n <= m
        BY <1>3
    <2> HIDE DEF n
    <2>2. n # 0   BY <1>1, <2>1
    <2>3. n \in 1..N /\ n - 1 \in 0..N /\ ~(n <= n - 1)   BY <1>2, <2>1, <2>2
    <2>4. i \notin staged[n - 1]   BY <2>1, <2>3
    <2>5. i \in Follow(lanes, staged[n - 1])   BY <1>1, <2>1, <2>3, <2>4
    <2>6. ASSUME NEW t \in lanes[i].deps
          PROVE  \E j \in DOMAIN lanes : lanes[j].id = t /\ turn[j] < n
        <3>1. PICK j : j \in staged[n - 1] /\ lanes[j].id = t   BY <2>5 DEF Follow
        <3>2. j \in DOMAIN lanes
            <4> DEFINE P == {m \in Nat : m <= N => staged[m] \subseteq DOMAIN lanes}
            <4>1. 0 \in P   BY <1>1
            <4>2. ASSUME NEW m \in 1..N, m - 1 \in P PROVE m \in P
                <5>1. m - 1 <= N   BY <1>2
                <5> QED   BY <1>1, <4>2, <5>1 DEF Follow
            <4> HIDE DEF P
            <4>3. n - 1 \in P   BY <1>2, <2>3, <4>1, <4>2, AllUpTo
            <4>4. n - 1 <= N   BY <2>3
            <4> QED   BY <3>1, <4>3, <4>4 DEF P
        <3>3. turn[j] <= n - 1 /\ turn[j] \in 0..N   BY <1>3, <2>3, <3>1, <3>2
        <3>4. turn[j] < n   BY <1>2, <2>3, <3>3
        <3> QED   BY <3>1, <3>2, <3>4
    <2> QED   BY <2>3, <2>6 DEF n
<1>6. turn \in [DOMAIN lanes -> DOMAIN lanes]   BY <1>2, <1>4, <1>5
<1> QED   BY <1>5, <1>6 DEF LanesHaveOrder

LEMMA LanesStayApart ==
    ASSUME NEW lanes \in Seq(Lanes), LanesAreSound(lanes)
    PROVE  LanesAreSeparate(lanes)
<1>1. Len(lanes) \in Nat /\ DOMAIN lanes = 1..Len(lanes)   BY LenProperties
<1>2. ASSUME NEW i \in DOMAIN lanes, NEW j \in DOMAIN lanes, i # j,
             NEW p \in Owners(lanes[i]), NEW q \in Owners(lanes[j])
      PROVE  ~IsPrefix(p, q)
    <2>1. CASE i < j   BY <2>1 DEF LanesAreSound, Apart, Overlap
    <2>2. CASE j < i   BY <2>2 DEF LanesAreSound, Apart, Overlap
    <2>3. i < j \/ j < i   BY <1>1, <1>2
    <2> QED   BY <2>1, <2>2, <2>3
<1> QED   BY <1>2 DEF LanesAreSeparate

-----------------------------------------------------------------------------
(* The snapshot of the dependencies.                                       *)

LEMMA SetInSequence ==
    ASSUME NEW S, IsFiniteSet(S)
    PROVE  LET q == SetToSeq(S)
           IN  q \in Seq(S) /\ ToSet(q) = S /\ IsInjective(q)
<1> DEFINE n == Cardinality(S)
           q == SetToSeq(S)
<1>1. n \in Nat /\ ExistsBijection(1..n, S)   BY FS_CardinalityType
<1>2. \E g \in [1..n -> S] : IsInjective(g)
    <2>1. PICK g : g \in Bijection(1..n, S)   BY <1>1 DEF ExistsBijection
    <2>2. g \in [1..n -> S] /\ IsInjective(g)
        BY <2>1 DEF Bijection, Injection
    <2> QED   BY <2>2
<1> HIDE DEF n
<1>3. q \in [1..n -> S] /\ IsInjective(q)   BY <1>2 DEF SetToSeq, n
<1> HIDE DEF q
<1>4. q \in Injection(1..n, S)   BY <1>3 DEF Injection
<1>5. Cardinality(1..n) = n   BY <1>1, FS_Interval
<1>6. q \in Surjection(1..n, S)   BY <1>4, <1>5, FS_Injection DEF n
<1>7. q \in Seq(S)   BY <1>1, <1>3
<1>8. ToSet(q) = S
    <2>1. DOMAIN q = 1..n   BY <1>3
    <2>2. \A t \in S : \E i \in 1..n : q[i] = t   BY <1>6 DEF Surjection
    <2> QED   BY <1>3, <2>1, <2>2 DEF ToSet
<1>9. IsInjective(q)   BY <1>3
<1> QED   BY <1>7, <1>8, <1>9 DEF q

LEMMA QueueMoves ==
    ASSUME NEW V, NEW q \in Seq(V), q # <<>>, IsInjective(q),
           NEW S, IsFiniteSet(S), S \cap ToSet(q) = {},
           NEW r, r = Tail(q) \o SetToSeq(S)
    PROVE  /\ r \in Seq(V \cup S) /\ IsInjective(r)
           /\ Head(q) \in ToSet(q) /\ Head(q) \in V
           /\ ToSet(r) = (ToSet(q) \ {Head(q)}) \cup S
<1> DEFINE u == SetToSeq(S)
           v == Tail(q)
<1>1. u \in Seq(S) /\ ToSet(u) = S /\ IsInjective(u)   BY SetInSequence
<1>2. /\ Head(q) = q[1] /\ v \in Seq(V) /\ Len(q) \in Nat \ {0} /\ Len(v) = Len(q) - 1
      /\ \A i \in 1..Len(v) : v[i] = q[i + 1]
      /\ DOMAIN q = 1..Len(q)
    BY HeadTailProperties, LenProperties, EmptySeq
<1> HIDE DEF u, v
<1>3. u \in Seq(V \cup S) /\ v \in Seq(V \cup S)
    <2>1. ASSUME NEW w, NEW T, w \in Seq(T), T \subseteq V \cup S PROVE w \in Seq(V \cup S)
        BY <2>1
    <2> QED   BY <1>1, <1>2, <2>1
<1>4. /\ r \in Seq(V \cup S) /\ Len(r) = Len(v) + Len(u)
      /\ \A i \in 1..Len(v) : r[i] = v[i]
      /\ \A i \in Len(v) + 1..Len(v) + Len(u) : r[i] = u[i - Len(v)]
    BY <1>3, ConcatProperties DEF u, v
<1>5. /\ DOMAIN r = 1..Len(r) /\ DOMAIN u = 1..Len(u) /\ DOMAIN v = 1..Len(v)
      /\ Len(u) \in Nat /\ Len(v) \in Nat
    BY <1>1, <1>2, <1>4, LenProperties
<1>6. Head(q) \in ToSet(q) /\ Head(q) \in V
    <2>1. 1 \in 1..Len(q)   BY <1>2
    <2>2. q[1] \in V   BY <2>1, ElementOfSeq, Zenon
    <2>3. q[1] \in ToSet(q)   BY <1>2, <2>1, Zenon DEF ToSet
    <2> QED   BY <1>2, <2>2, <2>3
<1>7. ASSUME NEW i \in DOMAIN r
      PROVE  \/ i \in 1..Len(v) /\ i + 1 \in DOMAIN q /\ i + 1 # 1 /\ r[i] = q[i + 1]
             \/ i - Len(v) \in DOMAIN u /\ r[i] = u[i - Len(v)]
    <2>1. i \in 1..Len(v) + Len(u)   BY <1>4, <1>5
    <2>2. CASE i \in 1..Len(v)
        <3>1. i + 1 \in 1..Len(q) /\ i + 1 # 1   BY <1>2, <1>5, <2>2
        <3> QED   BY <1>2, <1>4, <2>2, <3>1
    <2>3. CASE i \in Len(v) + 1..Len(v) + Len(u)
        <3>1. i - Len(v) \in 1..Len(u)   BY <1>5, <2>3
        <3> QED   BY <1>4, <1>5, <2>3, <3>1
    <2> QED   BY <1>5, <2>1, <2>2, <2>3
<1>8. \A i \in DOMAIN u : u[i] \in S   BY <1>1 DEF ToSet
<1>9. \A i \in DOMAIN q : q[i] \notin S   BY DEF ToSet
<1>10. IsInjective(r)
    <2> SUFFICES ASSUME NEW i \in DOMAIN r, NEW j \in DOMAIN r, r[i] = r[j] PROVE i = j
        BY DEF IsInjective
    <2>1. CASE r[i] \in S
        <3>1. /\ i - Len(v) \in DOMAIN u /\ r[i] = u[i - Len(v)]
              /\ j - Len(v) \in DOMAIN u /\ r[j] = u[j - Len(v)]
            BY <1>7, <1>9, <2>1
        <3>2. i - Len(v) = j - Len(v)   BY <1>1, <3>1 DEF IsInjective
        <3>3. i \in Nat /\ j \in Nat   BY <1>5
        <3> QED   BY <1>5, <3>2, <3>3
    <2>2. CASE r[i] \notin S
        <3>1. /\ i + 1 \in DOMAIN q /\ r[i] = q[i + 1]
              /\ j + 1 \in DOMAIN q /\ r[j] = q[j + 1]
            BY <1>7, <1>8, <2>2
        <3>2. i + 1 = j + 1   BY <3>1 DEF IsInjective
        <3>3. i \in Nat /\ j \in Nat   BY <1>5
        <3> QED   BY <3>2, <3>3
    <2> QED   BY <2>1, <2>2
<1>11. ToSet(r) \subseteq (ToSet(q) \ {Head(q)}) \cup S
    <2> SUFFICES ASSUME NEW i \in DOMAIN r PROVE r[i] \in (ToSet(q) \ {Head(q)}) \cup S
        BY DEF ToSet
    <2>1. CASE i + 1 \in DOMAIN q /\ i + 1 # 1 /\ r[i] = q[i + 1]
        <3>1. 1 \in DOMAIN q   BY <1>2
        <3>2. q[i + 1] # q[1]   BY <2>1, <3>1 DEF IsInjective
        <3> QED   BY <1>2, <2>1, <3>2 DEF ToSet
    <2>2. CASE i - Len(v) \in DOMAIN u /\ r[i] = u[i - Len(v)]
        BY <1>8, <2>2
    <2> QED   BY <1>7, <2>1, <2>2
<1>12. ASSUME NEW i \in DOMAIN q, q[i] # Head(q) PROVE q[i] \in ToSet(r)
    <2>1. i \in 1..Len(q) /\ i # 1   BY <1>2, <1>12
    <2>2. i - 1 \in 1..Len(v) /\ i - 1 + 1 = i /\ i - 1 \in 1..Len(v) + Len(u)
        BY <1>2, <1>5, <2>1
    <2>3. r[i - 1] = q[i]   BY <1>2, <1>4, <2>2
    <2> QED   BY <1>4, <1>5, <2>2, <2>3 DEF ToSet
<1>13. ASSUME NEW i \in DOMAIN u PROVE u[i] \in ToSet(r)
    <2>1. i \in 1..Len(u)   BY <1>5
    <2> DEFINE k == Len(v) + i
    <2>2. /\ k \in Len(v) + 1..Len(v) + Len(u) /\ k - Len(v) = i
          /\ k \in 1..Len(v) + Len(u)
        BY <1>5, <2>1
    <2> HIDE DEF k
    <2>3. r[k] = u[i]   BY <1>4, <2>2
    <2> QED   BY <1>4, <1>5, <2>2, <2>3 DEF ToSet
<1>14. (ToSet(q) \ {Head(q)}) \cup S \subseteq ToSet(r)
    <2>1. ASSUME NEW t \in ToSet(q), t # Head(q) PROVE t \in ToSet(r)
        <3>1. PICK i : i \in DOMAIN q /\ q[i] = t   BY DEF ToSet
        <3> QED   BY <1>12, <2>1, <3>1
    <2>2. ASSUME NEW t \in S PROVE t \in ToSet(r)
        <3>1. PICK i : i \in DOMAIN u /\ u[i] = t   BY <1>1 DEF ToSet
        <3> QED   BY <1>13, <3>1
    <2> QED   BY <2>1, <2>2
<1> QED   BY <1>4, <1>6, <1>10, <1>11, <1>14

Fields == {"queue", "graph", "status", "missing", "raised"}
IsSnapshot(s) == DOMAIN s = Fields /\ s = [x \in Fields |-> s[x]]

Root(f) == Cards[f].id

\* The ids the snapshot has looked for, without the one it began with.
LookedFor(f, s) == DOMAIN s.graph \ {Root(f)}

Popped(s) == (DOMAIN s.graph \ s.missing) \ ToSet(s.queue)

\* What the snapshot says of the ids it knows.
IsTrue(f, s) ==
    /\ DOMAIN s.graph \subseteq {Root(f)} \cup BehindCard(f)
    /\ Root(f) \in DOMAIN s.graph /\ Root(f) \notin s.missing
    /\ \A t \in DOMAIN s.graph : s.graph[t] = Deps(f, t)
    /\ s.missing = {t \in LookedFor(f, s) : Found(Cards, t) = {}}
    /\ \A t \in LookedFor(f, s) \ s.missing :
          IsItsCard(Cards, t) /\ s.status[t] = status[TheFile(Cards, t)]
    /\ DOMAIN s.status = DOMAIN s.graph \ s.missing

\* What has left the queue has been asked what it names; nothing enters it twice.
QueueIsTrue(s) ==
    /\ s.queue \in Seq(DOMAIN s.graph) /\ IsInjective(s.queue)
    /\ ToSet(s.queue) \cap s.missing = {}
    /\ \A t \in Popped(s) : s.graph[t] \subseteq DOMAIN s.graph

SnapshotInv(f, n, s) ==
    /\ IsSnapshot(s) /\ s.raised \in BOOLEAN
    /\ s.raised => \E t \in BehindCard(f) : ~IsClear(t)
    /\ ~s.raised => /\ IsTrue(f, s) /\ QueueIsTrue(s)
                    /\ s.queue = <<>> \/ Cardinality(Popped(s)) >= n

LEMMA NamesAreIds ==
    ASSUME world \in Worlds, NEW f \in File
    PROVE  Root(f) \in Id /\ \A t : Deps(f, t) \subseteq Id
<1>1. \A g \in File : Cards[g].id \in Id /\ Cards[g].deps \subseteq Id
    BY WorldsAssumption DEF Cards
<1>2. \A t : Found(Cards, t) \subseteq File   BY DEF Found, Candidates, Holders
<1> QED   BY <1>1, <1>2 DEF Deps, Root

LEMMA BehindGrows ==
    ASSUME world \in Worlds, NEW f \in File,
           NEW h \in {Root(f)} \cup BehindCard(f), NEW t \in Deps(f, h)
    PROVE  t \in BehindCard(f)
<1>1. t \in Id   BY NamesAreIds
<1>2. ASSUME NEW S \in SUBSET Id, Deps(f, Root(f)) \subseteq S, \A v \in S : Deps(f, v) \subseteq S
      PROVE  t \in S
    <2>1. CASE h = Root(f)   BY <1>2, <2>1
    <2>2. CASE h \in BehindCard(f)
        <3>1. h \in S   BY <1>2, <2>2 DEF BehindCard, Behind, Root
        <3> QED   BY <1>2, <3>1
    <2> QED   BY <2>1, <2>2
<1> QED   BY <1>1, <1>2 DEF BehindCard, Behind, Root

\* A card that is not the one that was looked for is in the way.
LEMMA OnlyFile ==
    ASSUME NEW t, IsItsCard(Cards, t)
    PROVE  Found(Cards, t) = {TheFile(Cards, t)} /\ Cardinality(Found(Cards, t)) = 1
<1>1. Found(Cards, t) \subseteq File /\ IsFiniteSet(Found(Cards, t))
    BY FiniteAssumption, FS_Subset DEF Found, Candidates, Holders
<1>2. PICK g : Found(Cards, t) = {g}   BY <1>1, FS_Singleton DEF IsItsCard
<1>3. TheFile(Cards, t) = g   BY <1>2 DEF TheFile
<1> QED   BY <1>2, <1>3 DEF IsItsCard

LEMMA ClearCard ==
    ASSUME NEW t, IsClear(t), Found(Cards, t) # {}
    PROVE  IsItsCard(Cards, t)
<1>1. Found(Cards, t) \subseteq File /\ IsFiniteSet(Found(Cards, t))
    BY FiniteAssumption, FS_Subset DEF Found, Candidates, Holders
<1>2. Cardinality(Found(Cards, t)) \in Nat /\ Cardinality(Found(Cards, t)) # 0
    BY <1>1, FS_CardinalityType, FS_EmptySet
<1>3. Cardinality(Found(Cards, t)) = 1   BY <1>2 DEF IsClear
<1>4. TheFile(Cards, t) \in Found(Cards, t)   BY DEF TheFile
<1> QED   BY <1>3, <1>4 DEF IsClear, IsItsCard

LEMMA RootSnapshot ==
    ASSUME world \in Worlds, NEW f \in File
    PROVE  SnapshotInv(f, 0, RootOnly(Cards, status, f))
<1> DEFINE s == RootOnly(Cards, status, f)
<1>1. /\ IsSnapshot(s) /\ s.raised = FALSE /\ s.missing = {}
      /\ s.queue = <<Root(f)>> /\ DOMAIN s.graph = {Root(f)} /\ DOMAIN s.status = {Root(f)}
      /\ s.graph[Root(f)] = Cards[f].deps
    BY DEF RootOnly, IsSnapshot, Fields, Root
<1> HIDE DEF s
<1>2. /\ s.queue \in Seq({Root(f)}) /\ ToSet(s.queue) = {Root(f)}
      /\ IsInjective(s.queue)
    <2>1. <<Root(f)>> \in Seq({Root(f)}) /\ DOMAIN <<Root(f)>> = {1} /\ <<Root(f)>>[1] = Root(f)
        OBVIOUS
    <2> QED   BY <1>1, <2>1 DEF ToSet, IsInjective
<1>3. Popped(s) = {} /\ LookedFor(f, s) = {}   BY <1>1, <1>2 DEF Popped, LookedFor
<1>4. Cardinality({}) = 0   BY FS_EmptySet
<1>5. IsTrue(f, s)   BY <1>1, <1>3 DEF IsTrue, Deps, Root
<1>6. QueueIsTrue(s)   BY <1>1, <1>2, <1>3 DEF QueueIsTrue
<1>7. Cardinality(Popped(s)) >= 0   BY <1>3, <1>4
<1>8. SnapshotInv(f, 0, s)   BY <1>1, <1>5, <1>6, <1>7 DEF SnapshotInv
<1> QED   BY <1>8 DEF s

LEMMA PopIsTrue ==
    ASSUME world \in Worlds, NEW f \in File, NEW n \in Nat, NEW s, SnapshotInv(f, n, s)
    PROVE  SnapshotInv(f, n + 1, Pop(Cards, status, s))
<1> DEFINE known == DOMAIN s.graph
           h     == Head(s.queue)
           new   == s.graph[h] \ known
           lost  == {t \in new : Found(Cards, t) = {}}
           card  == new \ lost
           raises == [s EXCEPT !.raised = TRUE]
           graph == [t \in known \cup new |-> IF t \in known THEN s.graph[t]
                                              ELSE IF t \in lost THEN {}
                                              ELSE Cards[TheFile(Cards, t)].deps]
           said  == [t \in DOMAIN s.status \cup card |->
                       IF t \in known THEN s.status[t] ELSE status[TheFile(Cards, t)]]
           queue == Tail(s.queue) \o SetToSeq(card)
           goes  == [queue   |-> queue,
                     graph   |-> graph,
                     status  |-> said,
                     missing |-> s.missing \cup lost,
                     raised  |-> FALSE]
<1>1. IsSnapshot(s) /\ s.raised \in BOOLEAN   BY DEF SnapshotInv
<1>2. CASE s.raised \/ s.queue = <<>>
    <2>1. Pop(Cards, status, s) = s   BY <1>2 DEF Pop
    <2> QED   BY <1>2, <2>1 DEF SnapshotInv
<1>3. CASE ~s.raised /\ s.queue # <<>>
    <2>1. /\ IsTrue(f, s) /\ QueueIsTrue(s) /\ Cardinality(Popped(s)) >= n
        BY <1>3 DEF SnapshotInv
    <2>2. /\ s.queue \in Seq(known) /\ h \in known /\ h \in ToSet(s.queue)
        <3>1. s.queue \in Seq(known)   BY <2>1 DEF QueueIsTrue
        <3>2. h = s.queue[1] /\ h \in known /\ Len(s.queue) \in Nat \ {0}
              /\ DOMAIN s.queue = 1..Len(s.queue)
            BY <1>3, <3>1, HeadTailProperties, LenProperties, EmptySeq
        <3>3. 1 \in DOMAIN s.queue   BY <3>2
        <3> QED   BY <3>1, <3>2, <3>3 DEF ToSet
    <2>3. \A t \in new : t \in BehindCard(f) /\ t \in Id /\ t # Root(f)
        <3>1. s.graph[h] = Deps(f, h) /\ h \in {Root(f)} \cup BehindCard(f) /\ Root(f) \in known
            BY <2>1, <2>2 DEF IsTrue
        <3> QED   BY <3>1, BehindGrows, NamesAreIds
    <2>4. CASE \E t \in card : ~IsItsCard(Cards, t)
        <3>1. Pop(Cards, status, s) = raises   BY <1>3, <2>4 DEF Pop
        <3>2. IsSnapshot(raises) /\ raises.raised
            BY <1>1 DEF IsSnapshot, Fields
        <3>3. \E t \in BehindCard(f) : ~IsClear(t)
            BY <2>3, <2>4, ClearCard
        <3> QED   BY <3>1, <3>2, <3>3 DEF SnapshotInv
    <2>5. CASE \A t \in card : IsItsCard(Cards, t)
        <3>1. Pop(Cards, status, s) = goes   BY <1>3, <2>5 DEF Pop
        <3>2. /\ IsSnapshot(goes) /\ goes.raised = FALSE /\ goes.queue = queue
              /\ goes.graph = graph /\ goes.status = said /\ goes.missing = s.missing \cup lost
              /\ DOMAIN graph = known \cup new
              /\ DOMAIN said = DOMAIN s.status \cup card
            BY DEF IsSnapshot, Fields
        <3>3. /\ \A t \in known : graph[t] = s.graph[t]
              /\ \A t \in lost : graph[t] = {} /\ Found(Cards, t) = {}
              /\ \A t \in card : graph[t] = Cards[TheFile(Cards, t)].deps
              /\ \A t \in card : said[t] = status[TheFile(Cards, t)]
              /\ \A t \in DOMAIN s.status : t \in known => said[t] = s.status[t]
            OBVIOUS
        <3>4. new \cap known = {} /\ lost \subseteq new /\ card = new \ lost
              /\ lost = {t \in new : Found(Cards, t) = {}}
            OBVIOUS
        <3>5. card \cap ToSet(s.queue) = {} /\ IsFiniteSet(card)
            <4>1. ToSet(s.queue) \subseteq known
                BY <2>2, LenProperties, ElementOfSeq DEF ToSet
            <4>2. card \subseteq Id   BY <2>3
            <4> QED   BY <4>1, <4>2, FiniteAssumption, FS_Subset
        <3>6. /\ queue \in Seq(known \cup card) /\ IsInjective(queue)
              /\ ToSet(queue) = (ToSet(s.queue) \ {h}) \cup card
            <4>1. IsInjective(s.queue)   BY <2>1 DEF QueueIsTrue
            <4> HIDE DEF card, known
            <4>2. s.queue \in Seq(known) /\ s.queue # <<>> /\ IsFiniteSet(card)
                  /\ card \cap ToSet(s.queue) = {}
                BY <1>3, <2>2, <3>5
            <4> HIDE DEF card, known
            <4>3. \A V, q, S : /\ q \in Seq(V) /\ q # <<>> /\ IsInjective(q)
                               /\ IsFiniteSet(S) /\ S \cap ToSet(q) = {}
                               => LET r == Tail(q) \o SetToSeq(S)
                                  IN  /\ r \in Seq(V \cup S) /\ IsInjective(r)
                                      /\ ToSet(r) = (ToSet(q) \ {Head(q)}) \cup S
                BY QueueMoves
            <4> QED   BY <4>1, <4>2, <4>3, Zenon
        <3> HIDE DEF goes, graph, said, lost, card, new, known, h, queue
        <3>7. /\ known = DOMAIN s.graph /\ h \in known /\ s.missing \subseteq known \ {h}
              /\ Root(f) \in known /\ Root(f) \notin s.missing
            BY <2>1, <2>2 DEF IsTrue, QueueIsTrue, LookedFor, known, h
        <3>8. LookedFor(f, goes) = LookedFor(f, s) \cup new
            BY <2>3, <3>2, <3>7 DEF LookedFor
        <3>9. IsTrue(f, goes)
            <4>1. \A t \in DOMAIN graph : graph[t] = Deps(f, t)
                <5>1. \A t \in known : graph[t] = Deps(f, t)
                    BY <2>1, <3>3, <3>7 DEF IsTrue
                <5>2. ASSUME NEW t \in lost PROVE graph[t] = Deps(f, t)
                    <6>1. Found(Cards, t) = {} /\ graph[t] = {} /\ t # Root(f)
                        BY <2>3, <3>3, <3>4
                    <6> QED   BY <6>1 DEF Deps, Root
                <5>3. ASSUME NEW t \in card PROVE graph[t] = Deps(f, t)
                    <6>1. /\ Found(Cards, t) = {TheFile(Cards, t)} /\ t # Root(f)
                          /\ Cardinality(Found(Cards, t)) = 1
                        BY <2>3, <2>5, <3>4, OnlyFile
                    <6>2. Deps(f, t) = UNION {Cards[g].deps : g \in {TheFile(Cards, t)}}
                        BY <6>1 DEF Deps, Root
                    <6> QED   BY <3>3, <6>2
                <5> QED   BY <3>2, <3>4, <5>1, <5>2, <5>3
            <4>2. DOMAIN graph \subseteq {Root(f)} \cup BehindCard(f)
                BY <2>1, <2>3, <3>2, <3>7 DEF IsTrue
            <4>3. s.missing \cup lost = {t \in LookedFor(f, goes) : Found(Cards, t) = {}}
                BY <2>1, <3>4, <3>8 DEF IsTrue
            <4>4. ASSUME NEW t \in LookedFor(f, goes) \ (s.missing \cup lost)
                  PROVE  IsItsCard(Cards, t) /\ said[t] = status[TheFile(Cards, t)]
                <5>1. CASE t \in LookedFor(f, s)
                    <6>1. /\ IsItsCard(Cards, t) /\ s.status[t] = status[TheFile(Cards, t)]
                          /\ t \in DOMAIN s.status /\ t \in known
                        BY <2>1, <3>7, <4>4, <5>1 DEF IsTrue, LookedFor
                    <6> QED   BY <3>3, <6>1
                <5>2. CASE t \in card
                    BY <2>5, <3>3, <5>2
                <5> QED   BY <3>4, <3>8, <4>4, <5>1, <5>2
            <4>5. DOMAIN said = DOMAIN graph \ (s.missing \cup lost)
                <5>1. DOMAIN s.status = known \ s.missing   BY <2>1, <3>7 DEF IsTrue
                <5> QED   BY <3>2, <3>4, <3>7, <5>1
            <4>6. Root(f) \in DOMAIN graph /\ Root(f) \notin s.missing \cup lost
                BY <2>3, <3>2, <3>4, <3>7
            <4> QED   BY <3>2, <4>1, <4>2, <4>3, <4>4, <4>5, <4>6 DEF IsTrue
        <3>10. Popped(goes) = Popped(s) \cup {h} /\ h \notin Popped(s)
            <4>1. h \in ToSet(s.queue)   BY <2>2 DEF h
            <4>2. ToSet(s.queue) \subseteq known
                BY <2>2, LenProperties, ElementOfSeq DEF ToSet, known
            <4> QED   BY <3>2, <3>4, <3>6, <3>7, <4>1, <4>2 DEF Popped
        <3>11. QueueIsTrue(goes)
            <4>1. queue \in Seq(DOMAIN graph)
                <5>1. known \cup card \subseteq DOMAIN graph   BY <3>2, <3>4
                <5> QED   BY <3>6, <5>1
            <4>2. ToSet(queue) \cap (s.missing \cup lost) = {}
                <5>1. ToSet(s.queue) \cap s.missing = {} /\ ToSet(s.queue) \subseteq known
                    BY <2>1, <2>2, LenProperties, ElementOfSeq DEF QueueIsTrue, ToSet, known
                <5> QED   BY <3>4, <3>6, <3>7, <5>1
            <4>3. ASSUME NEW t \in Popped(goes) PROVE graph[t] \subseteq DOMAIN graph
                <5>1. CASE t \in Popped(s)
                    <6>1. t \in known   BY <3>7, <5>1 DEF Popped
                    <6>2. s.graph[t] \subseteq known   BY <2>1, <3>7, <5>1 DEF QueueIsTrue
                    <6> QED   BY <3>2, <3>3, <6>1, <6>2
                <5>2. CASE t = h
                    <6>1. s.graph[h] \subseteq known \cup new   BY DEF new
                    <6> QED   BY <3>2, <3>3, <3>7, <5>2, <6>1
                <5> QED   BY <3>10, <5>1, <5>2
            <4> QED   BY <3>2, <3>6, <4>1, <4>2, <4>3 DEF QueueIsTrue
        <3>12. Cardinality(Popped(goes)) >= n + 1
            <4>1. BehindCard(f) \subseteq Id /\ Root(f) \in Id
                BY NamesAreIds DEF BehindCard, Behind
            <4>2. Popped(s) \subseteq Id   BY <2>1, <4>1 DEF IsTrue, Popped
            <4>3. IsFiniteSet(Popped(s))   BY <4>2, FiniteAssumption, FS_Subset
            <4>4. Cardinality(Popped(goes)) = Cardinality(Popped(s)) + 1
                BY <3>10, <4>3, FS_AddElement
            <4>5. Cardinality(Popped(s)) \in Nat   BY <4>3, FS_CardinalityType
            <4> QED   BY <2>1, <4>4, <4>5
        <3> QED   BY <3>1, <3>2, <3>9, <3>11, <3>12 DEF SnapshotInv
    <2> QED   BY <2>4, <2>5
<1> QED   BY <1>1, <1>2, <1>3

\* The snapshot is the last of a sequence that begins with the root alone.  That the
\* sequence exists, for a function that is defined by recursion, is shown first.
LEMMA SnapshotRuns ==
    ASSUME NEW cards, NEW stat, NEW root, NEW N \in Nat, N = Cardinality(Id)
    PROVE  \E after : /\ Snapshot(cards, stat, root) = after[N]
                      /\ after[0] = RootOnly(cards, stat, root)
                      /\ \A n \in 1..N : after[n] = Pop(cards, stat, after[n - 1])
<1> DEFINE Runs(n, g) == g = [i \in 0..n |-> IF i = 0 THEN RootOnly(cards, stat, root)
                                             ELSE Pop(cards, stat, g[i - 1])]
           P == {n \in Nat : \E g : Runs(n, g)}
<1>1. 0 \in P
    <2> DEFINE h == [i \in 0..0 |-> RootOnly(cards, stat, root)]
    <2>1. Runs(0, h)   OBVIOUS
    <2> HIDE DEF h, Runs
    <2> QED   BY <2>1
<1>2. ASSUME NEW n \in 1..N, n - 1 \in P PROVE n \in P
    <2>1. PICK g : Runs(n - 1, g)   BY <1>2
    <2> DEFINE h == [i \in 0..n |-> IF i = 0 THEN RootOnly(cards, stat, root)
                                    ELSE Pop(cards, stat, g[i - 1])]
    <2>2. \A i \in 0..n - 1 : h[i] = g[i]   BY <2>1
    <2>3. \A i \in 0..n : i # 0 => i - 1 \in 0..n - 1   OBVIOUS
    <2>4. h = [i \in 0..n |-> IF i = 0 THEN RootOnly(cards, stat, root)
                              ELSE Pop(cards, stat, h[i - 1])]
        BY <2>2, <2>3
    <2> HIDE DEF h
    <2>5. Runs(n, h)   BY <2>4
    <2> HIDE DEF Runs
    <2> QED   BY <2>5
<1> HIDE DEF P
<1>3. N \in P   BY <1>1, <1>2, AllUpTo
<1> DEFINE after == CHOOSE g : Runs(N, g)
<1>4. Runs(N, after)
    <2>1. \E g : Runs(N, g)   BY <1>3 DEF P
    <2> HIDE DEF Runs
    <2> QED   BY <2>1
<1>5. Snapshot(cards, stat, root) = after[N]
    BY DEF Snapshot
<1> HIDE DEF after
<1>6. after[0] = RootOnly(cards, stat, root)
      /\ \A n \in 1..N : after[n] = Pop(cards, stat, after[n - 1])
    BY <1>4
<1> QED   BY <1>5, <1>6

\* When the snapshot is not given up, it is of everything behind the card.
LEMMA SnapshotIsWhole ==
    ASSUME world \in Worlds, NEW f \in File,
           NEW s, s = Snapshot(Cards, status, f)
    PROVE  /\ s.raised \in BOOLEAN
           /\ s.raised => \E t \in BehindCard(f) : ~IsClear(t)
           /\ ~s.raised => /\ IsTrue(f, s) /\ IsClosed(s.graph)
                           /\ DOMAIN s.graph = {Root(f)} \cup BehindCard(f)
<1> DEFINE N == Cardinality(Id)
<1>1. N \in Nat /\ N = Cardinality(Id)
    BY FiniteAssumption, FS_CardinalityType
<1> HIDE DEF N
<1>2. PICK after : /\ s = after[N]
                   /\ after[0] = RootOnly(Cards, status, f)
                   /\ \A n \in 1..N : after[n] = Pop(Cards, status, after[n - 1])
    BY <1>1, SnapshotRuns
<1> DEFINE P == {n \in Nat : n <= N => SnapshotInv(f, n, after[n])}
<1>3. 0 \in P   BY <1>2, RootSnapshot
<1>4. ASSUME NEW n \in 1..N, n - 1 \in P PROVE n \in P
    <2>1. n - 1 \in Nat /\ n - 1 <= N /\ (n - 1) + 1 = n   BY <1>1
    <2>2. SnapshotInv(f, n - 1, after[n - 1])   BY <1>4, <2>1
    <2>3. SnapshotInv(f, (n - 1) + 1, Pop(Cards, status, after[n - 1]))
        BY <2>1, <2>2, PopIsTrue
    <2>4. SnapshotInv(f, n, after[n])   BY <1>2, <2>1, <2>3
    <2> QED   BY <2>4
<1> HIDE DEF P
<1>5. N \in P   BY <1>1, <1>3, <1>4, AllUpTo
<1>6. SnapshotInv(f, N, s)   BY <1>1, <1>2, <1>5 DEF P
<1>7. ASSUME ~s.raised
      PROVE  /\ IsTrue(f, s) /\ IsClosed(s.graph)
             /\ DOMAIN s.graph = {Root(f)} \cup BehindCard(f)
    <2> DEFINE known == DOMAIN s.graph
    <2>1. IsTrue(f, s) /\ QueueIsTrue(s)   BY <1>6, <1>7 DEF SnapshotInv
    <2>2. BehindCard(f) \subseteq Id /\ Root(f) \in Id
        BY NamesAreIds DEF BehindCard, Behind
    <2>3. known \subseteq Id   BY <2>1, <2>2 DEF IsTrue
    <2>4. s.queue = <<>>
        <3> SUFFICES ASSUME s.queue # <<>> PROVE FALSE
            OBVIOUS
        <3>1. Cardinality(Popped(s)) >= N   BY <1>6, <1>7 DEF SnapshotInv
        <3>2. s.queue \in Seq(known)   BY <2>1 DEF QueueIsTrue
        <3>3. Len(s.queue) \in Nat \ {0} /\ DOMAIN s.queue = 1..Len(s.queue)
            BY <3>2, LenProperties, EmptySeq
        <3>4. 1 \in 1..Len(s.queue)   BY <3>3
        <3>5. s.queue[1] \in ToSet(s.queue) /\ s.queue[1] \in known
            BY <3>2, <3>3, <3>4, ElementOfSeq DEF ToSet
        <3>6. Popped(s) \subseteq Id \ {s.queue[1]} /\ s.queue[1] \in Id
            BY <2>3, <3>5 DEF Popped
        <3>7. /\ IsFiniteSet(Id \ {s.queue[1]})
              /\ Cardinality(Id \ {s.queue[1]}) = N - 1
            BY <1>1, <3>6, FiniteAssumption, FS_RemoveElement
        <3>8. Cardinality(Popped(s)) <= N - 1 /\ Cardinality(Popped(s)) \in Nat
            BY <3>6, <3>7, FS_Subset, FS_CardinalityType
        <3> QED   BY <1>1, <3>1, <3>8
    <2>5. \A t \in known : s.graph[t] \subseteq known
        <3>1. ToSet(s.queue) = {}   BY <2>4 DEF ToSet
        <3>2. ASSUME NEW t \in s.missing PROVE s.graph[t] = {}
            <4>1. t \in known /\ t # Root(f) /\ Found(Cards, t) = {} /\ s.graph[t] = Deps(f, t)
                BY <2>1, <3>2 DEF IsTrue, LookedFor
            <4> QED   BY <4>1 DEF Deps, Root
        <3>3. \A t \in known \ s.missing : s.graph[t] \subseteq known
            BY <2>1, <3>1 DEF QueueIsTrue, Popped
        <3> QED   BY <3>2, <3>3
    <2>6. ASSUME NEW t \in BehindCard(f) PROVE t \in known
        <3>1. \A v \in known : Deps(f, v) \subseteq known   BY <2>1, <2>5 DEF IsTrue
        <3>2. Root(f) \in known   BY <2>1 DEF IsTrue
        <3> QED   BY <2>3, <3>1, <3>2 DEF BehindCard, Behind, Root
    <2>7. known \subseteq {Root(f)} \cup BehindCard(f) /\ Root(f) \in known
        BY <2>1 DEF IsTrue
    <2> QED   BY <2>1, <2>3, <2>5, <2>6, <2>7 DEF IsClosed
<1> QED   BY <1>6, <1>7 DEF SnapshotInv

\* A cycle of the snapshot's graph is one of the cards.
LEMMA SameCycles ==
    ASSUME world \in Worlds, NEW f \in File, NEW s, IsTrue(f, s), IsClosed(s.graph),
           NEW n \in DOMAIN s.graph
    PROVE  OnCycle(s.graph, n) <=> n \in Behind(f, n)
<1> DEFINE known == DOMAIN s.graph
<1>1. /\ known \subseteq Id
      /\ \A t \in known : s.graph[t] = Deps(f, t) /\ s.graph[t] \subseteq known
    BY DEF IsTrue, IsClosed
<1>2. ASSUME OnCycle(s.graph, n), NEW S \in SUBSET Id, Deps(f, n) \subseteq S,
             \A v \in S : Deps(f, v) \subseteq S
      PROVE  n \in S
    <2>1. s.graph[n] \subseteq S \cap known   BY <1>1, <1>2
    <2>2. \A v \in S \cap known : s.graph[v] \subseteq S \cap known   BY <1>1, <1>2
    <2> QED   BY <1>2, <2>1, <2>2 DEF OnCycle
<1>3. ASSUME n \in Behind(f, n), NEW S \in SUBSET known, s.graph[n] \subseteq S,
             \A v \in S : s.graph[v] \subseteq S
      PROVE  n \in S
    <2>1. S \in SUBSET Id /\ Deps(f, n) \subseteq S /\ \A v \in S : Deps(f, v) \subseteq S
        BY <1>1, <1>3
    <2> QED   BY <1>3, <2>1 DEF Behind
<1>4. n \in Id   BY <1>1
<1> QED   BY <1>2, <1>3, <1>4 DEF Behind, OnCycle

\* The gate opens a card exactly when it may run. (_enforce_dependencies_or_fail)
LEMMA GateIsExact ==
    ASSUME world \in Worlds, NEW f \in File, Loads(Cards[f])
    PROVE  DependencyGate(Cards, status, f) = "open" <=> MayRun(f)
<1> DEFINE s == Snapshot(Cards, status, f)
<1>1. DependencyGate(Cards, status, f) = "open" <=>
          ~s.raised /\ ~HasCycle(s.graph, Root(f)) /\ Blockers(s, Root(f)) = {}
    BY DEF DependencyGate, Root
<1>2. /\ s.raised \in BOOLEAN
      /\ s.raised => \E t \in BehindCard(f) : ~IsClear(t)
      /\ ~s.raised => /\ IsTrue(f, s) /\ IsClosed(s.graph)
                      /\ DOMAIN s.graph = {Root(f)} \cup BehindCard(f)
    BY SnapshotIsWhole
<1> HIDE DEF s
<1>3. Root(f) \notin Cards[f].deps   BY DEF Loads, DepsAreSound, Root
<1>4. CASE s.raised
    BY <1>1, <1>2, <1>4 DEF MayRun
<1>5. CASE ~s.raised
    <2>1. /\ IsTrue(f, s) /\ IsClosed(s.graph) /\ Root(f) \in DOMAIN s.graph
          /\ DOMAIN s.graph = {Root(f)} \cup BehindCard(f)
        BY <1>2, <1>5
    <2>2. HasCycle(s.graph, Root(f)) <=> \E t \in DOMAIN s.graph : t \in Behind(f, t)
        BY <2>1, SearchFindsCycles, SameCycles
    <2>3. s.graph[Root(f)] = Cards[f].deps
        BY <2>1 DEF IsTrue, Deps, Root
    <2>4. ASSUME NEW t \in Cards[f].deps
          PROVE  /\ t \in LookedFor(f, s)
                 /\ t \in s.missing <=> Found(Cards, t) = {}
                 /\ t \notin s.missing => s.status[t] = status[TheFile(Cards, t)]
                                          /\ Found(Cards, t) = {TheFile(Cards, t)}
        <3>1. t \in LookedFor(f, s)   BY <1>3, <2>1, <2>3 DEF IsClosed, LookedFor
        <3> QED   BY <2>1, <3>1, OnlyFile DEF IsTrue
    <2>5. Blockers(s, Root(f)) = {} <=>
              \A t \in Cards[f].deps : \E g \in Found(Cards, t) : status[g] = "done"
        BY <2>3, <2>4 DEF Blockers
    <2>6. (\E t \in DOMAIN s.graph : t \in Behind(f, t)) <=>
              \E t \in BehindCard(f) : t = Root(f) \/ t \in Behind(f, t)
        BY <2>1 DEF BehindCard, Root
    <2>7. ASSUME NEW t \in BehindCard(f), t # Root(f) PROVE IsClear(t)
        <3>1. t \in LookedFor(f, s)   BY <2>1, <2>7 DEF LookedFor
        <3>2. CASE t \in s.missing
            <4>1. Found(Cards, t) = {}   BY <2>1, <3>1, <3>2 DEF IsTrue
            <4> QED   BY <4>1, FS_EmptySet DEF IsClear
        <3>3. CASE t \notin s.missing
            <4>1. IsItsCard(Cards, t)   BY <2>1, <3>1, <3>3 DEF IsTrue
            <4>2. Found(Cards, t) = {TheFile(Cards, t)} /\ Cardinality(Found(Cards, t)) = 1
                BY <4>1, OnlyFile
            <4> QED   BY <4>1, <4>2 DEF IsClear, IsItsCard
        <3> QED   BY <3>2, <3>3
    <2> QED   BY <1>1, <1>5, <2>2, <2>5, <2>6, <2>7 DEF MayRun, Root
<1> QED   BY <1>2, <1>4, <1>5

\* The gate for the dependencies tells exactly the cards that may run from those that
\* may not, in whatever state the commands before have left the cards; and a card
\* with lanes that loads has lanes that can be run in some order and share no file.
\* (_build_task_dependency_snapshot, _detect_graph_cycle, _normalize_task_lanes)
THEOREM GateExact == Spec => []GateAgrees
<1>1. Init => TypeInv
    BY InitTypeInv
<1>2. TypeInv => GateAgrees
    <2> SUFFICES ASSUME TypeInv, NEW f \in File, Loads(Cards[f])
                 PROVE  /\ DependencyGate(Cards, status, f) = "open" <=> MayRun(f)
                        /\ LanesAreSeparate(Cards[f].lanes) /\ LanesHaveOrder(Cards[f].lanes)
        BY DEF GateAgrees
    <2>1. world \in Worlds   BY DEF TypeInv, TypeOK
    <2>2. Cards[f].lanes \in Seq(Lanes)   BY <2>1, WorldsAssumption DEF Cards
    <2>3. LanesAreSound(Cards[f].lanes)   BY DEF Loads
    <2>4. Schedulable(Cards[f].lanes)   BY <2>3 DEF LanesAreSound
    <2> QED   BY <2>1, <2>2, <2>3, <2>4, GateIsExact, StagesAreAnOrder, LanesStayApart
<1> QED   BY <1>1, <1>2, NextTypeInv, PTL DEF Spec

-----------------------------------------------------------------------------
(* The order of the cards.                                                 *)

DepsDone(f) == \A t \in Cards[f].deps : \E g \in Found(Cards, t) : g \in everDone

StatusIsKept == \A f \in File : status[f] = "done" => f \in everDone

OrderInv ==
    /\ TypeInv /\ StatusIsKept
    /\ \A f \in everDone \cup ({at} \cap File) : DepsDone(f)

LEMMA NextOrder == OrderInv /\ [Next]_vars => OrderInv'
<1> SUFFICES ASSUME OrderInv, [Next]_vars
             PROVE  StatusIsKept' /\ \A f \in (everDone \cup ({at} \cap File))' : DepsDone(f)'
    BY NextTypeInv DEF OrderInv
<1>1. status \in [File -> Statuses] /\ everDone \subseteq File
    BY DEF OrderInv, TypeInv, TypeOK
<1>2. ASSUME NEW f \in File, Start(f)
      PROVE  StatusIsKept' /\ \A g \in (everDone \cup ({at} \cap File))' : DepsDone(g)'
    <2>1. world \in Worlds   BY DEF OrderInv, TypeInv, TypeOK
    <2>2. \A t \in Cards[f].deps : \E g \in Found(Cards, t) : status[g] = "done"
        BY <1>2, <2>1, GateIsExact DEF Start, MayStart, MayRun
    <2>3. DepsDone(f)
        BY <2>2 DEF OrderInv, StatusIsKept, DepsDone, Found, Candidates, Holders
    <2>4. Cards' = Cards /\ everDone' = everDone /\ at' = f
          /\ status' = [status EXCEPT ![f] = "in_progress"]
        BY <1>2 DEF Start, Cards
    <2> QED   BY <1>1, <2>3, <2>4 DEF OrderInv, StatusIsKept, DepsDone
<1>3. ASSUME NEW f \in File, Refuse(f)
      PROVE  StatusIsKept' /\ \A g \in (everDone \cup ({at} \cap File))' : DepsDone(g)'
    <2>1. Cards' = Cards /\ everDone' = everDone /\ at' = at
          /\ status' = [status EXCEPT ![f] = "blocked"]
        BY <1>3 DEF Refuse, Cards
    <2> QED   BY <1>1, <2>1 DEF OrderInv, StatusIsKept, DepsDone
<1>4. ASSUME NEW s \in {"done", "blocked"}, Close(at, s), at \in File
      PROVE  StatusIsKept' /\ \A g \in (everDone \cup ({at} \cap File))' : DepsDone(g)'
    <2>1. /\ Cards' = Cards /\ at' = None
          /\ everDone' = IF s = "done" THEN everDone \cup {at} ELSE everDone
          /\ status' = [status EXCEPT ![at] = s]
        BY <1>4 DEF Close, Cards
    <2>2. everDone \subseteq everDone' /\ everDone' \subseteq everDone \cup {at}
        BY <2>1
    <2>3. StatusIsKept'
        BY <1>1, <1>4, <2>1 DEF OrderInv, StatusIsKept
    <2>4. \A g \in everDone' \cup ({at'} \cap File) : DepsDone(g)
        BY <1>4, <2>1, <2>2, NoneAssumption DEF OrderInv
    <2> QED   BY <2>1, <2>2, <2>3, <2>4 DEF DepsDone
<1>5. CASE UNCHANGED <<world, status, at, everDone>>
    BY <1>5 DEF OrderInv, StatusIsKept, DepsDone, Cards
<1>6. ASSUME NEW w \in world.works, WorkerFails(w)
      PROVE  Close(at, "blocked") /\ at \in File
    BY <1>6 DEF WorkerFails, OrderInv, TypeInv, TypeOK
<1>7. CASE NoChangeSuccess \/ NoChangeFailure \/ PatchViolation \/ Approve \/ Exhausted
    <2>1. at \in File
        BY <1>7 DEF NoChangeSuccess, NoChangeFailure, NothingCommitted, PatchViolation, Changed,
                    Approve, Exhausted, OrderInv, TypeInv, TypeOK
    <2>2. Close(at, "done") \/ Close(at, "blocked")
        BY <1>7 DEF NoChangeSuccess, NoChangeFailure, PatchViolation, Approve, Exhausted
    <2> QED   BY <1>4, <2>1, <2>2
<1>8. ASSUME NEW w \in world.works, Work(w) PROVE UNCHANGED <<world, status, at, everDone>>
    BY <1>8 DEF Work
<1>9. CASE CommitForWorker \/ CommitFails \/ ToReview \/ ChangesRequired
    BY <1>5, <1>9 DEF CommitForWorker, CommitFails, ToReview, ChangesRequired
<1> QED   BY <1>2, <1>3, <1>4, <1>5, <1>6, <1>7, <1>8, <1>9 DEF Next, vars

LEMMA DoneBehind ==
    ASSUME OrderInv
    PROVE  StartedInOrder
<1> SUFFICES ASSUME NEW f \in everDone \cup ({at} \cap File), NEW t \in BehindCard(f)
             PROVE  \E g \in Found(Cards, t) : g \in everDone
    BY DEF StartedInOrder
<1> DEFINE S == {u \in Id : \E g \in Found(Cards, u) : g \in everDone}
<1>1. f \in File /\ everDone \subseteq File   BY DEF OrderInv, TypeInv, TypeOK
<1>2. \A g \in File : Cards[g].deps \subseteq Id
    BY WorldsAssumption DEF OrderInv, TypeInv, TypeOK, Cards
<1>3. \A g \in everDone \cup {f} : Cards[g].deps \subseteq S
    BY <1>1, <1>2 DEF OrderInv, DepsDone
<1>4. Deps(f, Cards[f].id) \subseteq S
    BY <1>3 DEF Deps
<1>5. ASSUME NEW v \in S PROVE Deps(f, v) \subseteq S
    <2>1. PICK g \in Found(Cards, v) : g \in everDone   OBVIOUS
    <2>2. CASE v = Cards[f].id   BY <1>3, <2>2 DEF Deps
    <2>3. CASE v # Cards[f].id /\ Cardinality(Found(Cards, v)) = 1
        <3>1. \A h \in Found(Cards, v) : h = g
            <4>1. Found(Cards, v) \subseteq File   BY DEF Found, Candidates, Holders
            <4>2. IsFiniteSet(Found(Cards, v))
                BY <4>1, FiniteAssumption, FS_Subset
            <4> QED   BY <2>1, <2>3, <4>2, FS_Singleton
        <3>2. Deps(f, v) = UNION {Cards[h].deps : h \in Found(Cards, v)}
            BY <2>3 DEF Deps
        <3> QED   BY <1>3, <2>1, <3>1, <3>2
    <2>4. CASE v # Cards[f].id /\ Cardinality(Found(Cards, v)) # 1
        BY <2>4 DEF Deps
    <2> QED   BY <2>2, <2>3, <2>4
<1>6. t \in S
    BY <1>4, <1>5 DEF BehindCard, Behind
<1> QED   BY <1>6

\* Whatever card runs or was done once has everything behind it done before, for any
\* cards, any graph and any order of commands: the gate looks at what a card names,
\* and each of these was let through the same gate. (_enforce_dependencies_or_fail)
THEOREM StartsInOrder == Spec => []StartedInOrder
<1>1. Init => OrderInv
    BY InitTypeInv, NoneAssumption DEF Init, OrderInv, StatusIsKept
<1> QED   BY <1>1, NextOrder, DoneBehind, PTL DEF Spec
=============================================================================
