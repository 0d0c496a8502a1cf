----------------------------- MODULE TaskGraph -----------------------------
(***************************************************************************)
(* What the loop makes of the task cards in .loop/tasks before it runs one *)
(* of them: how a dependency's card is found, how the graph of everything  *)
(* the card depends on is built and searched for a cycle, which of its     *)
(* dependencies block it, and which lane definitions a card may carry.     *)
(*                                                                         *)
(* A path is the sequence of its segments.  A card's `form` says how far   *)
(* its file can be read: "garbage" is no JSON object, "malformed" breaks   *)
(* the contract in a field that is not modelled (or lists a dependency     *)
(* twice).  `names` are the ids whose file name patterns its name matches. *)
(***************************************************************************)
EXTENDS Naturals, FiniteSets, SequencesExt

CONSTANTS Id,         \* task ids that cards may name
          File        \* the files of .loop/tasks

ASSUME FiniteAssumption == IsFiniteSet(Id) /\ IsFiniteSet(File)

Statuses == {"todo", "in_progress", "done", "blocked"}

Globs == {"*", "**"}

\* Stands in front of an absolute path, and behind one that ends in a slash.
Slash == "/"

-----------------------------------------------------------------------------
(* Lanes of a card: a sequence of [id, owners, deps].                      *)

Normal(p) == SelectSeq(p, LAMBDA s : s \notin {Slash, "."})

\* _normalize_lane_owner_path: relative, inside the repository, literal.
IsOwnerPath(p) ==
    /\ p # <<>> /\ Head(p) # Slash /\ Normal(p) # <<>>
    /\ \A i \in DOMAIN p : p[i] # ".." /\ p[i] \notin Globs

Owners(lane) == {Normal(p) : p \in lane.owners}

\* _owner_paths_overlap: one is the other or a directory above it.
Overlap(p, q) == IsPrefix(p, q) \/ IsPrefix(q, p)

LaneIsSound(lane) ==
    /\ lane.owners # {} /\ \A p \in lane.owners : IsOwnerPath(p)
    /\ Cardinality(Owners(lane)) = Cardinality(lane.owners)
    /\ lane.id \notin lane.deps

LaneIds(lanes) == {lanes[i].id : i \in DOMAIN lanes}

\* Mutant of Apart: only the same path claimed twice is a conflict.
Distinct(a, b) == Owners(a) \cap Owners(b) = {}

Apart(a, b) == \A p \in Owners(a), q \in Owners(b) : ~Overlap(p, q)

\* Kahn's stages run out before the lanes do if and only if there is a cycle.
Schedulable(lanes) ==
    LET Staged[n \in 0..Len(lanes)] ==
          IF n = 0 THEN {}
          ELSE Staged[n - 1] \cup {i \in DOMAIN lanes :
                   lanes[i].deps \subseteq {lanes[j].id : j \in Staged[n - 1]}}
    IN  Staged[Len(lanes)] = DOMAIN lanes

\* _normalize_task_lanes and the plan of the stages.
LanesAreSound(lanes) ==
    /\ \A i \in DOMAIN lanes : LaneIsSound(lanes[i])
    /\ \A i, j \in DOMAIN lanes : i < j => lanes[i].id # lanes[j].id
    /\ \A i \in DOMAIN lanes : lanes[i].deps \subseteq LaneIds(lanes)
    /\ \A i, j \in DOMAIN lanes : i < j => Apart(lanes[i], lanes[j])
    /\ Schedulable(lanes)

-----------------------------------------------------------------------------
(* Cards.                                                                  *)

\* _normalize_task_dependencies: a card that depends on itself is refused.
DepsAreSound(c) == c.id \notin c.deps

\* _load_task_card_or_raise
Loads(c) == c.form = "sound" /\ DepsAreSound(c) /\ LanesAreSound(c.lanes)

\* A file whose name fits the id; only if there is none, one that holds it.
Candidates(cards, t) == {f \in File : t \in cards[f].names}
Holders(cards, t) == {f \in File : cards[f].form # "garbage" /\ cards[f].id = t}
Found(cards, t) == IF Candidates(cards, t) # {} THEN Candidates(cards, t) ELSE Holders(cards, t)

-----------------------------------------------------------------------------
(* The snapshot: breadth first from the root, every card read once.        *)

RootOnly(cards, status, root) ==
    [queue   |-> <<cards[root].id>>,
     graph   |-> [t \in {cards[root].id} |-> cards[root].deps],
     status  |-> [t \in {cards[root].id} |-> status[root]],
     missing |-> {},
     raised  |-> FALSE]

TheFile(cards, t) == CHOOSE f \in Found(cards, t) : TRUE

\* One card, that can be loaded and has the id that was looked for.
IsItsCard(cards, t) ==
    /\ Cardinality(Found(cards, t)) = 1
    /\ Loads(cards[TheFile(cards, t)]) /\ cards[TheFile(cards, t)].id = t

\* What the first card of the queue names and nobody has named before; nothing,
\* when the queue is empty.
Pop(cards, status, s) ==
    LET known == DOMAIN s.graph
        new   == s.graph[Head(s.queue)] \ known
        lost  == {t \in new : Found(cards, t) = {}}
        cardOf(t) == cards[TheFile(cards, t)]
    IN  IF s.raised \/ s.queue = <<>> THEN s
        ELSE IF \E t \in new \ lost : ~IsItsCard(cards, t) THEN [s EXCEPT !.raised = TRUE]
        ELSE [queue   |-> Tail(s.queue) \o SetToSeq(new \ lost),
              graph   |-> [t \in known \cup new |-> IF t \in known THEN s.graph[t]
                                                    ELSE IF t \in lost THEN {}
                                                    ELSE cardOf(t).deps],
              status  |-> [t \in DOMAIN s.status \cup (new \ lost) |->
                             IF t \in known THEN s.status[t] ELSE status[TheFile(cards, t)]],
              missing |-> s.missing \cup lost,
              raised  |-> FALSE]

\* _build_task_dependency_snapshot: an id enters the queue once.
Snapshot(cards, status, root) ==
    LET After[n \in 0..Cardinality(Id)] ==
          IF n = 0 THEN RootOnly(cards, status, root) ELSE Pop(cards, status, After[n - 1])
    IN  After[Cardinality(Id)]

-----------------------------------------------------------------------------
(* The search for a cycle: depth first.  `path` is the stack of visit(), and *)
(* `seen` holds what it has visited.  The order in which a node's           *)
(* dependencies are taken is any; the closed path that goes into the message *)
(* is left out.                                                             *)

\* Mutant of Closes: any node that was seen before closes a cycle.
ClosesAnywhere(d, path, seen) == d \in seen

Closes(d, path, seen) == d \in ToSet(path)

Begin(first) == [path |-> <<first>>, seen |-> {first}, cycle |-> FALSE]

\* Where the search can go on: a dependency that is not passed over, or a new start.
Ahead(graph, s) ==
    IF s.path = <<>> THEN DOMAIN graph \ s.seen
    ELSE {d \in graph[Last(s.path)] \cap DOMAIN graph :
             Closes(d, s.path, s.seen) \/ d \notin s.seen}

Visit(graph, s) ==
    LET d == CHOOSE d \in Ahead(graph, s) : TRUE
    IN  IF s.cycle THEN s
        ELSE IF Ahead(graph, s) = {} THEN [s EXCEPT !.path = IF @ = <<>> THEN @ ELSE Front(@)]
        ELSE IF Closes(d, s.path, s.seen) THEN [s EXCEPT !.cycle = TRUE]
        ELSE [s EXCEPT !.path = Append(@, d), !.seen = @ \cup {d}]

\* _detect_graph_cycle: every node is put on the stack once and taken from it once.
HasCycle(graph, first) ==
    LET After[n \in 0..2 * Cardinality(Id)] ==
          IF n = 0 THEN Begin(first) ELSE Visit(graph, After[n - 1])
    IN  After[2 * Cardinality(Id)].cycle

-----------------------------------------------------------------------------
(* The gate.                                                               *)

\* Mutant of Blockers: a dependency whose run has ended blocks no longer.
UnfinishedBlockers(s, t) ==
    {d \in s.graph[t] : d \in s.missing \/ s.status[d] \in {"todo", "in_progress"}}

\* _dependency_blocked_reasons: what the card names itself, and nothing behind it.
Blockers(s, t) == {d \in s.graph[t] : d \in s.missing \/ s.status[d] # "done"}

\* _enforce_dependencies_or_fail
DependencyGate(cards, status, root) ==
    LET s == Snapshot(cards, status, root)
        t == cards[root].id
    IN  CASE s.raised                   -> "invalid_task_dependencies"
          [] HasCycle(s.graph, t)       -> "dependency_cycle"
          [] Blockers(s, t) # {}        -> "blocked_dependencies"
          [] OTHER                      -> "open"
=============================================================================
