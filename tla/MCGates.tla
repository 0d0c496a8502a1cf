------------------------------ MODULE MCGates ------------------------------
(* Instances of Gates for TLC. *)
EXTENDS Gates

CONSTANTS T1, T2, T3, Ghost, f1, f2, f3

Ids == {T1, T2, T3, Ghost}
Files == {f1, f2, f3}

src == <<"src">>
a == <<"src", "a">>
b == <<"src", "b">>
plan == <<"docs", "plan.md">>
new == <<"new", "n">>
old == <<"docs", "old">>
bus == <<".loop", "x">>
Dirs == {src, <<"docs">>}

Plain(t) == [form |-> "sound", names |-> {t}, id |-> t, deps |-> {}, lanes |-> <<>>,
             scope |-> {}, patch |-> None, doc |-> FALSE]
Absent == [Plain(Ghost) EXCEPT !.form = "garbage", !.names = {}]
Three == (f1 :> Plain(T1)) @@ (f2 :> Plain(T2)) @@ (f3 :> Plain(T3))

Idle == [commits |-> <<>>, aside |-> <<>>, leaves |-> {}, says |-> "tip", declared |-> {},
         outside |-> FALSE, tests |-> FALSE]
Touch(p, places) == [touches |-> p :> places, gone |-> {}]
Commits(p, places) == [Idle EXCEPT !.commits = <<Touch(p, places)>>, !.declared = {p}]
Dirt(p, k) == [path |-> p, from |-> <<>>, kind |-> k, at |-> {"x"}]
Renamed(p, q) == [Dirt(q, "staged") EXCEPT !.from = p]
Leaves(p, k) == [Idle EXCEPT !.says = "base", !.declared = {p}, !.leaves = {Dirt(p, k)}]
Moves(p, q) == [Leaves(q, "staged") EXCEPT !.leaves = {Renamed(p, q)}]

World(cards, works, rounds, runs) ==
    [cards |-> cards, works |-> works, dirtyOk |-> TRUE, asError |-> TRUE, gating |-> TRUE,
     rounds |-> rounds, runs |-> runs]

-----------------------------------------------------------------------------
(* Dependencies: every graph of three cards, in which one may name an id   *)
(* that has no card; and cards that are not what their names say.          *)

Depend(d1, d2, d3) == [Three EXCEPT ![f1].deps = d1, ![f2].deps = d2, ![f3].deps = d3]

Graphs3 == {Depend(d1, d2, d3) : d1 \in SUBSET {T2, T3, Ghost}, d2 \in SUBSET {T1, T3},
                                 d3 \in SUBSET {T1, T2}}

Chain == Depend({}, {T1}, {T2})

Lane(t, owners, deps) == [id |-> t, owners |-> owners, deps |-> deps]
Lanes2(p, q, deps) == <<Lane("l1", {p}, deps), Lane("l2", {q}, {})>>

Quirks ==
    { [Chain EXCEPT ![f2].names = {T1, T2}],                    \* an id found twice
      [Chain EXCEPT ![f1].names = {T2}, ![f2].names = {T1}],    \* names of each other
      [Chain EXCEPT ![f1].names = {}],                          \* found by what is in it
      [Chain EXCEPT ![f1].names = {}, ![f1].form = "garbage"],
      [Chain EXCEPT ![f1].form = "malformed"],
      [Chain EXCEPT ![f3].id = T1, ![f3].deps = {}],            \* one id, two cards
      [Chain EXCEPT ![f1].lanes = Lanes2(src, a, {})],
      [Chain EXCEPT ![f1].lanes = Lanes2(a, b, {"l2"})],
      [Chain EXCEPT ![f1].lanes = <<Lane("l1", {a}, {"l2"}), Lane("l2", {b}, {"l1"})>>],
      [Chain EXCEPT ![f1].lanes = Lanes2(<<"..", "a">>, b, {})] }

GraphWorlds == {World(c, {Commits(a, {"x"})}, 1, 4) : c \in Graphs3 \cup Quirks}

-----------------------------------------------------------------------------
(* Working trees: two cards that own different files, and every way a      *)
(* worker may come short of a commit.                                      *)

Two(scope1, scope2) == [Three EXCEPT ![f1].scope = scope1, ![f2].scope = scope2, ![f3] = Absent]

ShortWorks ==
    { Commits(a, {"x"}), Idle,
      [Leaves(a, "changed") EXCEPT !.declared = {<<".", "src", "a", Slash>>}],
      Leaves(b, "changed"),
      [Leaves(a, "changed") EXCEPT !.declared = {b}],
      [Leaves(new, "new") EXCEPT !.declared = {new, a}],
      Moves(old, a), Moves(a, bus), Leaves(bus, "staged"),
      [Idle EXCEPT !.says = "base", !.declared = {a}] }

TreeWorlds ==
    { World(Two({src}, {b, <<"src", "*">>}), ShortWorks, 2, 2),
      World(Two({a, <<"new">>}, {b}), ShortWorks, 2, 2),
      World([Two({}, {b}) EXCEPT ![f1].lanes = Lanes2(a, <<"docs">>, {})], ShortWorks, 2, 2),
      [World(Two({a}, {b}), ShortWorks, 2, 2) EXCEPT !.dirtyOk = FALSE] }

-----------------------------------------------------------------------------
(* Evidence: one card, commands that claim, are rejected and claim nothing.*)

One == [Three EXCEPT ![f2] = Absent, ![f3] = Absent]
Claims == { Commits(a, {"x"}), [Idle EXCEPT !.says = "base"],
            [Idle EXCEPT !.says = "base", !.declared = {a}],
            [Idle EXCEPT !.outside = TRUE], [Idle EXCEPT !.tests = TRUE] }
EvidenceWorlds ==
    { World(One, Claims, 2, 3), World([One EXCEPT ![f1].doc = TRUE], Claims, 2, 2),
      [World(One, Claims, 2, 2) EXCEPT !.gating = FALSE],
      [World(One, Claims, 2, 2) EXCEPT !.asError = FALSE] }

-----------------------------------------------------------------------------
(* Patches of a plan, after a card that may leave the tree dirty.          *)

Patch(anchors) == [files |-> {plan, <<"new", Slash>>}, anchors |-> anchors]
PatchCards(anchors) == [Two({plan}, {b}) EXCEPT ![f1].patch = Patch(anchors)]
At(s) == [file |-> plan, at |-> s]
PlanAnd(c) == [Idle EXCEPT !.commits = <<Touch(plan, {"x"}), c>>, !.declared = {plan}]
Patches == { Commits(plan, {"x"}), Commits(plan, {"x", "y"}), Commits(plan, {"y"}),
             Leaves(plan, "changed"), Leaves(b, "changed"), Moves(old, plan),
             PlanAnd([touches |-> plan :> {"x"}, gone |-> {old}]),
             [PlanAnd(Touch(b, {"x"})) EXCEPT !.says = "any"],
             [PlanAnd(Touch(b, {"x"})) EXCEPT !.says = "aside", !.aside = plan :> {"x"}],
             [Commits(plan, {"x"}) EXCEPT !.leaves = {Dirt(new, "new")}] }
PatchWorlds == {World(PatchCards(anchors), Patches, 2, 2) : anchors \in {{}, {At("x")}}}

AllWorlds == GraphWorlds \cup TreeWorlds \cup EvidenceWorlds \cup PatchWorlds
=============================================================================
