--------------------------- MODULE StateRegister ---------------------------
(***************************************************************************)
(* What state.json promises to the loop: it is a register that holds one   *)
(* contract, with a spare to fall back on.  Nothing is ever seen half      *)
(* written, and a save that goes over a contract has put it aside first,   *)
(* so that damage to the file can go back to it.  The spare is no promise  *)
(* for ever: there is none before the second save, none after its          *)
(* replacement was interrupted, and none after it was used, until a save   *)
(* sets a contract aside; damage in that time loses the contract.  A       *)
(* contract that is cleared may leave its spare to the next one.           *)
(***************************************************************************)
CONSTANTS Value, Nothing

VARIABLES held, spare

vars == <<held, spare>>

Init == held = Nothing /\ spare = Nothing

SetAside == spare' = held /\ UNCHANGED held

Commit(v) ==
    /\ held = Nothing \/ spare = held
    /\ held' = v /\ UNCHANGED spare

\* The spare is given up before it is replaced, and after it was used.
GiveUpSpare == spare' = Nothing /\ UNCHANGED held

Clear == held' = Nothing /\ UNCHANGED spare

\* The file is damaged from outside: what is held now is the spare, or nothing, for
\* damage of a kind that does not make the loop look for the spare.
Damage == held' \in {spare, Nothing} /\ UNCHANGED spare

Next == SetAside \/ (\E v \in Value : Commit(v)) \/ GiveUpSpare \/ Clear \/ Damage

Spec == Init /\ [][Next]_vars
=============================================================================
