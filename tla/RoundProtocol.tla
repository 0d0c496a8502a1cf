--------------------------- MODULE RoundProtocol ---------------------------
(***************************************************************************)
(* What state.json promises to whoever reads it (the operator, `loop       *)
(* status`, a bridge that follows events.jsonl), as long as no child       *)
(* outlives its parent and no process dies inside a round on its own: one  *)
(* run at a time goes from round to round, each round from its worker to   *)
(* its reviewer, and only a reviewer's turn ends in an approval.           *)
(*                                                                         *)
(* RunLoop, where a parent and its children write the file from the copies *)
(* they hold, implements this module; the mapping is at its end.           *)
(***************************************************************************)
EXTENDS Integers

CONSTANTS MaxRounds, Failures

VARIABLES phase, round, run, outcome, last    \* last: the newest run id

vars == <<phase, round, run, outcome, last>>

Init ==
    /\ phase = "idle"
    /\ round = 0
    /\ run = 0
    /\ outcome = "none"
    /\ last = 0

InFlight == phase \in {"awaiting_work", "awaiting_review"}

(* A new run with an id of its own, whatever was there.                    *)
Begin ==
    /\ last' = last + 1
    /\ run' = last'
    /\ round' = 1
    /\ phase' = "awaiting_work"
    /\ outcome' = "none"

(* --reset.                                                                *)
Forget ==
    /\ phase' = "idle"
    /\ round' = 0
    /\ run' = 0
    /\ outcome' = "none"
    /\ UNCHANGED last

(* A round taken up again starts from its worker.                          *)
Reopen ==
    /\ InFlight
    /\ phase' = "awaiting_work"
    /\ UNCHANGED <<round, run, outcome, last>>

Submit ==
    /\ phase = "awaiting_work"
    /\ phase' = "awaiting_review"
    /\ UNCHANGED <<round, run, outcome, last>>

Retry ==
    /\ phase = "awaiting_review"
    /\ round <= MaxRounds
    /\ phase' = "awaiting_work"
    /\ round' = round + 1
    /\ UNCHANGED <<run, outcome, last>>

Succeed ==
    /\ \/ phase = "awaiting_work" /\ outcome' = "no_change_success"
       \/ phase = "awaiting_review" /\ outcome' = "approved"
    /\ phase' = "done"
    /\ UNCHANGED <<round, run, last>>

Fail ==
    /\ InFlight
    /\ outcome' \in Failures
    /\ phase' = "done"
    /\ UNCHANGED <<round, run, last>>

(* The parent gives a failed round its own name for the failure.           *)
Rename ==
    /\ phase = "done" /\ outcome \in Failures
    /\ outcome' \in Failures
    /\ UNCHANGED <<phase, round, run, last>>

(* A command refused before it has a run.  Its dependencies are unmet: the *)
(* old run's contract, or an empty one, is marked with the refusal, and a  *)
(* round is filled in where there is none; or there is nothing to resume.  *)
Refuse ==
    /\ phase' = "done"
    /\ \/ /\ outcome' = "blocked_dependencies"
          /\ \/ ~InFlight /\ run' = run /\ round' = IF round < 1 THEN 1 ELSE round
             \/ run' = 0 /\ round' = 1
       \/ /\ outcome' = "invalid_resume_state"
          /\ phase = "idle"
          /\ UNCHANGED <<run, round>>
    /\ UNCHANGED last

Next ==
    \/ Begin \/ Forget \/ Reopen \/ Submit \/ Retry \/ Succeed \/ Fail
    \/ Rename \/ Refuse

Spec == Init /\ [][Next]_vars
=============================================================================
