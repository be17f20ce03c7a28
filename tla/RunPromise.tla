----------------------------- MODULE RunPromise -----------------------------
(***************************************************************************)
(* What a Dev-Pilot run promises to the clients that poll it (the run      *)
(* dashboard, GET /runs/{id}, the autonomy loop): it starts once, its      *)
(* stage only moves along the stage map, a verdict comes from the quality  *)
(* gate and from nowhere else, it may fail at any point before that, and   *)
(* a terminal status is the last one.                                      *)
(***************************************************************************)
EXTENDS RunStages

VARIABLES status, stage

Live == status \in {"pending", "running"}

Init == status = "pending" /\ stage = "initializing"

(* Work on the run: at most one move along the map.                        *)
Proceed ==
  /\ Live
  /\ status' = "running"
  /\ stage' \notin TerminalStages
  /\ Legal(stage, stage')

(* The verdict of the quality gate completes the run.                      *)
Conclude ==
  /\ status = "running"
  /\ stage = "quality_gate" /\ stage' = "completed"
  /\ status' \in {"approved", "rejected", "needs_human_review"}

(* The run fails; its stage says where, or becomes FAILED itself.          *)
Break ==
  /\ Live
  /\ status' = "failed"
  /\ stage' \in {stage, "failed"}

Next == Proceed \/ Conclude \/ Break

Spec == Init /\ [][Next]_<<status, stage>>
=============================================================================
