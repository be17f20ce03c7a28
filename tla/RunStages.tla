------------------------------ MODULE RunStages ------------------------------
(***************************************************************************)
(* The stage map of a Dev-Pilot run: STAGE_TRANSITIONS, TERMINAL_STAGES    *)
(* and the class RunStateMachine of app/models/orchestration.py.           *)
(*                                                                         *)
(* STAGE_TRANSITIONS lists the targets of a stage in order.  Every list    *)
(* but the one of INITIALIZING ends with FAILED and CANCELLED, so Forward  *)
(* keeps only the part before those two, which is the part whose order     *)
(* next_stage depends on.                                                  *)
(***************************************************************************)
EXTENDS Sequences, Naturals

TerminalStages == {"completed", "failed", "cancelled"}

WorkStages == {"acquiring_repository", "analyzing_repository",
               "analyzing_task", "planning", "retrieving_context", "coding",
               "validating_patch", "applying_patch", "testing", "repairing",
               "reviewing", "quality_gate"}

Stages == {"initializing"} \union WorkStages \union TerminalStages

NoStage == "no_stage"

Forward ==
  [ initializing         |-> <<"acquiring_repository">>,
    acquiring_repository |-> <<"analyzing_repository">>,
    analyzing_repository |-> <<"analyzing_task">>,
    analyzing_task       |-> <<"planning">>,
    planning             |-> <<"retrieving_context">>,
    retrieving_context   |-> <<"coding">>,
    coding               |-> <<"validating_patch">>,
    validating_patch     |-> <<"applying_patch">>,
    applying_patch       |-> <<"testing">>,
    testing              |-> <<"repairing", "reviewing">>,
    repairing            |-> <<"testing", "reviewing">>,
    reviewing            |-> <<"quality_gate">>,
    quality_gate         |-> <<"completed">> ]

(* The targets STAGE_TRANSITIONS allows from a non-terminal stage.         *)
Allowed(s) ==
  {Forward[s][i] : i \in 1 .. Len(Forward[s])}
    \union (IF s = "initializing" THEN {} ELSE {"failed", "cancelled"})

(* RunStateMachine.can_transition                                          *)
CanTransition(s, t) == s \notin TerminalStages /\ t \in Allowed(s)

(* RunStateMachine.next_stage: the first target that is not terminal.      *)
NextStage(s) ==
  IF s \notin TerminalStages /\ Forward[s][1] \notin TerminalStages
  THEN Forward[s][1]
  ELSE NoStage

(* Mutant: every move of a run that has not ended is allowed.              *)
LegalAnywhere(s, t) == s \notin TerminalStages

(* The check _transition_to makes before it assigns the stage: a move to   *)
(* the stage the run is already in is not checked.                         *)
Legal(s, t) == s = t \/ CanTransition(s, t)
=============================================================================
