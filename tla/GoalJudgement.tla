--------------------------- MODULE GoalJudgement ---------------------------
(***************************************************************************)
(* How AutonomousExecutionController (services/autonomy_service.py) judges *)
(* the iterations of a goal: what it keeps of each, when it calls the goal *)
(* stuck, and what it decides next.  AutonomousGoal leaves this open and   *)
(* has the interleavings; here one request at a time works on the goal.    *)
(* The process may restart between two steps: what it judges by then comes *)
(* from the rows.                                                          *)
(*                                                                         *)
(* create_goal verifies every criterion by "suite:pass", so the criteria   *)
(* are met together.  No caller limits the scope of a goal.  Left out: the *)
(* limits on files and on time (no evidence carries a duration), and the   *)
(* rule on tests_failed, which run_tests never sets.                       *)
(***************************************************************************)
EXTENDS Naturals, Sequences, FiniteSets

CONSTANTS
  Outcomes,     \* what the run of an iteration may leave behind
  Policies,     \* policies a goal may have
  Limits,       \* the limits of ExecutionBudget, by name; 0 disables one
  MaxRequests,  \* pauses, resumes and answers of a human
  MaxReloads    \* restarts of the process

Statuses == {"none", "passed", "failed", "skipped", "timeout"}
Decisions == {"none", "approved", "rejected", "needs_human_review"}

(* What _evidence_from_run reads of a run; "raised": execute_run raised.   *)
IsOutcome(o) ==
  /\ {"failure", "test", "failing", "gate", "message", "plan"} \subseteq DOMAIN o
  /\ o.test \in Statuses /\ o.gate \in Decisions
  /\ o.gate = "approved" => o.test \in {"passed", "skipped"}

ASSUME JudgementAssumption ==
  /\ \A o \in Outcomes : IsOutcome(o)
  /\ Policies \subseteq [repair : BOOLEAN, replan : BOOLEAN, human : BOOLEAN]
  /\ Limits \in [ {"iterations", "replans", "repairs", "agent_calls",
                   "llm_calls", "test_runs"} -> Nat ]
  /\ Limits["iterations"] > 0
  /\ MaxRequests \in Nat /\ MaxReloads \in Nat

VARIABLES
  policy,
  goal,      \* state, criteria met by the last evaluation, iterations
             \* without progress
  used,      \* the counters of ExecutionBudget
  history,   \* evidence_history: its last three
  plans,     \* plan_versions: the summaries of the last two
  at,        \* "idle", "head" of the loop, or the action of an iteration
  reason,    \* reason_code of the last decision
  rows,      \* execution_checkpoints: iteration and evidence
  stored,    \* execution_goals: goal and budget
  trail,     \* evidence of the iterations since the goal was loaded
  requests, reloads

judgementVars == <<policy, goal, used, history, plans, at, reason, rows,
                   stored, trail, requests, reloads>>

LastOf(s) == s[Len(s)]
Tail3(s) == SubSeq(s, IF Len(s) > 3 THEN Len(s) - 2 ELSE 1, Len(s))
Tail2(s) == SubSeq(s, IF Len(s) > 2 THEN Len(s) - 1 ELSE 1, Len(s))
-----------------------------------------------------------------------------
(* Evidence of an iteration.                                               *)

(* classify_failure: what no change of the code can mend.                  *)
Environmental(o) ==
  o.failure \in {"raised", "acquisition_failed", "analysis_failed"}

EvidenceOf(o) ==
  [ test |-> o.test, failing |-> o.failing, gate |-> o.gate,
    message |-> o.message, plan |-> o.plan, env |-> Environmental(o) ]

(* _evaluate_criterion with the hint "suite:pass".                         *)
Met(e) == e.test = "passed"

(* Mutant: an iteration whose run did not come to its tests is free.       *)
RecordedTested(u, e) ==
  IF e.test = "none" THEN u
  ELSE [u EXCEPT !["iterations"] = @ + 1, !["agent_calls"] = @ + 5,
                 !["llm_calls"] = @ + 3, !["test_runs"] = @ + 1]

(* BudgetManager.record: five agent calls and three LLM calls are counted  *)
(* for an iteration, and its test run if there was one.                    *)
Recorded(u, e) ==
  [u EXCEPT !["iterations"] = @ + 1, !["agent_calls"] = @ + 5,
            !["llm_calls"] = @ + 3,
            !["test_runs"] = @ + (IF e.test = "none" THEN 0 ELSE 1)]

(* ExecutionBudget.exhausted: the first limit that is reached.             *)
Order == << "iterations", "replans", "repairs", "agent_calls", "llm_calls",
            "test_runs" >>
Reached(u) ==
  {i \in DOMAIN Order : Limits[Order[i]] > 0 /\ u[Order[i]] >= Limits[Order[i]]}
Exhausted(u) ==
  IF Reached(u) = {} THEN "none"
  ELSE Order[CHOOSE i \in Reached(u) : \A j \in Reached(u) : i <= j]

(* The loop leaves replans and repairs to _decide.                         *)
BudgetSpent(u) == Exhausted(u) \notin {"none", "replans", "repairs"}

(* ProgressEvaluator: fewer failing tests are no progress.  Of the         *)
(* iterations without progress three are as good as more.                  *)
Progressing(met, e) == Met(e) /\ ~met
StalledAfter(n, met, e) ==
  IF e.env \/ Progressing(met, e) THEN 0 ELSE IF n = 3 THEN 3 ELSE n + 1
-----------------------------------------------------------------------------
(* StuckDetector, over the last three iterations it remembers.             *)
Alike(Sign(_)) ==
  Len(history) = 3 /\ \A i \in 1 .. 3 : Sign(history[i]) = Sign(history[1])

Failing(e) == e.failing
Message(e) == e.message
Verdict(e) == e.gate

Trend ==
  IF \E i \in DOMAIN history : history[i].env THEN "blocked"
  ELSE IF Alike(Failing) /\ history[1].failing # {} THEN "looping"
  ELSE IF \/ Alike(Message) /\ history[1].message # ""
          \/ Alike(Verdict) /\ history[1].gate = "rejected" THEN "stalled"
  ELSE IF Len(plans) = 2 /\ plans[1] # "" /\ plans[1] = plans[2] THEN "looping"
  ELSE "progressing"

(* Mutant: a failing environment is only reported, as stalling is.         *)
StuckUnblocked ==
  \/ Trend = "looping"
  \/ Trend \in {"stalled", "blocked"} /\ goal.stalled >= 3

StuckNow == \/ Trend \in {"looping", "blocked"}
            \/ Trend = "stalled" /\ goal.stalled >= 3

(* _decide: action and reason.                                             *)
GiveUp == IF policy.human THEN "escalate" ELSE "stop"
MayRepair == policy.repair /\ used["repairs"] < Limits["repairs"]
MayReplan == policy.replan /\ used["replans"] < Limits["replans"]

Decision ==
  IF history = <<>> THEN <<"continue", "initial_iteration">>
  ELSE IF StuckNow THEN <<GiveUp, "stuck_detected">>
  ELSE LET e == LastOf(history) IN
    CASE goal.met /\ e.gate = "approved" ->
           <<"complete", "criteria_satisfied_gate_approved">>
      [] goal.met /\ e.gate # "approved" ->
           <<"review", "criteria_satisfied_gate_pending">>
      [] ~goal.met /\ e.test = "failed" ->
           IF MayRepair THEN <<"repair", "tests_failing">>
           ELSE IF MayReplan THEN <<"replan", "plan_inadequate">>
           ELSE <<GiveUp, "repair_replan_exhausted">>
      [] ~goal.met /\ e.test # "failed" /\ e.gate = "rejected" ->
           IF MayReplan THEN <<"replan", "quality_gate_rejected">>
           ELSE <<GiveUp, "quality_gate_rejected">>
      [] ~goal.met /\ e.test = "passed"
           /\ e.gate \notin {"approved", "rejected"} ->
           <<"review", "tests_passed_gate_pending">>
      [] OTHER -> <<"continue", "continue">>

(* A checkpoint keeps the newest evidence, whatever it is about; it writes *)
(* the state of the goal, not its budget or its progress.  The rows stand  *)
(* in the order in which _load_goal reads them: by iteration.  One without *)
(* evidence adds nothing to the history that is loaded, and only a restart *)
(* reads them, so none are kept after the last.                            *)
Placed(c) ==
  LET k == Cardinality({i \in DOMAIN rows : rows[i].iteration <= c.iteration})
  IN  SubSeq(rows, 1, k) \o <<c>> \o SubSeq(rows, k + 1, Len(rows))

Checkpoint(state, u, h) ==
  /\ rows' = IF reloads < MaxReloads /\ h # <<>>
             THEN Placed([iteration |-> u["iterations"], evidence |-> LastOf(h)])
             ELSE rows
  /\ stored' = [stored EXCEPT !.state = state]

Ends(state, why) ==
  /\ goal' = [goal EXCEPT !.state = state]
  /\ at' = "idle" /\ reason' = why
  /\ Checkpoint(state, used, history)
  /\ UNCHANGED <<policy, used, history, plans, trail, requests, reloads>>

(* The head of the loop: the decision, then the budget.  Replans and       *)
(* repairs are counted before the iteration.                               *)
DecideNext ==
  /\ at = "head"
  /\ LET d == Decision IN
     CASE d[1] = "complete" -> Ends("completed", d[2])
       [] d[1] = "escalate" -> Ends("waiting_for_human", d[2])
       [] d[1] = "stop" -> Ends("stopped", d[2])
       [] d[1] \notin {"complete", "escalate", "stop"} /\ BudgetSpent(used) ->
            Ends(IF policy.human THEN "waiting_for_human" ELSE "stopped",
                 "budget_exhausted")
       [] OTHER ->
            /\ at' = d[1] /\ reason' = d[2]
            /\ used' = CASE d[1] = "replan" -> [used EXCEPT !["replans"] = @ + 1]
                         [] d[1] = "repair" -> [used EXCEPT !["repairs"] = @ + 1]
                         [] OTHER -> used
            /\ UNCHANGED <<policy, goal, history, plans, rows, stored, trail,
                           requests, reloads>>

(* A pause that arrived is taken at the head, before anything is decided.  *)
PauseHead ==
  /\ at = "head" /\ requests < MaxRequests
  /\ requests' = requests + 1
  /\ goal' = [goal EXCEPT !.state = "paused"]
  /\ at' = "idle" /\ reason' = "paused"
  /\ Checkpoint("paused", used, history)
  /\ UNCHANGED <<policy, used, history, plans, trail, reloads>>

(* PlanVersionStore.record: a version for every replan, otherwise only for *)
(* a plan that differs; stored at once.                                    *)
Planned(e) ==
  IF e.plan # "" /\ (at = "replan" \/ plans = <<>> \/ LastOf(plans) # e.plan)
  THEN Tail2(Append(plans, e.plan)) ELSE plans

(* Mutant: a criterion that was met stays met.                             *)
MetAfterSticky(e) == goal.met \/ Met(e)

MetAfter(e) == Met(e)

(* An iteration returns: its evidence is counted, remembered and judged,   *)
(* and a checkpoint is written.                                            *)
IterationReturns ==
  /\ at \notin {"idle", "head"}
  /\ \E o \in Outcomes :
       LET e == EvidenceOf(o)
           u == Recorded(used, e)
           h == Tail3(Append(history, e))
       IN  /\ used' = u /\ history' = h
           /\ plans' = Planned(e)
           /\ goal' = [goal EXCEPT !.met = MetAfter(e),
                         !.stalled = StalledAfter(@, goal.met, e)]
           /\ trail' = Tail3(Append(trail, e))
           /\ Checkpoint(goal.state, u, h)
  /\ at' = "head"
  /\ UNCHANGED <<policy, reason, requests, reloads>>

(* resume and provide_input: the goal is stored and the loop entered; the  *)
(* clarification is kept aside and read by nobody.                         *)
Answer ==
  /\ at = "idle" /\ requests < MaxRequests
  /\ goal.state \in {"paused", "waiting_for_human"}
  /\ requests' = requests + 1
  /\ goal' = [goal EXCEPT !.state = "running"]
  /\ stored' = [state |-> "running", met |-> goal.met, used |-> used]
  /\ at' = "head"
  /\ UNCHANGED <<policy, used, history, plans, reason, rows, trail, reloads>>

(* start of a goal that is stored as running and nobody works on.          *)
StartLoop ==
  /\ at = "idle" /\ goal.state = "running"
  /\ at' = "head"
  /\ UNCHANGED <<policy, goal, used, history, plans, reason, rows, stored,
                 trail, requests, reloads>>

(* _load_goal after a restart: the history is read from the checkpoints,   *)
(* one entry for each of them.                                             *)
LoadedHistory == Tail3([i \in DOMAIN rows |-> rows[i].evidence])

ReloadGoal ==
  /\ reloads < MaxReloads
  /\ reloads' = reloads + 1
  /\ goal' = [state |-> stored.state, met |-> stored.met, stalled |-> 0]
  /\ used' = stored.used
  /\ history' = LoadedHistory
  /\ rows' = IF reloads + 1 < MaxReloads THEN rows ELSE <<>>
  /\ at' = "idle" /\ reason' = "loaded" /\ trail' = <<>>
  /\ UNCHANGED <<policy, plans, stored, requests>>
-----------------------------------------------------------------------------
(* create_goal.                                                            *)
JudgementInit ==
  /\ policy \in Policies
  /\ goal = [state |-> "running", met |-> FALSE, stalled |-> 0]
  /\ used = [d \in DOMAIN Limits |-> 0]
  /\ history = <<>> /\ plans = <<>> /\ at = "idle" /\ reason = "created"
  /\ rows = <<>>
  /\ stored = [state |-> "running", met |-> FALSE, used |-> used]
  /\ trail = <<>> /\ requests = 0 /\ reloads = 0

JudgementNext ==
  StartLoop \/ DecideNext \/ PauseHead \/ IterationReturns \/ Answer \/ ReloadGoal

(* The run of an iteration returns, and the loop goes on by itself.        *)
JudgementSpec ==
  /\ JudgementInit /\ [][JudgementNext]_judgementVars
  /\ WF_judgementVars(DecideNext \/ IterationReturns)
-----------------------------------------------------------------------------
(* A goal is completed on the evidence of one iteration, its newest, if it *)
(* ran any since it was loaded: its tests passed and the gate approved.    *)
(* (GoalEvaluator.evaluate and _decide; after a restart progress and       *)
(* evidence may be of different age, module AutonomousGoal)                *)
CompletionProved ==
  goal.state = "completed" /\ trail # <<>> =>
    LastOf(trail).test = "passed" /\ LastOf(trail).gate = "approved"

(* No iteration is begun on top of a failing environment: a human is asked *)
(* first, and nothing is repaired or planned again because of it.          *)
(* (classify_failure, StuckDetector and _decide)                           *)
EnvironmentStops ==
  [][ at' \notin {"idle", "head"} /\ at = "head" =>
        \A i \in DOMAIN trail : ~trail[i].env ]_judgementVars

(* The loop always comes to rest: the iterations are counted whatever      *)
(* their runs came to.  (ExecutionBudget, BudgetManager.record)            *)
LoopSettles == (at # "idle") ~> (at = "idle")
=============================================================================
