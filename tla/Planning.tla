------------------------------ MODULE Planning ------------------------------
(***************************************************************************)
(* From a task to a plan: IssueAnalyzerAgent, PlannerAgent with its        *)
(* corrective retry, PlanValidator, and PlanningService that chains them,  *)
(* for the two callers that act on the result: the stages analyzing_task   *)
(* and planning of a run, and PlanningWorkflow behind the API and the CLI. *)
(***************************************************************************)
EXTENDS CycleSearch

CONSTANTS
  Responses,     \* step lists the model may answer with
  BuildLimit,    \* steps _build_plan keeps
  MaxSteps,      \* steps PlanValidator allows
  PlanAttempts,  \* MAX_PLAN_ATTEMPTS
  TaskAttempts   \* _TASK_ANALYSIS_MAX_ATTEMPTS

ASSUME LimitAssumption ==
  /\ BuildLimit \in Nat /\ MaxSteps \in Nat /\ BuildLimit <= MaxSteps
  /\ PlanAttempts \in Nat \ {0} /\ TaskAttempts \in Nat \ {0}

VARIABLES
  caller,   \* run, or workflow for PlanningWorkflow
  stage,    \* of the run
  at,       \* where the pipeline is
  tries,    \* calls of plan_from_task by the task analysis
  attempt,  \* answers of the model this planner used up
  reqs,     \* requirements: unknown, empty, some
  plan,     \* the plan in hand
  judged,   \* what the planner's own check said of it
  outcome   \* none, planned or completed, failed

pipeline == <<caller, stage, at, tries, attempt, reqs, plan, judged, outcome>>
vars == <<pipeline, search>>
-----------------------------------------------------------------------------
IdsOf(steps) == {steps[i].id : i \in DOMAIN steps}

(* _build_plan keeps the first steps and renames the second of two steps   *)
(* of one name after its position; the new name may be taken as well.      *)
Built(raw) ==
  LET built[n \in 0 .. Len(raw)] ==
        IF n = 0 THEN <<>>
        ELSE IF n > BuildLimit THEN built[n - 1]
        ELSE LET seen == built[n - 1]
             IN  Append(seen, [id |-> IF raw[n].id \in IdsOf(seen)
                                      THEN Append(raw[n].id, Len(seen))
                                      ELSE raw[n].id,
                               deps |-> raw[n].deps])
  IN  built[Len(raw)]

Plans == {Built(raw) : raw \in Responses}

(* adj holds the dependencies of the last step of a name.                  *)
Adjacency(steps) ==
  [s \in IdsOf(steps) |->
     LET i == CHOOSE i \in DOMAIN steps :
                /\ steps[i].id = s
                /\ \A j \in DOMAIN steps \ {i} : steps[j].id = s => j < i
     IN  steps[i].deps \cap IdsOf(steps)]

Duplicates(steps) == \E i, j \in DOMAIN steps :
                       i # j /\ steps[i].id = steps[j].id
SelfDependent(steps) == \E i \in DOMAIN steps : steps[i].id \in steps[i].deps
Dangling(steps) == \E i \in DOMAIN steps :
                     ~ (steps[i].deps \subseteq IdsOf(steps))

(* PlannerAgent._validate_plan                                             *)
PlannerAccepts(p) ==
  /\ p.steps # <<>>
  /\ ~ Duplicates(p.steps) /\ ~ SelfDependent(p.steps) /\ ~ Dangling(p.steps)
  /\ verdict = "acyclic"

(* PlanValidator.validate, whose errors make a plan invalid                *)
ValidatorAccepts(p) ==
  /\ p.objective
  /\ p.steps # <<>> /\ Len(p.steps) <= MaxSteps
  /\ ~ Duplicates(p.steps) /\ ~ SelfDependent(p.steps) /\ ~ Dangling(p.steps)
  /\ verdict = "acyclic"

NoPlan == [steps |-> <<>>, objective |-> TRUE, error |-> FALSE]
ErrorPlan == [NoPlan EXCEPT !.error = TRUE]

(* The plan in hand gives way to the next one.                             *)
Forget == plan' = NoPlan /\ BeginSearch(NoSteps)
-----------------------------------------------------------------------------
Refused == outcome' = "failed" /\ at' = "ended"

(* The workflow refuses an empty or overlong input and an issue it cannot  *)
(* parse or fetch.                                                         *)
Accept ==
  /\ at = "start"
  /\ \/ at' = "analyze" /\ outcome' = outcome
     \/ Refused
  /\ UNCHANGED <<caller, stage, tries, attempt, reqs, plan, judged, search>>

(* The result of plan_from_task carries an error: the task analysis calls  *)
(* it again, every other caller gives up.                                  *)
ErrorResult ==
  IF caller = "run" /\ stage = "analyzing_task" /\ tries < TaskAttempts
  THEN /\ tries' = tries + 1
       /\ at' = "analyze" /\ outcome' = outcome
  ELSE Refused /\ tries' = tries

(* The issue analysis raises or reports an error, or yields requirements,  *)
(* perhaps none.                                                           *)
Analyze ==
  /\ at = "analyze"
  /\ \/ ErrorResult /\ reqs' = reqs
     \/ /\ reqs' \in {"empty", "some"}
        /\ at' = "plan"
        /\ UNCHANGED <<tries, outcome>>
  /\ attempt' = 0 /\ judged' = "none" /\ Forget
  /\ UNCHANGED <<caller, stage>>

(* PlannerAgent.execute without requirements, or its provider or its       *)
(* reading of the answer raises: a plan that only says why.                *)
PlannerFails ==
  /\ at = "plan"
  /\ plan' = ErrorPlan /\ judged' = "none" /\ at' = "validate"
  /\ UNCHANGED <<caller, stage, tries, attempt, reqs, outcome, search>>

(* The model answers; an answer that cannot be parsed has no steps.  The   *)
(* objective may be empty.                                                 *)
Answer ==
  /\ at = "plan" /\ reqs = "some"
  /\ attempt' = attempt + 1
  /\ \E steps \in Plans, objective \in BOOLEAN :
       /\ plan' = [steps |-> steps, objective |-> objective, error |-> FALSE]
       /\ BeginSearch(Adjacency(steps))
  /\ at' = "check"
  /\ UNCHANGED <<caller, stage, tries, reqs, judged, outcome>>

Search ==
  /\ at \in {"check", "validating"}
  /\ SearchStep
  /\ UNCHANGED pipeline

(* Mutant: the corrective retry is not counted.                            *)
JudgeForever ==
  /\ at = "check" /\ SearchOver
  /\ judged' = IF PlannerAccepts(plan) THEN "valid" ELSE "invalid"
  /\ IF PlannerAccepts(plan)
     THEN at' = "validate" /\ UNCHANGED <<plan, search>>
     ELSE at' = "plan" /\ Forget
  /\ attempt' = 0
  /\ UNCHANGED <<caller, stage, tries, reqs, outcome>>

(* The planner sends the errors back once; the last plan is returned       *)
(* whatever its check said.                                                *)
Judge ==
  /\ at = "check" /\ SearchOver
  /\ judged' = IF PlannerAccepts(plan) THEN "valid" ELSE "invalid"
  /\ IF PlannerAccepts(plan) \/ attempt >= PlanAttempts
     THEN at' = "validate" /\ UNCHANGED <<plan, search>>
     ELSE at' = "plan" /\ Forget
  /\ UNCHANGED <<caller, stage, tries, attempt, reqs, outcome>>

Validate ==
  /\ at = "validate"
  /\ BeginSearch(Adjacency(plan.steps))
  /\ at' = "validating"
  /\ UNCHANGED <<caller, stage, tries, attempt, reqs, plan, judged, outcome>>

(* The task analysis keeps the requirements and lets the plan go.          *)
AnalysisReports ==
  /\ caller = "run" /\ stage = "analyzing_task"
  /\ IF plan.error
     THEN ErrorResult /\ stage' = stage
     ELSE /\ stage' = "planning" /\ at' = "plan"
          /\ UNCHANGED <<tries, outcome>>
  /\ attempt' = 0 /\ judged' = "none" /\ Forget

(* The planning stage of a run asks PlanValidator again, of the same plan. *)
PlanningReports ==
  /\ caller = "run" /\ stage = "planning"
  /\ IF plan.error \/ ~ ValidatorAccepts(plan)
     THEN Refused
     ELSE outcome' = "planned" /\ at' = "ended"
  /\ UNCHANGED <<stage, tries, attempt, judged, plan, search>>

(* The workflow only looks at the error; the validation is shown with it.  *)
WorkflowReports ==
  /\ caller = "workflow"
  /\ IF plan.error THEN Refused
     ELSE outcome' = "completed" /\ at' = "ended"
  /\ UNCHANGED <<stage, tries, attempt, judged, plan, search>>

Report ==
  /\ at = "validating" /\ SearchOver
  /\ AnalysisReports \/ PlanningReports \/ WorkflowReports
  /\ UNCHANGED <<caller, reqs>>

Init ==
  /\ caller \in {"run", "workflow"}
  /\ stage = "analyzing_task"
  /\ at = IF caller = "run" THEN "analyze" ELSE "start"
  /\ tries = 1 /\ attempt = 0
  /\ reqs = "unknown" /\ plan = NoPlan /\ judged = "none"
  /\ outcome = "none"
  /\ SearchInit

Next ==
  \/ Accept \/ Analyze \/ PlannerFails \/ Answer \/ Search
  \/ Judge \/ Validate \/ Report

Spec == Init /\ [][Next]_vars

(* Every call of the model returns or raises.                              *)
FairSpec == Spec /\ WF_vars(Next)
-----------------------------------------------------------------------------
(* The steps of a plan that reached the run can be carried out in some     *)
(* order in which every step follows all it depends on, and the search     *)
(* found one.  (PlanValidator.validate and _stage_planning)                *)
Executable(steps) ==
  \A i \in DOMAIN steps :
    \E k \in DOMAIN finished :
      /\ finished[k] = steps[i].id
      /\ \A d \in steps[i].deps : \E j \in 1 .. (k - 1) : finished[j] = d

PlanIsExecutable == outcome = "planned" => Executable(plan.steps)

(* Whatever the model answers, planning comes to an end.  (the bounded     *)
(* retries of the planner and of the task analysis)                        *)
PlanningEnds == <>(outcome # "none")
=============================================================================
