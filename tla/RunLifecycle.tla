---------------------------- MODULE RunLifecycle ----------------------------
(***************************************************************************)
(* One run of OrchestrationService (app/services/orchestration_service.py) *)
(* against its run store: the executions of the run (execute_run, started  *)
(* by the API or by resume_run), the requests that cancel it, and the      *)
(* crashes and restarts of the backend.                                    *)
(*                                                                         *)
(* Every await self._store.update(run) is a point where other tasks run,   *)
(* so an action stands for the code from one such point to the next: the   *)
(* assignments to the run, then the write, then where the code continues.  *)
(* With PostgresRunStore (Durable) get returns a fresh copy of the row and *)
(* update replaces the row with the copy; with InMemoryRunStore (~Durable) *)
(* everybody holds the same object and an assignment is seen at once.      *)
(*                                                                         *)
(* Left out: auxiliary repositories and per-repository patches, the notes, *)
(* handoffs and memories that never decide a branch, and the wording of    *)
(* records.  What a stage's service returns is chosen from the outcomes    *)
(* the stage method tells apart.                                           *)
(***************************************************************************)
EXTENDS RunStages, FiniteSets

CONSTANTS
  Executors,     \* tasks that may execute the run
  Cancellers,    \* requests to cancel the run
  Durable,       \* TRUE: PostgresRunStore, FALSE: InMemoryRunStore
  SourceKinds,   \* repository of the run: none, local path or GitHub
  Failing,       \* stages whose service may refuse, fail or raise
  MaxResumes,    \* calls of resume_run that pass its checks
  MaxCrashes,    \* crashes of the backend
  MaxFaults      \* store updates that raise

VARIABLES
  source,    \* repository kind of the run, fixed by create_run
  row,       \* the run as the store holds it
  local,     \* local[e]: the copy execution e works on (Durable)
  pc,        \* pc[e]: where execution e is
  cpc,       \* cpc[c]: where cancel request c is
  ccopy,     \* ccopy[c]: the copy cancel request c works on (Durable)
  accepted,  \* some cancel request was answered with True
  applies,   \* times the patch was written to the workspace
  resumes, crashes, faults

vars == <<source, row, local, pc, cpc, ccopy, accepted, applies,
          resumes, crashes, faults>>

ASSUME StoreAssumption ==
  /\ Durable \in BOOLEAN
  /\ ~Durable => MaxCrashes = 0
  /\ \A e, f \in Executors : ~Durable => e = f

ASSUME BoundAssumption ==
  /\ SourceKinds \subseteq {"none", "local", "github"}
  /\ Failing \subseteq WorkStages
  /\ MaxResumes \in Nat /\ MaxCrashes \in Nat /\ MaxFaults \in Nat
-----------------------------------------------------------------------------
(* The run record.                                                         *)

Statuses == {"pending", "running", "approved", "rejected",
             "needs_human_review", "failed", "cancelled"}
TerminalStatuses == Statuses \ {"pending", "running"}

Artefacts == {"profile", "requirements", "plan", "context", "patch",
              "review"}

(* "failed" has parsed failures to repair, "unparsed" has none: TIMEOUT,   *)
(* ERROR, or FAILED commands whose output no parser understood.            *)
TestOutcomes == {"none", "passed", "failed", "unparsed", "skipped",
                 "not_ready"}
PatchOutcomes == {"none", "applied", "rejected", "rolled_back"}
RepairOutcomes == {"none", "idle", "attempted"}
Decisions == {"approved", "rejected", "needs_human_review"}
Failures == {"none", "stage", "unknown", "stale"}
Records == Stages \X {"succeeded", "failed", "skipped"}

Run == [ status  : Statuses,
         stage   : Stages,
         cancel  : BOOLEAN,
         has     : SUBSET Artefacts,
         applied : PatchOutcomes,
         tests   : TestOutcomes,
         repair  : RepairOutcomes,
         gate    : Decisions \union {"none"},
         failure : Failures,
         recs    : SUBSET Records,
         events  : SUBSET {"run_failed", "run_completed"} ]

(* create_run: the acquisition and analysis of a run without a repository  *)
(* are recorded as skipped before anything executes.                       *)
Created(k) ==
  [ status |-> "pending", stage |-> "initializing", cancel |-> FALSE,
    has |-> {}, applied |-> "none", tests |-> "none", repair |-> "none",
    gate |-> "none", failure |-> "none", events |-> {},
    recs |-> IF k = "none"
             THEN {"acquiring_repository", "analyzing_repository"}
                    \X {"skipped"}
             ELSE {} ]

With(r, a) == [r EXCEPT !.has = @ \union {a}]
Recorded(r, s, outcome) == [r EXCEPT !.recs = @ \union {<<s, outcome>>}]
-----------------------------------------------------------------------------
(* Where an execution is: "at" says which part of which stage method, and  *)
(* pos the stage.  "retest" is the second call of _stage_testing.          *)

Positions == Stages \union {"retest"}
StageOf(p) == IF p = "retest" THEN "testing" ELSE p

Points ==
  {"idle",      \* no execution
   "load",      \* execute_run: before store.get
   "hop",       \* execute_run: a _transition_to outside the stage methods
   "enter",     \* stage method: before its first _transition_to
   "work",      \* stage method: running the service of the stage
   "save",      \* validation, application: store.update before the record
   "complete",  \* _complete_stage, or _record_stage in _stage_testing
   "advance",   \* _complete_stage: the _transition_to next_stage
   "decide",    \* _stage_quality_gate: the _transition_to COMPLETED
   "bypass",    \* _skip_stage inside a stage's try block
   "skip",      \* _skip_stage outside of one
   "refuse",    \* _fail_stage inside the stage's try block
   "fail",      \* _fail_stage in the stage's except block
   "give_up",   \* _stage_acquisition: the _transition_to FAILED
   "raised",    \* execute_run: the outer except block
   "capture",   \* _finalize: _capture_replay_manifest
   "seal"}      \* _finalize: the last store.update

At(a, p) == [at |-> a, pos |-> p]
Idle == At("idle", "initializing")

(* What follows the stages that only run when their output is missing.     *)
Pipeline == <<"analyzing_repository", "analyzing_task", "planning",
              "retrieving_context", "coding", "validating_patch">>

(* Mutant: coding is repeated although the patch is there.                 *)
MissingRedoes(s, r) ==
  CASE s = "analyzing_repository" ->
         source # "none" /\ "profile" \notin r.has
    [] s = "analyzing_task"     -> "requirements" \notin r.has
    [] s = "planning"           -> "plan" \notin r.has
    [] s = "retrieving_context" -> "context" \notin r.has
    [] OTHER                    -> TRUE

Missing(s, r) ==
  CASE s = "analyzing_repository" ->
         source # "none" /\ "profile" \notin r.has
    [] s = "analyzing_task"     -> "requirements" \notin r.has
    [] s = "planning"           -> "plan" \notin r.has
    [] s = "retrieving_context" -> "context" \notin r.has
    [] s = "coding"             -> "patch" \notin r.has
    [] s = "validating_patch"   -> TRUE

After(p) == {i \in 1 .. 6 : \A j \in 1 .. 6 : Pipeline[j] = p => i > j}

NextMissing(p, r) ==
  LET todo == {i \in After(p) : Missing(Pipeline[i], r)}
  IN  Pipeline[CHOOSE i \in todo : \A j \in todo : i <= j]

(* Mutant: the repair is repeated until the tests pass.                    *)
RouteRepairsForever(p, r) ==
  CASE p = "validating_patch" ->
         At("enter", IF "patch" \in r.has THEN "applying_patch"
                                          ELSE "testing")
    [] p = "applying_patch" -> At("enter", "testing")
    [] p \in {"testing", "retest"} ->
         IF r.tests = "passed" THEN At("hop", "reviewing")
                               ELSE At("enter", "repairing")
    [] p = "repairing" ->
         At("enter", IF r.repair = "attempted" THEN "retest"
                                               ELSE "reviewing")
    [] p = "reviewing"    -> At("enter", "quality_gate")
    [] p = "quality_gate" -> At("capture", "quality_gate")
    [] OTHER              -> At("enter", NextMissing(p, r))

(* Where execute_run goes once the stage p is behind it.  A validation has *)
(* just listed the patch as validated and not attempted, so it is pending  *)
(* whatever became of it before (pending_repo).                            *)
Route(p, r) ==
  CASE p = "validating_patch" ->
         At("enter", IF "patch" \in r.has THEN "applying_patch"
                                          ELSE "testing")
    [] p = "applying_patch" -> At("enter", "testing")
    [] p = "testing" -> IF r.tests = "passed" THEN At("hop", "reviewing")
                                              ELSE At("enter", "repairing")
    [] p = "repairing" ->
         At("enter", IF r.repair = "attempted" THEN "retest"
                                               ELSE "reviewing")
    [] p = "retest"       -> At("hop", "reviewing")
    [] p = "reviewing"    -> At("enter", "quality_gate")
    [] p = "quality_gate" -> At("capture", "quality_gate")
    [] OTHER              -> At("enter", NextMissing(p, r))

(* The first thing execute_run does: acquire a GitHub repository, or walk  *)
(* the stage map past the acquisition that a local run does not need.      *)
Begin(r) ==
  IF source = "github" THEN At("enter", "acquiring_repository")
  ELSE IF r.stage = "initializing" THEN At("hop", "acquiring_repository")
  ELSE IF source = "none" /\ r.stage = "acquiring_repository"
       THEN At("hop", "analyzing_repository")
  ELSE Route("initializing", r)

AfterHop(p, r) ==
  CASE p = "acquiring_repository" ->
         IF source = "local" THEN At("skip", p)
                             ELSE At("hop", "analyzing_repository")
    [] p = "reviewing" -> At("enter", p)
    [] OTHER           -> Route("initializing", r)
-----------------------------------------------------------------------------
(* Reading and writing the run.                                            *)

Copy(e) == IF Durable THEN local[e] ELSE row

Is(e, a, p) == pc[e] = At(a, p)

others == <<source, cpc, ccopy, accepted, applies, resumes, crashes>>

(* Assignments to the run without a write.                                 *)
Assign(e, r, next) ==
  /\ IF Durable THEN local' = [local EXCEPT ![e] = r] /\ row' = row
                ELSE row' = r /\ local' = local
  /\ pc' = [pc EXCEPT ![e] = next]
  /\ faults' = faults

(* Assignments and store.update.  An update may raise: a lost connection,  *)
(* or ConcurrentRunUpdateError when two updates overlap.  The assignments  *)
(* made before it stay in the copy.  WriteThen writes r and goes on with   *)
(* assignments no update follows, which only the copy keeps.               *)
WriteThen(e, r, after, next) ==
  /\ row' = IF Durable THEN r ELSE after
  /\ local' = IF Durable THEN [local EXCEPT ![e] = after] ELSE local
  /\ pc' = [pc EXCEPT ![e] = next]
  /\ faults' = faults

WriteOk(e, r, next) == WriteThen(e, r, r, next)

WriteFails(e, r, next) ==
  /\ Durable /\ faults < MaxFaults
  /\ faults' = faults + 1
  /\ local' = [local EXCEPT ![e] = r]
  /\ pc' = [pc EXCEPT ![e] = next]
  /\ row' = row

(* A stage whose try block raised.  The except blocks of acquisition and   *)
(* analysis set run.failure before they record the failed stage.           *)
FailsFirst == {"acquiring_repository", "analyzing_repository"}

Caught(p, r) == IF p \in FailsFirst THEN [r EXCEPT !.failure = "stage"] ELSE r
-----------------------------------------------------------------------------
(* resume_run and the beginning of execute_run.                            *)

(* Mutant: a run that ended is resumed.                                    *)
ResumeEnded(e) ==
  /\ pc[e] = Idle /\ resumes < MaxResumes /\ ~row.cancel
  /\ pc' = [pc EXCEPT ![e] = At("load", "initializing")]
  /\ resumes' = resumes + 1
  /\ UNCHANGED <<source, row, local, cpc, ccopy, accepted, applies,
                 crashes, faults>>

Resume(e) ==
  /\ pc[e] = Idle
  /\ resumes < MaxResumes
  /\ row.status \notin TerminalStatuses
  /\ ~row.cancel
  /\ pc' = [pc EXCEPT ![e] = At("load", "initializing")]
  /\ resumes' = resumes + 1
  /\ UNCHANGED <<source, row, local, cpc, ccopy, accepted, applies,
                 crashes, faults>>

Load(e) ==
  /\ pc[e].at = "load"
  /\ LET r == [row EXCEPT !.status = "running"]
     IN  Assign(e, r, Begin(r))
  /\ UNCHANGED others

Hop(e) ==
  /\ pc[e].at = "hop"
  /\ LET p == pc[e].pos
         r == [Copy(e) EXCEPT !.stage = p]
     IN  IF Legal(Copy(e).stage, p)
         THEN \/ WriteOk(e, r, AfterHop(p, r))
              \/ WriteFails(e, r, At("raised", p))
         ELSE Assign(e, Copy(e), At("raised", p))
  /\ UNCHANGED others

(* The first _transition_to of every stage method, outside its try block.  *)
(* _stage_retrieval skips it when it is already there and goes on when it  *)
(* raises.                                                                 *)
Enter(e) ==
  /\ pc[e].at = "enter"
  /\ LET p == pc[e].pos
         s == StageOf(p)
         r == [Copy(e) EXCEPT !.stage = s]
         refused == IF p = "retrieving_context" THEN "work" ELSE "raised"
     IN  IF p = "retrieving_context" /\ Copy(e).stage = s
         THEN Assign(e, Copy(e), At("work", p))
         ELSE IF Legal(Copy(e).stage, s)
         THEN \/ WriteOk(e, r, At("work", p))
              \/ WriteFails(e, r, At(refused, p))
         ELSE Assign(e, Copy(e), At(refused, p))
  /\ UNCHANGED others
-----------------------------------------------------------------------------
(* The services the stages call, by the outcomes their method tells apart. *)

Returns(e, r, a) ==
  Assign(e, r, At(a, pc[e].pos)) /\ UNCHANGED others

Raises(e) ==
  /\ StageOf(pc[e].pos) \in Failing
  /\ Returns(e, Caught(pc[e].pos, Copy(e)), "fail")

Refuses(e, r, a) == StageOf(pc[e].pos) \in Failing /\ Returns(e, r, a)

Acquire(e) ==
  /\ Is(e, "work", "acquiring_repository")
  /\ \/ Returns(e, With(Copy(e), "profile"), "complete")
     \/ Refuses(e, [Copy(e) EXCEPT !.failure = "stage"], "give_up")
     \/ Raises(e)

(* The analysis workflow also returns without a profile.                   *)
Analyze(e) ==
  /\ Is(e, "work", "analyzing_repository")
  /\ \/ Returns(e, With(Copy(e), "profile"), "complete")
     \/ Refuses(e, Copy(e), "complete")
     \/ Raises(e)

(* Task analysis, planning and coding produce their artefact, are refused  *)
(* (an error result, an invalid plan, no changes after the bounded retry)  *)
(* or raise.                                                               *)
Produce(e) ==
  /\ pc[e].at = "work"
  /\ \/ /\ pc[e].pos = "analyzing_task"
        /\ Returns(e, With(Copy(e), "requirements"), "complete")
     \/ /\ pc[e].pos = "planning"
        /\ Returns(e, With(Copy(e), "plan"), "complete")
     \/ /\ pc[e].pos = "coding"
        /\ Returns(e, With(Copy(e), "patch"), "complete")
     \/ /\ pc[e].pos \in {"analyzing_task", "planning", "coding"}
        /\ Refuses(e, Copy(e), "refuse") \/ Raises(e)

Retrieve(e) ==
  /\ Is(e, "work", "retrieving_context")
  /\ \/ Returns(e, With(Copy(e), "context"), "complete")
     \/ source = "none" /\ Returns(e, Copy(e), "bypass")
     \/ Refuses(e, Copy(e), "skip")

Validate(e) ==
  /\ Is(e, "work", "validating_patch")
  /\ \/ Returns(e, Copy(e), "save")
     \/ Returns(e, Copy(e), "refuse")
     \/ Raises(e)

(* SafePatchEngine.apply returns applied, rejected or rolled back; only    *)
(* the status FAILED, which it never returns, would stop the stage.        *)
Apply(e) ==
  /\ Is(e, "work", "applying_patch")
  /\ \/ /\ \E o \in PatchOutcomes \ {"none"} :
             /\ o # "applied" => "applying_patch" \in Failing
             /\ Assign(e, [Copy(e) EXCEPT !.applied = o],
                       At("save", "applying_patch"))
             /\ applies' = applies + (IF o = "applied" THEN 1 ELSE 0)
        /\ UNCHANGED <<source, cpc, ccopy, accepted, resumes, crashes>>
     \/ Raises(e)

RunTests(e) ==
  /\ pc[e].at = "work" /\ StageOf(pc[e].pos) = "testing"
  /\ \/ Returns(e, [Copy(e) EXCEPT !.tests = "passed"], "complete")
     \/ \E o \in {"failed", "unparsed", "skipped"} :
          Refuses(e, [Copy(e) EXCEPT !.tests = o], "complete")
     \/ Refuses(e, [Copy(e) EXCEPT !.tests = "not_ready"], "refuse")
     \/ Raises(e)

Repair(e) ==
  /\ Is(e, "work", "repairing")
  /\ IF Copy(e).tests # "failed"
     THEN Returns(e, Copy(e), "bypass")
     ELSE \/ \E o \in {"idle", "attempted"} :
               \/ Returns(e, [Copy(e) EXCEPT !.repair = o], "complete")
               \/ Refuses(e, [Copy(e) EXCEPT !.repair = o], "refuse")
          \/ Raises(e)

Review(e) ==
  /\ Is(e, "work", "reviewing")
  /\ Returns(e, With(Copy(e), "review"), "complete") \/ Raises(e)

(* Mutant: failing tests leave the decision open.                          *)
GateDecisionsLenient(r) == Decisions

(* What QualityGate.decide can answer: failing tests always reject.        *)
GateDecisions(r) ==
  IF r.tests \in {"failed", "unparsed", "not_ready", "none"}
  THEN {"rejected"} ELSE Decisions

Gate(e) ==
  /\ Is(e, "work", "quality_gate")
  /\ \/ \E d \in GateDecisions(Copy(e)) :
          Returns(e, [Copy(e) EXCEPT !.gate = d], "decide")
     \/ Raises(e)
-----------------------------------------------------------------------------
(* How a stage ends.                                                       *)

(* store.update between the validation or application and its record.      *)
Save(e) ==
  /\ pc[e].at = "save"
  /\ LET p == pc[e].pos
     IN  \/ WriteOk(e, Copy(e), At("complete", p))
         \/ WriteFails(e, Copy(e), At("fail", p))
  /\ UNCHANGED others

(* The gate's verdict becomes the run's status together with COMPLETED;    *)
(* a decision of another name would make it FAILED.                        *)
Decide(e) ==
  /\ pc[e].at = "decide"
  /\ LET d == Copy(e).gate
         r == [Copy(e) EXCEPT !.stage = "completed",
                              !.status = IF d \in Decisions THEN d
                                         ELSE "failed"]
     IN  IF Legal(Copy(e).stage, "completed")
         THEN \/ WriteOk(e, r, At("complete", "quality_gate"))
              \/ WriteFails(e, r, At("fail", "quality_gate"))
         ELSE Assign(e, Copy(e), At("fail", "quality_gate"))
  /\ UNCHANGED others

(* The record of a stage that ended.  A retest that did not pass is        *)
(* recorded as failed, a first test never is.  _stage_testing leaves the   *)
(* next transition to execute_run.                                         *)
Complete(e) ==
  /\ pc[e].at = "complete"
  /\ LET p == pc[e].pos
         outcome == IF p = "retest" /\ Copy(e).tests # "passed"
                    THEN "failed" ELSE "succeeded"
         r == Recorded(Copy(e), StageOf(p), outcome)
         next == IF p \in {"testing", "retest", "quality_gate"}
                 THEN Route(p, r) ELSE At("advance", p)
     IN  \/ WriteOk(e, r, next)
         \/ WriteFails(e, Caught(p, r),
                       At(IF p = "retrieving_context" THEN "skip"
                                                      ELSE "fail", p))
  /\ UNCHANGED others

Advance(e) ==
  /\ pc[e].at = "advance"
  /\ LET p == pc[e].pos
         s == NextStage(p)
         r == [Copy(e) EXCEPT !.stage = s]
         bad == At(IF p = "retrieving_context" THEN "skip" ELSE "fail", p)
     IN  IF Legal(Copy(e).stage, s)
         THEN \/ WriteOk(e, r, Route(p, r))
              \/ WriteFails(e, Caught(p, r), bad)
         ELSE Assign(e, Caught(p, Copy(e)), bad)
  /\ UNCHANGED others

(* _skip_stage inside a try block: repair without failures, retrieval      *)
(* without a repository.                                                   *)
Bypass(e) ==
  /\ pc[e].at = "bypass"
  /\ LET p == pc[e].pos
         r == Recorded(Copy(e), p, "skipped")
     IN  \/ WriteOk(e, r, Route(p, r))
         \/ WriteFails(e, r, At(IF p = "retrieving_context" THEN "skip"
                                                            ELSE "fail", p))
  /\ UNCHANGED others

(* _skip_stage where no stage catches it: the acquisition of a local run,  *)
(* and the except block of retrieval.                                      *)
Skip(e) ==
  /\ pc[e].at = "skip"
  /\ LET p == pc[e].pos
         r == Recorded(Copy(e), p, "skipped")
     IN  \/ WriteOk(e, r, Route(p, r))
         \/ WriteFails(e, r, At("raised", p))
  /\ UNCHANGED others

(* A stage that refuses its result: _fail_stage first, run.failure after.  *)
(* _stage_testing sets no failure when the environment is not ready.       *)
Refuse(e) ==
  /\ pc[e].at = "refuse"
  /\ LET p == pc[e].pos
         r == Recorded(Copy(e), StageOf(p), "failed")
         after == IF StageOf(p) = "testing" THEN r
                  ELSE [r EXCEPT !.failure = "stage"]
     IN  \/ WriteThen(e, r, after, At("capture", p))
         \/ WriteFails(e, r, At("fail", p))
  /\ UNCHANGED others

(* The except block of a stage.  Task analysis, planning and coding set    *)
(* run.failure after the record; validation, application, testing, repair, *)
(* review and gate do not set it at all.                                   *)
FailsLast == {"analyzing_task", "planning", "coding"}

Fail(e) ==
  /\ pc[e].at = "fail"
  /\ LET p == pc[e].pos
         r == Recorded(Copy(e), StageOf(p), "failed")
         after == IF p \in FailsLast THEN [r EXCEPT !.failure = "stage"]
                  ELSE r
     IN  \/ WriteThen(e, r, after, At("capture", p))
         \/ WriteFails(e, r, At("raised", p))
  /\ UNCHANGED others

(* Acquisition without a profile transitions to FAILED by itself.          *)
GiveUp(e) ==
  /\ pc[e].at = "give_up"
  /\ LET p == pc[e].pos
         r == [Copy(e) EXCEPT !.stage = "failed", !.status = "failed"]
     IN  IF Legal(Copy(e).stage, "failed")
         THEN \/ WriteOk(e, r, At("capture", p))
              \/ WriteFails(e, r, At("fail", p))
         ELSE Assign(e, Copy(e), At("fail", p))
  /\ UNCHANGED others
-----------------------------------------------------------------------------
(* The end of an execution.                                                *)

(* The execution is over; in Durable mode its copy is garbage.             *)
Leave(e) ==
  /\ pc' = [pc EXCEPT ![e] = Idle]
  /\ local' = [local EXCEPT ![e] = Created(source)]

(* The outer except block of execute_run.  The RUN_FAILED event is added   *)
(* after the transition.  Where FAILED is not allowed, or the write fails, *)
(* the exception leaves execute_run and nothing is finalized.              *)
Handle(e) ==
  /\ pc[e].at = "raised"
  /\ LET noted == [Copy(e) EXCEPT !.failure = "unknown"]
         r == [noted EXCEPT !.stage = "failed", !.status = "failed"]
         told == [r EXCEPT !.events = @ \union {"run_failed"}]
     IN  IF Legal(noted.stage, "failed")
         THEN \/ WriteThen(e, r, told, At("capture", pc[e].pos))
              \/ /\ Durable /\ faults < MaxFaults
                 /\ faults' = faults + 1
                 /\ Leave(e)
                 /\ row' = row
         ELSE /\ row' = IF Durable THEN row ELSE noted
              /\ Leave(e)
              /\ faults' = faults
  /\ UNCHANGED others

(* _capture_replay_manifest swallows every exception of its own.           *)
Capture(e) ==
  /\ pc[e].at = "capture"
  /\ LET next == At("seal", pc[e].pos)
     IN  \/ Assign(e, Copy(e), next)
         \/ WriteOk(e, Copy(e), next)
         \/ WriteFails(e, Copy(e), next)
  /\ UNCHANGED others

(* Mutant: a run still RUNNING is left so.                                 *)
SealLeavesRunning(e) ==
  /\ pc[e].at = "seal"
  /\ row' = Copy(e) /\ faults' = faults
  /\ Leave(e)
  /\ UNCHANGED others

(* The last update of _finalize: a run still RUNNING has failed.  The      *)
(* closing event is added to the run after it.                             *)
Seal(e) ==
  /\ pc[e].at = "seal"
  /\ LET r == [Copy(e) EXCEPT !.status =
                 IF @ = "running" THEN "failed" ELSE @]
         told == [r EXCEPT !.events = @ \union
                    (CASE r.status = "failed"   -> {"run_failed"}
                       [] r.status = "approved" -> {"run_completed"}
                       [] OTHER                 -> {})]
     IN  \/ row' = (IF Durable THEN r ELSE told) /\ faults' = faults
         \/ /\ Durable /\ faults < MaxFaults
            /\ faults' = faults + 1 /\ row' = row
  /\ Leave(e)
  /\ UNCHANGED others
-----------------------------------------------------------------------------
(* request_cancellation.  It refuses a terminal run, then sets the flag    *)
(* and writes back the whole run it read.                                  *)

CancelLoad(c) ==
  /\ Durable
  /\ cpc[c] = "start"
  /\ row.status \notin TerminalStatuses
  /\ ccopy' = [ccopy EXCEPT ![c] = row]
  /\ cpc' = [cpc EXCEPT ![c] = "store"]
  /\ UNCHANGED <<source, row, local, pc, accepted, applies, resumes,
                 crashes, faults>>

(* Mutant: the request keeps the status it finds and restores the rest.    *)
CancelStoreKeepsStatus(c) ==
  /\ Durable /\ cpc[c] = "store"
  /\ cpc' = [cpc EXCEPT ![c] = "done"]
  /\ ccopy' = [ccopy EXCEPT ![c] = Created(source)]
  /\ row' = [ccopy[c] EXCEPT !.cancel = TRUE, !.status = row.status]
  /\ accepted' = TRUE
  /\ UNCHANGED <<source, local, pc, applies, resumes, crashes, faults>>

CancelStore(c) ==
  /\ Durable
  /\ cpc[c] = "store"
  /\ cpc' = [cpc EXCEPT ![c] = "done"]
  /\ ccopy' = [ccopy EXCEPT ![c] = Created(source)]
  /\ \/ /\ row' = [ccopy[c] EXCEPT !.cancel = TRUE]
        /\ accepted' = TRUE
        /\ faults' = faults
     \/ /\ faults < MaxFaults
        /\ faults' = faults + 1
        /\ UNCHANGED <<row, accepted>>
  /\ UNCHANGED <<source, local, pc, applies, resumes, crashes>>

(* The same with the shared object: nothing awaits between get and update. *)
CancelShared(c) ==
  /\ ~Durable
  /\ cpc[c] = "start"
  /\ row.status \notin TerminalStatuses
  /\ row' = [row EXCEPT !.cancel = TRUE]
  /\ accepted' = TRUE
  /\ cpc' = [cpc EXCEPT ![c] = "done"]
  /\ UNCHANGED <<source, local, pc, ccopy, applies, resumes, crashes,
                 faults>>

CancelRefused(c) ==
  /\ cpc[c] = "start"
  /\ row.status \in TerminalStatuses
  /\ cpc' = [cpc EXCEPT ![c] = "done"]
  /\ UNCHANGED <<source, row, local, pc, ccopy, accepted, applies, resumes,
                 crashes, faults>>
-----------------------------------------------------------------------------
(* The backend crashes and starts again.  Start-up runs check_recovery     *)
(* before the first request: a run left pending or running is marked       *)
(* failed when its last update is more than an hour old, and is left for   *)
(* resume_run otherwise.                                                   *)
Crash ==
  /\ crashes < MaxCrashes
  /\ crashes' = crashes + 1
  /\ pc' = [e \in Executors |-> Idle]
  /\ local' = [e \in Executors |-> Created(source)]
  /\ cpc' = [c \in Cancellers |-> IF cpc[c] = "store" THEN "done" ELSE cpc[c]]
  /\ ccopy' = [c \in Cancellers |-> Created(source)]
  /\ \/ row' = row
     \/ /\ row.status \notin TerminalStatuses
        /\ row' = [row EXCEPT !.status = "failed", !.failure = "stale"]
  /\ UNCHANGED <<source, accepted, applies, resumes, faults>>
-----------------------------------------------------------------------------
Init ==
  /\ source \in SourceKinds
  /\ row = Created(source)
  /\ local = [e \in Executors |-> Created(source)]
  /\ \E first \in Executors :
       pc = [e \in Executors |-> IF e = first
                                 THEN At("load", "initializing") ELSE Idle]
  /\ cpc = [c \in Cancellers |-> "start"]
  /\ ccopy = [c \in Cancellers |-> Created(source)]
  /\ accepted = FALSE
  /\ applies = 0 /\ resumes = 0 /\ crashes = 0 /\ faults = 0

Work(e) ==
  \/ Acquire(e) \/ Analyze(e) \/ Produce(e) \/ Retrieve(e) \/ Validate(e)
  \/ Apply(e) \/ RunTests(e) \/ Repair(e) \/ Review(e) \/ Gate(e)

Finish(e) ==
  \/ Save(e) \/ Decide(e) \/ Complete(e) \/ Advance(e) \/ Bypass(e)
  \/ Skip(e) \/ Refuse(e) \/ Fail(e) \/ GiveUp(e)

Close(e) == Handle(e) \/ Capture(e) \/ Seal(e)

Execute(e) == Load(e) \/ Hop(e) \/ Enter(e) \/ Work(e) \/ Finish(e) \/ Close(e)

Cancel(c) ==
  CancelLoad(c) \/ CancelStore(c) \/ CancelShared(c) \/ CancelRefused(c)

(* Nothing is left to do once every execution returned and every request   *)
(* was answered; resume_run refuses the run from then on.                  *)
Next ==
  \/ \E e \in Executors : Resume(e) \/ Execute(e)
  \/ \E c \in Cancellers : Cancel(c)
  \/ Crash

Spec == Init /\ [][Next]_vars

(* The event loop keeps running a task whose await has returned, and the   *)
(* stores and services an execution waits for answer or raise.             *)
Fairness == \A e \in Executors : WF_vars(Execute(e))

FairSpec == Spec /\ Fairness
-----------------------------------------------------------------------------
(* Properties.                                                             *)

(* Every variable keeps its type.                                          *)
TypeOK ==
  /\ source \in SourceKinds
  /\ row \in Run
  /\ local \in [Executors -> Run]
  /\ pc \in [Executors -> [at : Points, pos : Positions]]
  /\ cpc \in [Cancellers -> {"start", "store", "done"}]
  /\ ccopy \in [Cancellers -> Run]
  /\ accepted \in BOOLEAN
  /\ applies \in Nat /\ resumes \in Nat /\ crashes \in Nat /\ faults \in Nat

(* A run is stored as APPROVED only with everything an approval stands     *)
(* for: the gate approved it, its tests did not fail, it was reviewed, and *)
(* its patch was validated and handed to the patch engine.                 *)
Earned(r) ==
  /\ r.gate = "approved" /\ r.stage = "completed"
  /\ r.tests \in {"passed", "skipped"}
  /\ {"requirements", "plan", "patch", "review"} \subseteq r.has
  /\ r.applied # "none"
  /\ {<<"validating_patch", "succeeded">>, <<"testing", "succeeded">>}
       \subseteq r.recs

ApprovedIsEarned == row.status = "approved" => Earned(row)

(* A verdict in the store is the one the gate gave to this very copy, and  *)
(* tests that failed are never more than rejected, whoever wrote last.     *)
Sealed(r) ==
  r.status \in Decisions =>
    /\ r.gate = r.status /\ r.stage = "completed"
    /\ r.tests \in {"failed", "unparsed"} => r.status = "rejected"

VerdictIsTheGates == Sealed(row)

(* What a stage leaves behind that keeps it from being run again.         *)
Output ==
  [ analyzing_task |-> "requirements", planning |-> "plan",
    coding |-> "patch", reviewing |-> "review" ]

(* "Stages that are REPLAY_SAFE are not re-executed" (resume_run): with    *)
(* one execution at a time, no stage works on an output already stored.    *)
NotRedone ==
  \A e \in Executors, s \in {"analyzing_task", "planning", "coding"} :
     Is(e, "work", s) => Output[s] \notin row.has

(* However often the run is interrupted and resumed, its patch is written  *)
(* to the workspace at most once by an execution that is alone.            *)
AppliedOnce == applies <= 1

(* The stored run is what its clients are promised (module RunPromise).    *)
Promise == INSTANCE RunPromise WITH status <- row.status, stage <- row.stage
PromiseKept == Promise!Spec

(* Every execution returns, whatever raises.                               *)
ExecutionReturns ==
  \A e \in Executors : (pc[e].at # "idle") ~> (pc[e].at = "idle")

-----------------------------------------------------------------------------
(* Why approvals are earned: what an execution at a given place may rely   *)
(* on, whatever other executions and cancel requests write to the row in   *)
(* between.  Ready(p, r) is what stands when the stage p starts, Done what *)
(* its service adds, Behind what its record adds.                          *)

FromPlanning == {"planning", "retrieving_context", "coding"}
FromValidation == {"validating_patch", "applying_patch", "testing",
                   "repairing", "retest", "reviewing", "quality_gate"}
FromApplying == FromValidation \ {"validating_patch"}
FromTesting == FromApplying \ {"applying_patch"}
FromRepair == FromTesting \ {"testing"}

Ready(p, r) ==
  /\ p \in FromPlanning \union FromValidation => "requirements" \in r.has
  /\ p \in {"retrieving_context", "coding"} \union FromValidation =>
       "plan" \in r.has
  /\ p \in FromValidation => "patch" \in r.has
  /\ p \in FromApplying => <<"validating_patch", "succeeded">> \in r.recs
  /\ p \in FromTesting => r.applied # "none"
  /\ p \in FromRepair => <<"testing", "succeeded">> \in r.recs
  /\ p = "quality_gate" => "review" \in r.has

Done(p, r) ==
  /\ Ready(p, r)
  /\ p = "analyzing_task" => "requirements" \in r.has
  /\ p = "planning"       => "plan" \in r.has
  /\ p = "coding"         => "patch" \in r.has
  /\ p = "applying_patch" => r.applied # "none"
  /\ p = "reviewing"      => "review" \in r.has

Behind(p, r) ==
  /\ Done(p, r)
  /\ p \in {"validating_patch", "testing"} =>
       <<p, "succeeded">> \in r.recs

(* The places an execution can be at.                                      *)
Branching == {"testing", "retest", "quality_gate"}

Placed(q) ==
  /\ q.at = "hop" => q.pos \in {"acquiring_repository",
                                "analyzing_repository", "reviewing"}
  /\ q.at = "advance" => q.pos \in WorkStages \ Branching
  /\ q.at \in {"enter", "work", "complete", "fail", "refuse"} =>
       q.pos \in WorkStages \union {"retest"}
  /\ q.at = "save" => q.pos \in {"validating_patch", "applying_patch"}
  /\ q.at = "decide" => q.pos = "quality_gate"
  /\ q.at = "give_up" => q.pos = "acquiring_repository"
  /\ q.at = "bypass" => q.pos \in {"retrieving_context", "repairing"}
  /\ q.at = "skip" => q.pos \in {"acquiring_repository",
                                 "retrieving_context"}

OnItsWay == {"hop", "enter", "work", "save", "complete", "advance",
             "decide", "bypass", "skip"}

OnlyEarned(r) == r.status = "approved" => Earned(r)

(* The copy r of an execution at q is backed by evidence.                  *)
Backed(q, r) ==
  /\ OnlyEarned(r)
  /\ q.at \in OnItsWay => Ready(q.pos, r)
  /\ q.at \in OnItsWay /\ q # At("complete", "quality_gate") =>
       r.status # "approved"
  /\ q.at \in {"save", "complete"} => Done(q.pos, r)
  /\ q.at = "advance" => Behind(q.pos, r)
  /\ q.at = "decide" /\ r.gate = "approved" =>
       r.tests \in {"passed", "skipped"}

(* The inductive invariant behind ApprovedIsEarned: every copy in the      *)
(* hands of an execution is backed, and the store and the cancel requests  *)
(* only ever hold approvals that were earned.                              *)
Evidence ==
  /\ \A e \in Executors : Placed(pc[e]) /\ Backed(pc[e], Copy(e))
  /\ OnlyEarned(row)
  /\ \A c \in Cancellers : OnlyEarned(ccopy[c])
-----------------------------------------------------------------------------
(* Why a stored verdict is the gate's: until the gate's decision becomes   *)
(* the status an execution holds a copy without a verdict, and after that  *)
(* it only adds records and events or fails the run.                       *)
Held(q, r) ==
  /\ Sealed(r)
  /\ q.at \in OnItsWay /\ q # At("complete", "quality_gate") =>
       r.status \notin Decisions
  /\ q.at = "decide" /\ r.tests \in {"failed", "unparsed"} =>
       r.gate = "rejected"

(* The inductive invariant behind VerdictIsTheGates: whatever anybody may  *)
(* write next holds no verdict but the gate's.                             *)
Verdicts ==
  /\ \A e \in Executors : Held(pc[e], Copy(e))
  /\ Sealed(row)
  /\ \A c \in Cancellers : Sealed(ccopy[c])

-----------------------------------------------------------------------------
(* Why the promise is kept by an execution that is alone with the run: its *)
(* copy r is never more than one move of the promise ahead of the row w.   *)
Alive(w) == w.status \in {"pending", "running"}

Sane(w) ==
  /\ Alive(w) => w.stage \notin TerminalStages
  /\ w.status = "pending" => w.stage = "initializing"

Ahead(w, r) ==
  /\ Alive(w) /\ r.status = "running"
  /\ r.stage \notin TerminalStages /\ Legal(w.stage, r.stage)

Decided(w, r) ==
  /\ w.status = "running" /\ w.stage = "quality_gate"
  /\ r.status \in Decisions /\ r.stage = "completed"

Broken(w, r) == Alive(w) /\ r.status = "failed" /\ r.stage = "failed"

Settled(w, r) == r.status = w.status /\ r.stage = w.stage

(* The row w may be overwritten with r.                                    *)
MayBecome(w, r) ==
  \/ Ahead(w, r) \/ Decided(w, r) \/ Broken(w, r) \/ Settled(w, r)
  \/ Alive(w) /\ r.status = "failed" /\ r.stage = w.stage

Ended(r) ==
  /\ r.stage \in {"completed", "failed"}
  /\ r.stage = "failed" => r.status = "failed"

(* Where the stage of the copy is the one stored: _stage_retrieval is the  *)
(* only one that goes on when its transition was not stored.               *)
Underway(q) ==
  q.at \in OnItsWay \union {"refuse", "give_up"} /\ q # At("complete", "quality_gate")

Stored(q) ==
  ~ (q.pos = "retrieving_context" /\ q.at \in {"work", "complete", "bypass", "skip"})

Tied(q, w, r) ==
  /\ Sane(w)
  /\ q.at = "load" => Alive(w)
  /\ Underway(q) => Ahead(w, r) /\ (Stored(q) => r.stage = w.stage)
  /\ q.at = "decide" => r.gate \in Decisions
  /\ q = At("complete", "quality_gate") => Settled(w, r) /\ Ended(r)
  /\ q.at \in {"capture", "seal"} => Settled(w, r)
  /\ q.at \in {"fail", "raised"} =>
       \/ Ahead(w, r) \/ Decided(w, r) \/ Broken(w, r)
       \/ Settled(w, r) /\ Ended(r)

(* The inductive invariant behind PromiseKept.                             *)
OneMoveAhead ==
  Sane(row) /\ \A e \in Executors : Tied(pc[e], row, Copy(e))

-----------------------------------------------------------------------------
(* The stages that resume_run must not repeat.                             *)
Unfinished == {"analyzing_task", "planning", "coding"}

(* The inductive invariant behind NotRedone: with at most one cancel       *)
(* request, the row never holds an output the copy lacks.                  *)
NothingMore ==
  /\ \A e \in Executors :
       /\ pc[e].at \notin {"idle", "load"} => row.has \subseteq Copy(e).has
       /\ pc[e].at \in {"enter", "work"} /\ pc[e].pos \in Unfinished =>
            Output[pc[e].pos] \notin Copy(e).has
  /\ \A c \in Cancellers : cpc[c] = "store" => ccopy[c].has \subseteq row.has

(* Why the patch is applied once: the stage map leads from the application *)
(* to no validation, and nothing else leads to an application.             *)
FromApplication ==
  {"applying_patch", "testing", "repairing", "reviewing", "quality_gate"}
    \union TerminalStages

Spent(q, r) ==
  /\ r.stage \in FromApplication
  /\ q.at \in OnItsWay \ {"enter"} => q.pos # "validating_patch"
  /\ q.at \in {"enter", "work"} => q.pos # "applying_patch"

(* The inductive invariant behind AppliedOnce.                             *)
NotAgain ==
  /\ applies <= 1
  /\ \A e \in Executors :
       /\ Is(e, "work", "applying_patch") =>
            Copy(e).stage = "applying_patch" /\ row.stage = "applying_patch"
       /\ applies = 1 /\ pc[e].at \notin {"idle", "load"} =>
            Spent(pc[e], Copy(e))
  /\ applies = 1 => row.stage \in FromApplication
=============================================================================
