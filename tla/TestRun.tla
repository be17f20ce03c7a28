-------------------------------- MODULE TestRun --------------------------------
(***************************************************************************)
(* TestingService (services/testing_service.py) with ExecutionPolicy       *)
(* (services/execution_policy.py), ControlledExecutionEngine               *)
(* (services/controlled_execution_engine.py) and the result parsers        *)
(* (testing/parsers): commands are discovered in a workspace, made into a  *)
(* plan, judged by the policy and run one after the other; each is a child *)
(* process whose output is read from a pipe of bounded size while a        *)
(* deadline runs, and the statuses of the commands become the status of    *)
(* the test run.                                                           *)
(*                                                                         *)
(* A unit of output is what the child writes at once; stdout and stderr    *)
(* are one pipe.  A child that leaves a process of its own behind (heir)   *)
(* keeps the pipe open after its own end.  The counts of tests and the     *)
(* failures the parsers extract are left out: a parser decides the status  *)
(* by the status and the exit code of the process.                         *)
(***************************************************************************)
EXTENDS Naturals, Sequences, FiniteSets

CONSTANTS
  Workspaces,    \* what discovery may find
  Requests,      \* plans made by other callers of run_tests
  Enabled,       \* categories TEST_ALLOW_* switches on
  MaxCommands,   \* TEST_MAX_COMMANDS
  Children,      \* what a spawned command may do
  MaxOutput,     \* TEST_MAX_OUTPUT_BYTES
  PipeSize,
  MaxFaults      \* bound on exceptions while a command is watched

ExecutionStatus == {"passed", "failed", "timeout", "error", "rejected",
                    "skipped", "environment_not_ready"}
CommandCategory == {"test", "lint", "typecheck", "build"}
ScriptNames == {"test", "test:", "lint", "typecheck", "build", "start"}

(* ExecutionStep, and CommandCandidate with its confidence in percent.     *)
(* inside: the working directory lies in the workspace; clean: no          *)
(* dangerous pattern or shell character in the arguments, python runs a    *)
(* module; script: what the package script contains.                       *)
Step == [category : CommandCategory, command : STRING, confidence : 0 .. 100,
         listed : BOOLEAN, inside : BOOLEAN, clean : BOOLEAN,
         script : {"none", "clean", "harmful"}]

(* What discover_commands can see of a workspace.                          *)
Workspace == [exists : BOOLEAN, config : SUBSET STRING,
              scripts : Seq([name : ScriptNames, content : {"none", "clean", "harmful"}]),
              plainTargets : BOOLEAN]

Child == [writes : Nat, ends : {"zero", "nonzero", "never"}, deaf : BOOLEAN,
          heir : BOOLEAN]

ASSUME TestRunAssumption ==
  /\ Workspaces \subseteq Workspace
  /\ Requests \subseteq Seq(Step)
  /\ Enabled \subseteq CommandCategory \ {"test"}
  /\ Children \subseteq Child
  /\ MaxCommands \in Nat /\ MaxFaults \in Nat
  /\ MaxOutput \in Nat \ {0} /\ PipeSize \in Nat \ {0}

VARIABLES
  tests,   \* the call of run_tests: plan, next step, what became of each step
  child,   \* the command that runs, and what it leaves in the pipe
  watch,   \* the engine's view of that command
  slips    \* exceptions that were raised while watching

testVars == <<tests, child, watch, slips>>

----------------------------------------------------------------------------
(* discover_commands.  A workspace says what its configuration files       *)
(* mention, the scripts of its package.json, whether it holds Python files *)
(* and whether the tests targeted for the changed files have plain names.  *)
Pytest(confidence, ws) ==
  [category |-> "test", command |-> "pytest", confidence |-> confidence,
   listed |-> TRUE, inside |-> TRUE, clean |-> ws.plainTargets, script |-> "none"]

FromConfig(ws) ==
  IF "pyproject" \in ws.config THEN <<Pytest(90, ws)>>
  ELSE IF "pytest.ini" \in ws.config THEN <<Pytest(90, ws)>>
  ELSE IF "setup.cfg" \in ws.config THEN <<Pytest(80, ws)>>
  ELSE <<>>

ScriptCategory(name) ==
  CASE name \in {"test", "test:"} -> "test"
    [] name \in Enabled -> name
    [] OTHER -> "none"

NpmRun(s) ==
  [category |-> ScriptCategory(s.name), command |-> s.name,
   confidence |-> CASE s.name = "test" -> 90 [] s.name = "build" -> 70 [] OTHER -> 80,
   listed |-> TRUE, inside |-> TRUE, clean |-> TRUE, script |-> s.content]

(* The elements of s at the positions K, in their order.                   *)
Picked(s, K) ==
  LET Nth(n) == CHOOSE i \in K : Cardinality({j \in K : j <= i}) = n
  IN [n \in 1 .. Cardinality(K) |-> s[Nth(n)]]

FromPackage(ws) ==
  LET usable == {i \in DOMAIN ws.scripts : ScriptCategory(ws.scripts[i].name) # "none"}
  IN Picked([i \in DOMAIN ws.scripts |-> NpmRun(ws.scripts[i])], usable)

DiscoverCommands(ws) ==
  FromConfig(ws) \o FromPackage(ws)
    \o (IF FromConfig(ws) = <<>> /\ "python" \in ws.config
        THEN <<Pytest(50, ws)>> ELSE <<>>)

(* build_plan: the first candidate of each command, none below 0.4, at     *)
(* most MaxCommands.                                                       *)
BuildPlan(candidates) ==
  LET First(i) == \A j \in 1 .. i - 1 : candidates[j].command # candidates[i].command
      kept == {i \in DOMAIN candidates : First(i) /\ candidates[i].confidence >= 40}
      chosen == {i \in kept : Cardinality({j \in kept : j < i}) < MaxCommands}
  IN Picked(candidates, chosen)

Required(step) == step.category = "test"

(* ExecutionPolicy.validate                                                *)
Allowed(step, i) ==
  /\ step.category \in Enabled \union {"test"}
  /\ step.listed /\ step.inside /\ step.clean
  /\ step.script # "harmful"
  /\ i <= MaxCommands

ValidPlan(plan) == \A i \in DOMAIN plan : Allowed(plan[i], i)

----------------------------------------------------------------------------
NoChild == [left |-> 0, pipe |-> 0, alive |-> FALSE, code |-> "none",
            is |-> [writes |-> 0, ends |-> "never", deaf |-> FALSE, heir |-> FALSE]]
NotWatching == [at |-> "off", got |-> 0, reading |-> FALSE, cut |-> FALSE,
                late |-> FALSE, code |-> "none"]
NoTests == [at |-> "idle", plan |-> <<>>, ran |-> <<>>, status |-> "none"]

LeastOf(a, b) == IF a < b THEN a ELSE b

(* How run_tests begins: a call of the pipeline's testing stage, which     *)
(* discovers and plans but does not validate the plan, the testing         *)
(* workflow, which does, or a caller with a plan of its own.               *)
Begin(plan) == tests' = [NoTests EXCEPT !.at = "running", !.plan = plan]
EndAs(at, status) == tests' = [NoTests EXCEPT !.at = at, !.status = status]

StageTests(ws) ==
  /\ tests.at = "idle"
  /\ IF ws.exists THEN Begin(BuildPlan(DiscoverCommands(ws)))
     ELSE EndAs("done", "environment_not_ready")
  /\ UNCHANGED <<child, watch, slips>>

WorkflowTests(ws) ==
  /\ tests.at = "idle"
  /\ LET plan == BuildPlan(DiscoverCommands(ws))
     IN IF ws.exists /\ DiscoverCommands(ws) # <<>> /\ ValidPlan(plan)
        THEN Begin(plan) ELSE EndAs("no_result", "none")
  /\ UNCHANGED <<child, watch, slips>>

RequestTests(plan) ==
  /\ tests.at = "idle"
  /\ Begin(plan)
  /\ UNCHANGED <<child, watch, slips>>

----------------------------------------------------------------------------
(* One step of the plan.                                                   *)
Index == Len(tests.ran) + 1
HasStep == tests.at = "running" /\ watch.at = "off" /\ Index <= Len(tests.plan)

(* truth is what became of the command: rejected, missing, the exit code   *)
(* it ended with by itself, or that it was cut off.                        *)
Record(status, truth) ==
  Append(tests.ran, [status |-> status, truth |-> truth,
                     required |-> Required(tests.plan[Index])])

RejectStep ==
  /\ HasStep
  /\ ~Allowed(tests.plan[Index], Index)
  /\ tests' = [tests EXCEPT !.ran = Record("rejected", "rejected")]
  /\ UNCHANGED <<child, watch, slips>>

(* The executable is not there or may not be run: the result is ERROR with *)
(* no exit code, for which GenericResultParser.parse names a status that   *)
(* ExecutionStatus does not have.  The AttributeError leaves run_tests.    *)
SpawnFails ==
  /\ HasStep
  /\ Allowed(tests.plan[Index], Index)
  /\ tests' = [tests EXCEPT !.at = "raised", !.ran = Record("error", "missing")]
  /\ UNCHANGED <<child, watch, slips>>

Spawn(c) ==
  /\ HasStep
  /\ Allowed(tests.plan[Index], Index)
  /\ child' = [left |-> c.writes, pipe |-> 0, alive |-> TRUE, code |-> "none", is |-> c]
  /\ watch' = [NotWatching EXCEPT !.at = "running", !.reading = TRUE]
  /\ UNCHANGED <<tests, slips>>

(* What the child does.                                                    *)
ChildWrites ==
  /\ child.alive /\ child.left > 0 /\ child.pipe < PipeSize
  /\ child' = [child EXCEPT !.left = child.left - 1, !.pipe = child.pipe + 1]
  /\ UNCHANGED <<tests, watch, slips>>

ChildExits ==
  /\ child.alive /\ child.left = 0 /\ child.is.ends # "never"
  /\ child' = [child EXCEPT !.alive = FALSE, !.code = child.is.ends]
  /\ UNCHANGED <<tests, watch, slips>>

(* A child that handles SIGTERM may end with any exit code.                *)
ChildObeys ==
  /\ watch.at = "killing" /\ child.alive /\ ~child.is.deaf
  /\ \E code \in {"zero", "nonzero"} :
       child' = [child EXCEPT !.alive = FALSE, !.code = code]
  /\ UNCHANGED <<tests, watch, slips>>

HeirEnds ==
  /\ watch.at # "off" /\ child.is.heir
  /\ child' = [child EXCEPT !.is.heir = FALSE]
  /\ UNCHANGED <<tests, watch, slips>>

ChildMoves == ChildWrites \/ ChildExits \/ ChildObeys \/ HeirEnds

(* read_stream: a chunk that arrives when the buffer is full ends the      *)
(* reading, and nobody empties the pipe from then on.                      *)
ReadChunk ==
  /\ watch.reading /\ child.pipe > 0
  /\ \E n \in 1 .. child.pipe :
       /\ child' = [child EXCEPT !.pipe = child.pipe - n]
       /\ watch' = IF watch.got = MaxOutput
                   THEN [watch EXCEPT !.reading = FALSE, !.cut = TRUE]
                   ELSE [watch EXCEPT !.got = LeastOf(watch.got + n, MaxOutput)]
  /\ UNCHANGED <<tests, slips>>

EndOfStream ==
  /\ watch.reading /\ child.pipe = 0 /\ ~child.alive /\ ~child.is.heir
  /\ watch' = [watch EXCEPT !.reading = FALSE]
  /\ UNCHANGED <<tests, child, slips>>

(* Mutant: a read is given up only while the child itself lives.           *)
ReadTimeoutOfChild ==
  /\ watch.reading /\ child.pipe = 0 /\ child.alive
  /\ watch.at \in {"killing", "draining"}
  /\ watch' = [watch EXCEPT !.reading = FALSE, !.cut = TRUE]
  /\ UNCHANGED <<tests, child, slips>>

(* A read waits at least as long as the deadline, so that it is given up   *)
(* only after the deadline or the end of the child.                        *)
ReadTimeout ==
  /\ watch.reading /\ child.pipe = 0 /\ (child.alive \/ child.is.heir)
  /\ watch.at \in {"killing", "draining"}
  /\ watch' = [watch EXCEPT !.reading = FALSE, !.cut = TRUE]
  /\ UNCHANGED <<tests, child, slips>>

(* process.wait() returns, or its timeout ends it; the latter may win over *)
(* an exit that the event loop has not yet noticed, or that it reports     *)
(* only once the pipe is closed, as newer versions of asyncio do.          *)
WaitReturns ==
  /\ watch.at = "running" /\ ~child.alive
  /\ watch' = [watch EXCEPT !.at = "draining", !.code = child.code]
  /\ UNCHANGED <<tests, child, slips>>

Deadline ==
  /\ watch.at = "running"
  /\ watch' = [watch EXCEPT !.at = "killing", !.late = TRUE]
  /\ UNCHANGED <<tests, child, slips>>

(* _terminate_process_tree: SIGTERM, half a second, SIGKILL.  Only the     *)
(* process itself is signalled.                                            *)
Kill ==
  /\ watch.at = "killing"
  /\ child' = [child EXCEPT !.alive = FALSE,
                            !.code = IF child.alive THEN "killed" ELSE child.code]
  /\ watch' = [watch EXCEPT !.at = "draining"]
  /\ UNCHANGED <<tests, slips>>

(* An exception while waiting: the process is terminated, the readers are  *)
(* not awaited, and the result is a timeout.                               *)
WatchFails ==
  /\ watch.at = "running" /\ slips < MaxFaults
  /\ slips' = slips + 1
  /\ child' = [child EXCEPT !.alive = FALSE,
                            !.code = IF child.alive THEN "killed" ELSE child.code]
  /\ watch' = [watch EXCEPT !.at = "draining", !.reading = FALSE, !.late = TRUE]
  /\ UNCHANGED tests

(* Mutant: a command that ends with 0 has passed.                          *)
ProcessStatusByCode ==
  IF child.code = "zero" THEN "passed"
  ELSE IF watch.late THEN "timeout"
  ELSE "failed"

(* How _run_process and the parsers name the end of a command.             *)
ProcessStatus ==
  IF watch.late THEN "timeout"
  ELSE IF watch.code = "zero" THEN "passed"
  ELSE "failed"

(* Both readers are awaited before the result is made.                     *)
Collect ==
  /\ watch.at = "draining" /\ ~watch.reading
  /\ tests' = [tests EXCEPT
       !.ran = Record(ProcessStatus, IF watch.late THEN "cut" ELSE child.code)]
  /\ child' = NoChild
  /\ watch' = NotWatching
  /\ UNCHANGED slips

(* The status of the run.                                                  *)
RunStatus(ran) ==
  LET Has(status) == \E i \in DOMAIN ran : ran[i].status = status
  IN IF Has("timeout") THEN "timeout"
     ELSE IF Has("error") THEN "error"
     ELSE IF Has("failed") THEN "failed"
     ELSE IF Has("rejected") /\ ~Has("passed") THEN "skipped"
     ELSE IF \E i \in DOMAIN ran : ran[i].required /\ ran[i].status = "rejected" THEN "failed"
     ELSE "passed"

FinishTests ==
  /\ tests.at = "running" /\ watch.at = "off" /\ Index > Len(tests.plan)
  /\ tests' = [tests EXCEPT !.at = "done", !.status = RunStatus(tests.ran)]
  /\ UNCHANGED <<child, watch, slips>>

StartTests ==
  \/ \E ws \in Workspaces : StageTests(ws) \/ WorkflowTests(ws)
  \/ \E plan \in Requests : RequestTests(plan)

EngineMoves ==
  ReadChunk \/ EndOfStream \/ ReadTimeout \/ WaitReturns \/ Deadline \/ Kill
    \/ WatchFails \/ Collect

PlanMoves ==
  RejectStep \/ SpawnFails \/ (\E c \in Children : Spawn(c)) \/ FinishTests

TestInit ==
  tests = NoTests /\ child = NoChild /\ watch = NotWatching /\ slips = 0

TestNext == StartTests \/ PlanMoves \/ EngineMoves \/ ChildMoves

(* The engine's waits end: the event loop runs its callbacks and timers.   *)
(* Nothing is assumed of the child.                                        *)
TestFairness == WF_testVars(PlanMoves) /\ WF_testVars(EngineMoves)

----------------------------------------------------------------------------
(* run_tests returns or raises whatever its commands do: hang, ignore      *)
(* SIGTERM, flood the pipe or leave a process behind that holds it.        *)
RunReturns == tests.at = "running" ~> tests.at # "running"
=============================================================================
