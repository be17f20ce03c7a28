# Dev-Pilot: specification and verification

Dev-Pilot runs a pipeline of language-model agents over a repository: it plans a
task, proposes a patch, validates and applies it in a workspace, tests and
repairs it, reviews it and lets a deterministic quality gate decide. This
directory holds TLA+ models of the parts of the backend (`src/backend/app`)
whose correctness depends on the order in which concurrent tasks, processes,
failures and restarts meet or on searches and judgements over many inputs, the
TLC configurations that check them on small instances, and TLAPS proofs of their
invariants for all sizes.

`PROJECT.json` lists every component, run, property, theorem and hazard, and
maps each definition to the source lines it stands for. Paths below are relative
to the repository; `OS` is `services/orchestration_service.py`.

- [1. Inventory of the system](#1-inventory-of-the-system)
- [2. Modules](#2-modules)
- [3. Model-checking runs](#3-model-checking-runs)
- [4. Bounds](#4-bounds)
- [5. Fairness](#5-fairness)
- [6. Proofs](#6-proofs)
- [7. Where code and documents differ](#7-where-code-and-documents-differ)
- [8. What is not modelled](#8-what-is-not-modelled)
- [9. Plan](#9-plan)
- [10. Running it](#10-running-it)

## 1. Inventory of the system

The backend is one asyncio process (FastAPI), with optional PostgreSQL storage
and a CLI whose commands are processes of their own over the same database. An
`await` is the only point where another task of the same process can run; a
database call is also a point where another process can.

### 1.1 Components that are modelled

**Run lifecycle** (`services/orchestration_service.py`,
`services/run_store.py`, `services/postgres_run_store.py`,
`models/orchestration.py`).
*State*: the run record `DevPilotRun` — status, current stage, cancellation
flag, the artefacts of the stages, stage records, failure, events — in one of
two stores. `InMemoryRunStore` hands out the same object to everybody;
`PostgresRunStore` deserialises a fresh copy on `get` and writes the whole row on
`update`. *Operations*: `create_run`, `execute_run` (twelve stage methods and
`_finalize`), `request_cancellation`, `resume_run`, `check_recovery` at start-up.
*Interactions*: each stage calls a service (agents, patch engine, testing, repair,
review, gate), every store update is followed by a broadcast on the live feed,
and the autonomy loop executes runs as its iterations. *Hard*: two executions of
one run, a cancel request racing an execution, a crash between a stage's effect
and its record, a store update that fails in the middle of a stage.
*Correctness*: an approval is earned; a verdict is the gate's; a finished stage
is not redone; the patch is written once; terminal is terminal; the execution
returns and the run ends; an accepted cancellation stays recorded.

**Patches of several repositories** (the multi-repository parts of `OS`,
`services/repository_scope.py`). *State*: the checkouts and scopes of a run's
repositories, the patches submitted with it and the result of each. *Operations*:
materialize the auxiliary repositories, validate, apply. *Hard*: results and
patches are matched by repository id; checkouts are edited by other programs, also
while the engine writes; a restart loses part of the source. *Correctness*: a patch lands in the checkout it
names, and on the text it was made for.

**Safe patch engine and repair loop** (`services/safe_patch_engine.py`,
`services/patch_validator.py`, `services/repair_service.py`,
`services/repair_policy.py`, `services/failure_diagnosis_service.py`).
*State*: files, the snapshot of a patch under way, the attempts of a session with
fingerprints and the best test result. *Operations*: validate, apply change by
change, roll back; diagnose, propose, judge, apply, retest, undo. *Hard*: a write
refused in the middle of a patch or of a rollback, changes that touch one path
more than once or turn a file into a directory, repairs that weaken the tests
that judge them. *Correctness*: all or nothing, tests are kept, attempts are
bounded.

**Testing, review and quality gate** (`services/testing_service.py`,
`services/execution_policy.py`, `services/controlled_execution_engine.py`,
`testing/parsers`, `services/deterministic_review.py`, `agents/reviewer.py`,
`services/review_evidence_validator.py`, `services/review_service.py`,
`services/quality_gate.py`). *State*: a plan of commands, a child process with
its pipe, its deadline and its record; a report and a decision. *Hard*: exit,
deadline, kill and output limit race; a report is lost in a restart and made
again; the model's findings meet the deterministic ones. *Correctness*: what an
approval rests on; a model can only make the decision stricter.

**Handoffs, reasoning and replay** (`services/collaboration_service.py`,
`services/reasoning_service.py`, `services/replay_service.py`). *State*: handoffs
in the process and in a table, contradictions and consensus, manifests. *Hard*:
each write is best effort; claims are shown before the tests that refute them; a
replay recomputes what a repair has overwritten. *Correctness*: a refuted claim is
not shown, a downgrade lasts, a replayed gate decides the same.

**Knowledge graphs** (`services/engineering_graph_service.py`,
`services/organization_graph_service.py`). *State*: one graph per instance, three
shared tables, namespaces and cross-repository edges. *Hard*: recordings overlap
in their transactions, version counters restart, a recovery reads every
namespace into one graph. *Correctness*: the newest suite is selected, a stored
recording is whole, a traversal stays within its repository.

**Planning** (`agents/planner.py`, `agents/issue_analyzer.py`,
`services/plan_validator.py`, `services/planning_service.py`,
`workflows/planning.py`). *State*: requirements, a plan, two counters of
attempts, the colours and the stack of a depth-first search. *Correctness*: a plan
handed on can be executed, a cycle that is reported exists, planning ends.

**Code intelligence** (`code_intelligence/`: parsers, resolver, semantic graph,
full and incremental indexer, persistence). *State*: the graph, the hashes it was
built from, the rows it is stored in, the files others edit. *Hard*: a text that
changes between detection and reading, parsers that fail, a caller in another
file. *Correctness*: the incrementally kept graph is that of the files, callers
are found, no edge dangles.

**Context and memory** (`services/context_engine.py`,
`services/repository_memory_service.py`). *State*: memories with confidence and
status, sessions that overlap, a token budget. *Correctness*: a context holds what
it must, fits the budget and serves nothing retired; a retired memory stays
retired.

**Provider router** (`llm/router.py`).
*State*: per provider a circuit breaker (state, consecutive failures, opening
time, half-open calls), health windows and a pause after a failed call; per call
its candidates, retries and resumption budget. *Operations*: `chat`,
`chat_stream`, candidate selection, `record_success`, `record_failure`.
*Interactions*: all agents of all runs share one router. *Hard*: outcomes that
arrive after other tasks moved the breaker, a half-open budget that has to be
given back, retries that sleep while the circuit opens, streams that break after
tokens were delivered. *Correctness*: a breaker's state agrees with its
counters, a half-open circuit has a call to decide it, every chat ends.

**Live feed** (`services/ws_manager.py`, `api/v1/ws.py`,
`frontend/src/lib/hooks/useRunWebSocket.ts`).
*State*: the registry of sockets per channel, the handler of each socket, the
client's view. *Operations*: subscribe, send a snapshot, broadcast, disconnect,
`close_all`. *Interactions*: executions and cancel requests broadcast after each
store update. *Hard*: sockets that connect, break and leave between two sends of
one broadcast. *Correctness*: no socket leaks, no update is missed.

**Autonomy loop** (`services/autonomy_service.py`, `models/autonomy.py`,
`api/v1/autonomy.py`, `cli_autonomy.py`).
*State*: a goal (execution state, progress, evidence history, budget, version) as
an object in the server that created it and as a row in `execution_goals` with
checkpoints; a cancellation and a pause flag per process. *Operations*: `start`
(decide, iterate, evaluate, checkpoint), `pause`, `resume`, `cancel`,
`provide_input`. *Interactions*: each iteration executes a run; API requests and
CLI commands work on the same goal. *Hard*: two loops of one goal, a cancel
during an iteration, compare-and-swap checkpoints beside unconditional writes,
swallowed database errors, a restart that reloads an older budget, a history that
is put together from rows. *Correctness*: nothing is completed without met
criteria and an approval, a cancel ends the iterations, the budget bounds them,
the newest evidence decides.

### 1.2 Components that are not modelled

| Component | Why |
|---|---|
| Provider probes, metrics persistence | they touch health figures, never a breaker; the router model leaves the order of healthy candidates open |
| Retrieval (chunks, vector and lexical indexes) | built afresh for every request and thrown away |
| Coding workspaces and acquisition | file system and git; `RepositoryPatches` has what a run sees of them |
| Agents and LLM providers | prompts and parsing, no state; their answers are open in the models |
| Language and technology detection | text processing without state |
| Frontend dashboard | presentation |

## 2. Modules

| Module | Content |
|---|---|
| `RunStages` | the stage map `STAGE_TRANSITIONS` and `RunStateMachine` |
| `RunPromise` | abstract: what a run promises to clients that poll it |
| `RunLifecycle` | executions, cancel requests, crashes and the store of one run; EXTENDS `RunStages`, implements `RunPromise` |
| `RunClaims` | a statement of the documentation about runs that does not hold |
| `RunFeed` | sockets, handlers and broadcasts of one run |
| `MCRunActors` | the settings in which several actors meet on a run, and the feed |
| `ProviderRouter` | breakers, chats and streams of concurrent callers |
| `AutonomousGoal`, `MCAutonomousGoal` | one goal: loops, requests, restarts, checkpoints |
| `GoalJudgement`, `MCGoalJudgement` | how a goal's iterations are judged |
| `SafePatch` | a patch: validation, changes, rollback |
| `FailureDiagnosis`, `RepairLoop` | the bounded repair loop; `RepairLoop` EXTENDS both |
| `RepositoryPatches` | the patches of a run over several repositories |
| `MCRepair` | instances of `RepairLoop` and of `RepositoryPatches` |
| `TestRun`, `QualityReview`, `Verification`, `MCVerification` | commands, review and gate; `Verification` composes the first two |
| `AgentHandoffs`, `RunReasoning`, `RunRecord` | what a run leaves behind, and its replays |
| `EngineeringGraph`, `KnowledgeGraphs`, `MCKnowledgeGraphs` | the operations of one graph; the instances and their tables |
| `CycleSearch`, `Planning` | the search for a cycle; planning around it |
| `SemanticIndex`, `SyntaxParsers` | the semantic graph of a repository; the parsers of eleven languages |
| `AgentContext` | repository memory and the context of an agent |
| `MCPlanning` | instances of the four modules above |
| `RunLifecycleProofs` (also of `RunFeed`), `RunRecordProofs`, `ProviderRouterProofs`, `AutonomyProofs` (of `AutonomousGoal` and `GoalJudgement`), `RepairProofs`, `VerificationProofs`, `KnowledgeGraphsProofs`, `PlanningProofs` (also of `SemanticIndex`, `SyntaxParsers` and `AgentContext`) | proofs |

Operators whose comment begins with "Mutant:" are deliberately wrong variants of
the definition next to them. No specification uses them; each property is known
to fail when one of them replaces the right definition.

### 2.1 RunLifecycle

`row` is the run as the store has it; `local[e]` is the copy execution `e`
works on with PostgreSQL, and with the in-memory store `Copy(e)` is `row` itself.
`pc[e]` names the part of the stage method an execution is in:

| `pc` | code |
|---|---|
| `load`, `hop` | `execute_run`: `get`, and its own `_transition_to` calls |
| `enter` | the first `_transition_to` of a stage method, outside its try block |
| `work` | the service of the stage |
| `save`, `complete`, `advance`, `decide` | the updates of a stage that succeeds |
| `bypass`, `skip` | `_skip_stage`, inside and outside a try block |
| `refuse`, `fail`, `give_up` | a refused result, the except block, acquisition without a profile |
| `raised` | the outer except block of `execute_run` |
| `capture`, `seal` | `_finalize` |

An action goes from one `await self._store.update(run)` to the next, so other
tasks run exactly where they can in the code. `WriteOk` is an update that
returns; `WriteFails` one that raises, after which the assignments stay in the
copy. The two halves of `PostgresRunStore.update` (select the row, write it with
`version = ?`) are one step, as the version is read and compared within one
transaction; an overlap that makes the comparison fail is one of the ways an
update raises. What a service returns is chosen among the outcomes its stage
method distinguishes, and `Failing` limits which stages may fail in a run.

`RunPromise` is the abstract view: *Proceed* moves at most one step along the
map, *Conclude* turns the quality gate's stage into a verdict, *Break* fails the
run; a terminal status is the last. `PromiseKept` instantiates it with the
status and stage of the stored row.

### 2.2 RunFeed

The state of the run is the number of its updates. `job[p]` is a broadcast: the
copied set of sockets still to be served. `at[s]` is the handler of a socket,
`snap[s]` the run it read for the greeting. The registry's lock is never held
across an await, so what it guards is one step. A client that reconnects is a
further socket. `MCRunActors` puts it beside the executions of `RunLifecycle`.

### 2.3 ProviderRouter

`breaker[p]` is `CircuitBreaker` with the clock replaced by a flag "the cooldown
elapsed" set by `Cool`. `Go` is the loop over the candidates: on to the first one
whose breaker admits a call, or the end. The order of candidates is any order
`_order_by_health` could give: those recovering first, in priority order, the
rest arbitrary. Actions are the outcomes of an awaited attempt: `Answer`,
`Transient` (to be retried), `Retry`, `GiveUp` (next candidate) for chats;
`Token`, `EndStream`, `BreakStream`, `Leave` (the consumer closes it) for streams.
`lost`, a history variable, has the providers a stream left without an outcome since
their circuit last opened.

### 2.4 AutonomousGoal and GoalJudgement

`obj` is the object the creating server holds and all its requests share;
`priv[r]` the copy of a request that loaded the goal (a CLI command, or any
request after a restart); `row` the database row with the newest checkpoint.
`task[r].at` names the await a request is in. `LoopHead` is the head of the loop
up to the next await: flags, `_decide`, the budget. `Mark` and `Compare` are
`_checkpoint` and `_persist_checkpoint`, a compare-and-swap on the version;
`Persist` is `_persist_goal`, which writes without comparing. A database error
is swallowed by `_with_session`, and a checkpoint then counts as persisted.
`late` and `shown` are history variables: iterations begun after a cancel, and
what evidence ever showed.

`AutonomousGoal` leaves the judgement open and has the interleavings;
`GoalJudgement` has the judgement and one request at a time. `history` is the
evidence, `plans` the stored plan versions, `rows` the checkpoints from which
`ReloadGoal` rebuilds the history after a restart. `DecideNext` is the head of the
loop with `_decide`, the stuck detector and the budget; `IterationReturns`
evaluates and checkpoints. The names of the two modules are apart, so that one
module of proofs has both.

### 2.5 SafePatch, RepairLoop, RepositoryPatches

`files` maps paths to texts, to "absent" or to "directory"; `engine` is a patch
under way with what it remembers. `MakeChange` makes one change after the
other; `RefuseChange` and `ChangeFault` are a change that fails and restore what
was remembered in the same step, as `apply` awaits nothing. `RepairLoop` lends
the engine to the attempts: `Coding` (the patches before the session), `Start`
(which diagnoses), `Ask`, `Judge`, `Apply`, `Test` (which keeps or undoes).
`Services` says whether the collaborators accept the calls `run_repair` makes (section 7.2).
`RepositoryPatches` has one file per checkout and the stages `materializing`,
`validating`, `applying` with `next`, the patch that is dealt with. `call` is the
engine at work on it: `Look` validates once more, `Copy` takes the snapshot, `Check`
compares the hash, and the change or the rollback follows; `Edit`, another program,
may come between any two of them. `Restart` reads the run back from its row.

### 2.6 TestRun, QualityReview, Verification

`child` is the process of a command (what it has left to write, its pipe,
alive or not, its exit code), `watch` the engine around it (running, killing,
draining) and `tests` the call: plan, outcomes so far and status. `QualityReview`
has operators for each check (`Det`), for what the reviewing agent may add and
for what the validator keeps of it, `Decide` for the gate, and the actions of the
two stages with the loss of a stored report. `evidence` is what is reviewed;
`Verification` sets its test status from the run before.

### 2.7 AgentHandoffs, RunReasoning, RunRecord

`RunRecord` takes the pipeline as a sequence of steps (`at`), each with the
handoff it makes (`Tell...`) or the judgement it triggers (`Judge...`); `mirror`
is the list of the process, `rows` the table, `shown` what agents saw. `Capture`
stores the manifest; `Replay` reads the tables with services made anew and may
write to them. `Tamper` is an edit of the stored run.

### 2.8 EngineeringGraph, KnowledgeGraphs

`EngineeringGraph` has the operators on one graph (record, load, select);
`KnowledgeGraphs` its instances over shared tables (`nodeRows`, `edgeRows`,
`versionRows`): `Record` changes a graph in one go; `SelectRows` with
`CommitRows`, `StoreEdges` and `StoreVersion` are three transactions that may be
lost or overlap with another recording's. The first reads the graph itself, node by
node between its look-ups: `ReadNode` is such a read of a node other recordings write
too (`Shared`: files and repositories), and `reading` has what they wrote meanwhile.
When such a node is read is what matters; a node no other run writes is the same
whenever it is read. `Acquire` and `LinkAll` register and
link repositories; `Recover` reads the tables back.

### 2.9 CycleSearch, Planning

The recursion of `_has_cycle` is unrolled onto `stack` with `color`; `Descend`,
`PassBlack`, `MeetGray` and `Leave` are its cases. `Planning` runs it twice over each plan
the model may answer with: in the planner's own check, whose errors go back into
the prompt, and in the `PlanValidator`.

### 2.10 SemanticIndex, SyntaxParsers, AgentContext

`SemanticIndex`: a text is a file's content and its hash, what a parser finds in
it is given. `Detect` and the update of each file (`ParseFile`, `RemoveFile`,
`SkipFile`, `ParserRaises`) are apart, with edits between them; `SaveGraph`,
`LoadSymbols` and `LoadRelations` go through the rows. `FullIndex` is an index built
afresh, over the names a walk of the directories gives (`FullName`), with the
references the resolver finds: `SymbolTables` are the tables the order of the files
may leave, by module text and short name, and `Candidates` the keys an import is
looked up by. `SyntaxParsers` is the walk of a
parser over declarations, with the table of node types and owners of each
language. `AgentContext` has the memory operations as sessions with their
reads and writes apart (`SelectNamed` and `RetireNamed`, `GetMemory` and
`NoteUse`), promotion from runs and goals, and a context that is put together
from `BeginContext` to `ChooseItems`, which merges, ranks and budgets.

## 3. Model-checking runs

Times are with two workers on a small machine.

| Run | Module | States | Time | Question |
|---|---|---|---|---|
| `run_crash` | RunLifecycle | 329,255 | 60 s | crash, failing update and resume anywhere, one execution at a time |
| `run_actors` | MCRunActors | 385,780 | 118 s | cancel requests, two executions of one row, the shared object of the in-memory store, subscribers |
| `router` | ProviderRouter | 369,162 | 64 s | chats and streams of two tasks, with liveness |
| `goal` | MCAutonomousGoal | 3,833,703 | 90 s | loops, requests, CLI, restart, database error |
| `judgement` | MCGoalJudgement | 99,804 | 35 s | every outcome of the iterations under several policies and limits |
| `repair` | MCRepair | 339,945 | 82 s | failing writes and rollbacks, repair sessions; patches of three repositories with edits and a restart |
| `verify` | MCVerification | 1,087,146 | 102 s | plans, children, deadlines, floods of output; evidence, model and gate |
| `record` | RunRecord | 288,166 | 82 s | lost writes, a crash, an edit, two replays |
| `graph` | MCKnowledgeGraphs | 511,103 | 98 s | recordings, acquisition, lost writes, restart, recovery |
| `planning` | MCPlanning | 544,821 | 110 s | plans, the semantic index under edits, sources of every language, contexts |
| `claim_cancel_kept` | RunClaims | violated | | section 7.1 |
| `boundary_kept` | MCKnowledgeGraphs | violated | | section 7.1 |

What the properties say:

- `NotRedone`, `AppliedOnce` (`run_crash`): no artefact is produced a second
  time, and the patch reaches the workspace at most once however an execution is
  interrupted and resumed. `AppliedOnce` rests on two things the code does for
  other reasons: the assignment of the application result before the first
  update, and the stage map, which makes a resumed run that would validate again
  fail on the way back.
- `PromiseKept`: every step of every stored run is a step of `RunPromise`, also
  with failing updates and crashes. It holds with one execution at a time and no
  cancel request: either of them may write an older copy of the row back, and
  then the stage moves backwards.
- `ExecutionReturns`: `execute_run` always returns or raises, also when the
  update in its outermost except block fails.
- `ApprovedIsEarned`, `VerdictIsTheGates`, `RunEnds` (`run_actors`): `APPROVED`
  is stored only with a gate approval, tests that did not fail, a review, and a
  validated patch that was handed to the patch engine, all in the same row; every
  stored verdict is the one the gate gave to this copy. This is what survives
  when rows are rewound and overwritten: a whole row is written at a time, so a
  verdict never comes apart from its evidence. In memory, an uninterrupted run
  reaches a terminal status.
- `Handled`, `NothingMissed`: a listed socket has a handler that will remove it,
  and each update stored while a socket is subscribed reaches its client, or a
  newer one does, whatever the other sockets do. The unknown-goal socket is
  excepted (section 7.2).
- `BreakerSound`, `CallEnds` (`router`): a circuit is closed exactly while it
  counts fewer failures than the threshold, although outcomes arrive after other
  tasks changed the state; a half-open circuit has a call under way whose outcome
  will decide it, unless a stream took the probe and ended without one (section
  7.2; `lost` remembers that and nothing reads it). Every chat ends; of streams
  nothing of the kind holds.
- `CancelStops`, `IterationsBounded`, `CompletionShown` (`goal`): after a cancel,
  a request served by the server that holds the goal's flag begins at most the
  one iteration it had already decided on; the iterations of one goal object
  exceed the limit by less than the number of requests; a goal is completed only
  after some iteration met the criteria and some iteration was approved. They
  need not be the same one (section 7.2); the property is what the code
  guarantees.
- `CompletionProved`, `EnvironmentStops`, `LoopSettles` (`judgement`): with one
  request at a time the *newest* evidence proves a completed goal, although the
  history is put together from rows after a restart; no iteration begins while
  one of the last three failed for its environment; the loop comes to rest.
- `AllOrNothing` (`repair`): after a call of the engine the workspace is what the
  patch makes of it or what it was, directories that had to be made aside; the
  exceptions are those `apply` reports. `TestsKept`: no session removes or
  weakens a test file that was there when it began. `PatchesLand`: each patch
  lands in its own checkout only and is reported under its own id, for
  repositories that are told apart. `EditsKept`: an edit that another
  program makes between validation and application is not replaced; one it makes
  while the engine is at work on that file may be (section 7.2). `RepairEnds`: every pass counts to an end.
- `ApprovedOnEvidence`, `ModelOnlyTightens`, `LostReportSameDecision`,
  `RunReturns` (`verify`): an approval rests on tests of which one ran and
  all that ran passed, or on a workspace in which no command was found, or on a run
  with no requirement and no command that was allowed (section 7.2 on the last two); a model's findings
  never loosen the decision the evidence alone makes; a report that is lost and
  made again without the repositories decides the same without a model; a test
  run returns although children outlive their deadline.
- `ShownClaimsJudged`, `DowngradeDurable`, `GateReplays` (`record`): no handoff
  shown to the repair or review agent says of the tests what the tests known by
  then deny, unless it is shown as rejected; while no write was lost and no replay
  has judged anew, the table says of every handoff what the process says; a
  replay of a run nobody edited has the gate's decision again.
- `SelectionNewest`, `FootprintWhole`, `TraversalIsolated` (`graph`): a replan
  selects the suite recorded last among those of the same graph, as long as
  recovery came before the first recording; where the tables hold the row of a node
  of a recording that no other run writes, they hold rows of all its nodes, although
  a file's row may come from another recording, which may not be stored itself
  (section 7.2); a traversal from a node in the namespace of a repository enters no
  repository its links do not lead to, though it may see what is in no repository,
  the record of a run (section 7.1). From a node of the default namespace, which the
  node of a repository usually is, links are walked backwards as well (section 7.2),
  and all that holds is that the graphs it enters are the organization's and those
  some link leads to.
- `PlanIsExecutable`, `CycleIsReal`, `PlanningEnds`, `GraphExact`,
  `ImpactFindsCallers`, `FileGraphSound`, `ContextSound`, `RetiredStaysRetired`
  (`planning`): a plan that reaches a run has an order in which every step follows
  what it depends on; no plan is refused for a cycle it does not have; an
  up-to-date graph is that of the texts and has no dangling edge; whoever calls a
  definition of another file through its one import of that name is among what its
  change affects, when the resolver can tell: the import is absolute, spells the path
  of the file from the root, and the definition alone has that text and name (section
  7.2 on the others); the edges a
  parser makes in a file lead between its symbols, each symbol with one owner;
  a context leaves nothing retired in, fits its budget and names its origins; no
  concurrent session brings a retired memory back.

## 4. Bounds

| Run | Constants and why |
|---|---|
| `run_crash` | all three repository kinds, every stage may fail; one resume, one crash, one failing update. Two updates that fail one after the other need two faults and are not explored; a crash between any two awaits is |
| `run_actors` | three settings that exclude one another: one execution with a cancel request, a resume and a failing update on a row; two executions of a row, the second by `resume_run` (it stops short of the second test run, whose branches the first has); the shared object of memory. Failures in the stages that decide the branches after validation. Beside them one ordinary socket, one whose snapshot cannot be read, one for an unknown goal, and two updates, which suffice to tell old from new |
| `router` | two providers, two callers, threshold 2, two half-open calls, one retry, one resumption: late outcomes of each caller around each state of each breaker, an exhausted half-open budget and a spent resumption budget all occur |
| `goal` | two requests and two further calls: two loops of the same goal in one process, or in the server and a CLI command; two iterations, one repair, one replan, one restart, one database error; all three kinds of goals. An iteration shows failing tests, met criteria, or met criteria with approval; the other evidence only leads to decisions these already cause, and the proofs have all six |
| `judgement` | outcomes that reach every branch of the judgement, three iterations (the window of the stuck detector), one replan, one repair, two requests, one restart |
| `repair` | three paths (a source that can become a directory, one below it, a test), patches of up to three changes, three attempts, two passes without progress, one fault; three repositories with submissions that share and miss ids, one edit, one restart |
| `verify` | plans of up to two commands, children of every kind, output past the limit, one slip of the operating system; two requirements; evidence with at most one mark or one unresolved repair. Evidence without requirements is in the proofs only |
| `record` | one lost write or crash, two replays, one edit; handoffs up to eight |
| `graph` | five settings of up to three recordings (two of one file, one over two repositories), one acquisition, one lost write and one restart, which between them have every two of these together; traversals of depth three |
| `boundary_kept` | the run over two repositories alone, recorded twice, with two restarts; the properties of `graph` hold there too |
| `planning` | answers with up to four steps and every shape of dependency, two attempts each; two files, one of them a package whose module text is the other's, and one library, with a method of a function's name, an absolute, a relative and a whole import, two edits, one parser failure, two saves; one source per language and shape; ended runs and goals with two sessions and two retirements |

Counters that only serve a bound (`resumes`, `crashes`, `faults`, `calls`,
`restarts`, `slips`, ...) guard their actions and nothing else. `applies` and
`version` are bounded by them or by `MaxVersion`. Deadlock is checked where the
system cannot stop (`router`); runs, feeds, sessions and goals end.

## 5. Fairness

- *Runs*: `WF(Execute(e))`. The event loop resumes a task whose await returned,
  and services and stores return or raise. Nothing is assumed of cancel requests,
  resumes or crashes.
- *Router*: weak fairness of each caller's chat alone: an attempt is under
  `wait_for` (874) and a backoff is a sleep. A stream has no deadline in the router
  (1036-1043), and some clients' read timeouts restart with each token, so nothing
  is assumed of it, nor of cooldowns or of agents calling again.
- *Feed*: weak fairness of broadcasts, handlers and the closing of sockets: a
  send returns or raises, at the latest when the keepalive of the server gives
  the connection up. Clients are free.
- *Autonomy*: none for `goal`, whose properties are safety properties; weak
  fairness of the loop for `LoopSettles`.
- *Repair and planning*: weak fairness of the one task that works; its services
  return or raise.
- *Tests*: weak fairness of the call (the next step of its plan) and of the engine
  around a command (readers, deadline, kill). Children owe nothing: one that never
  writes or never ends is explored.

No strong fairness is assumed anywhere.

## 6. Proofs

Each module of proofs EXTENDS what it proves about, states the inductive
invariant as a conjunction of named parts, has one lemma per action, and ends in
the theorems. They hold for any sets of executions, requests, providers, callers,
sockets, paths, patches, commands, files, answers and plans and any bounds, under
the named assumptions of the modules, which TLC evaluates on every run:
`StoreAssumption` (the in-memory store is that of one process, which executes a
run once and loses it in a crash), `BoundAssumption`, `RouterAssumption`
(threshold and half-open budget at least one, as the settings enforce),
`FeedAssumption`, `GoalAssumption` (finitely many requests; limits of iterations
and runs at least one), `JudgementAssumption`, `SafePatchAssumption` (patches are
typed, and a patch that passed the reading checks has a text for each change that
writes one), `RepairAssumption`, `RepositoryPatchesAssumption` (submitted patches
have names of their own), `TestRunAssumption`, `ReviewAssumption`,
`CasesAssumption`, `LimitAssumption`, `GraphAssumption` (a repository is none of the
orchestrator's own graphs, and a manifest lists repositories and finitely many links),
`OccasionsAssumption` (what a caller passes for a context has a number of tokens).

| Theorem | States | Argument |
|---|---|---|
| `RunLifecycleProofs!TypeCorrect` | `TypeOK` | with `Placed`: each execution is at a place its code has |
| `RunLifecycleProofs!EvidenceHolds`, `Approval` | `Evidence`, `ApprovedIsEarned` | *Approval* below |
| `RunLifecycleProofs!Verdict` | `VerdictIsTheGates` | *Verdict* |
| `RunLifecycleProofs!Refinement` | `PromiseKept` | *Promise* |
| `RunLifecycleProofs!NothingRedone` | `NotRedone` | *Nothing twice* |
| `RunLifecycleProofs!PatchOnce` | `AppliedOnce` | *Nothing twice* |
| `ProviderRouterProofs!RouterTypes` | `TypeOK` | includes that no half-open circuit exceeds its budget |
| `ProviderRouterProofs!BreakersSound` | `BreakerSound` | *Breakers* |
| `RunLifecycleProofs!NoLeak` | `Handled` | with `Registry`: sockets are listed only by their handler |
| `AutonomyProofs!TypeCorrect` | `TypeOK` | `repairs` never exceeds its limit though two loops count |
| `AutonomyProofs!Completion`, `Cancellation`, `Iterations` | `CompletionShown`, `CancelStops`, `IterationsBounded` | below |
| `AutonomyProofs!Proved`, `EnvironmentAsked` | `CompletionProved`, `EnvironmentStops` | *Judgement* |
| `RepairProofs!PatchWhole`, `TestsSurvive` | `AllOrNothing`, `TestsKept` | *Patches*, *Repairs* |
| `RepairProofs!EditsSurvive`, `PatchesBelong` | `EditsKept`, `PatchesLand` | *Repositories* |
| `VerificationProofs!RecordsHonest`, `ApprovalEarned` | `TestInv`, `ApprovedOnEvidence` | *Tests and gate* |
| `VerificationProofs!Tightens`, `LostReport` | `ModelOnlyTightens`, `LostReportSameDecision` | *Tests and gate* |
| `RunRecordProofs!Types`, `ClaimsJudged` | `TypeOK`, `ShownClaimsJudged` | *Record* |
| `RunRecordProofs!Durable`, `GateAgain` | `DowngradeDurable`, `GateReplays` | *Record* |
| `KnowledgeGraphsProofs!Footprint`, `Newest`, `Isolated` | `FootprintWhole`, `SelectionNewest`, `TraversalIsolated` | *Graphs* |
| `PlanningProofs!PlanExecutable`, `CyclesReal` | `PlanIsExecutable`, `CycleIsReal` | *Cycles* |
| `PlanningProofs!IndexExact`, `CallersAffected` | `GraphExact`, `ImpactFindsCallers` | *Index and memory* |
| `PlanningProofs!FileGraphs` | `FileGraphSound` | *Parsers* |
| `PlanningProofs!Retired` | `RetiredStaysRetired` | *Index and memory* |
| `PlanningProofs!ContextsSound` | `ContextSound` | *Contexts* |

**Approval.** `ApprovedIsEarned` is not inductive: the step that stores the
verdict relies on what the execution's copy holds, and the copy was read from a
row other tasks write. `Evidence` says of every copy in anybody's hands what may
be relied on at its place: `Ready(p, r)` when stage `p` starts, `Done` once its
service returned, `Behind` once it is recorded, and that whoever writes a row
writes at most earned approvals (`OnlyEarned`). A load takes over whatever row it
finds; `Route` then sends the execution to the first stage whose output is
missing, which re-establishes `Ready`. Every action of an execution then has one
lemma that takes a backed copy to the next place.

**Verdict.** `Verdicts` says of the row, of every cancel request's copy and of
every execution's copy that a verdict in it is sealed by the gate (`Sealed`,
`Held`); a copy on its way carries no verdict, and the row is written only from
copies, whole.

**Promise.** The step simulation needs that the row the abstract step starts
from is close to the copy that overwrites it. With an execution that is alone
(`Alone`: one execution, no cancel request — with two, or with a cancel request,
the row may go back, so the hypothesis is needed), `OneMoveAhead` ties copy and
row at each place of the code: the copy is the row, or one move of the map ahead,
or one verdict, or one failure (`Tied`). Each action keeps the tie and changes the
row by a move, a verdict, a failure or not at all (`MayBecome`), which are the
steps of `RunPromise`; that those and the stage map agree is `PromiseStep`.

**Nothing twice.** `NothingMore` strengthens `NotRedone`: the row never holds an
output that the copy of an execution at work lacks, so that a stage which begins
or works for want of its output in the copy finds none in the row either; a cancel
request holds no more than the row. `NotAgain` strengthens `AppliedOnce`: once the
patch was written, the stages of the row and of every copy are from the
application on, and no execution is between validation and application (`Spent`).
`NoWayBack` shows that no legal move of the map leads from there to a validation,
so that a resumed run fails instead of applying again.

**Breakers.** `Inv` is `TypeOK`, that counters and state of every circuit agree
(`Sound`), that a call in progress has a provider, and that a half-open circuit has
lost a probe or has a call to decide it (`Decided`). `Admitted`, `Failed` and
`Closed` each preserve soundness from any state, which is why late outcomes do no
harm. A call that goes on to another provider has recorded its outcome or marked the
provider in `lost`, so the half-open circuits are then decided without it
(`Awaited`).

**Completion.** A goal is completed from its progress flag and its newest
evidence, which travel through rows, copies and requests. `CompletionInv` says
of all of them that whatever they claim was shown (`Earned`, `Carried`).

**Cancellation.** `CancelInv`: a request with a late iteration has exactly one,
runs in the server, the server's flag is set, and the request is not between a
decision and its iteration; hence the next `LoopHead` it reaches ends the loop.

**Iterations.** `SpendingInv`: the iterations of the shared object plus the
loops that have passed the check and not yet counted theirs are at most
`MaxIterations - 1` plus the number of requests. It needs the cardinality of
that set of loops, which each pass of `LoopHead` may enlarge by one only below the
limit.

**Judgement.** `JudgeInv`: `Remembers` says that the newest evidence in the
history is the one the progress was taken from, in memory and in what a restart
would rebuild from the rows (`PlacedRows`, `LoadedShort`); `EnvironmentSeen` reads
the last three from it.

**Patches.** While a patch is under way (`Underway`), the engine remembers every
path the patch names as it was (`Remembers`), the others are as they were or were
made directories (`OthersKept`), and each path named so far holds what the last of
its changes says (`MadeUpTo`). A complete patch is then `Intended`; a rollback
gives back `before`, since what is restored and what cannot be are apart. That a
path has a last change, and that `LastChange` chooses it, needs the greatest of a
bounded set, from well-foundedness.

**Repairs.** The loop hands the engine only patches the policy allowed
(`EngineLent`); an allowed patch leaves a test file alone or replaces it by a text
that keeps its tests, and undoing restores what was there (`TestKept`). The
invariant has to speak of the engine's snapshot as well, because a rollback writes
to test files too.

**Repositories.** `RepoInv`: submitted patches are named apart (`Named`), what is
stored is what is applied (`Settled`), and what a call of the engine has read still
stands unless an edit has come since (`Seen`), so that a patch lands on what its hash
was taken from. `LandInv` follows results and patches by their
positions: the results so far belong to the patches of the same position
(`ResultsBelong`), hence finding one by its repository finds the right one —
exactly when repositories are told apart (`ToldApart`), the case the property is
about.

**Tests and gate.** `TestInv`: exit code and signal agree with the child
(`Watched`), the call is at the step of its next outcome (`InStep`), and a step
recorded as passed ended by itself with code 0 (`HonestRecord`). `ReviewInv`: the
report rests on the evidence (`Rests`; without a model it has nothing else,
`Agentless`), and a decision is the gate's on it. Tightening is monotonicity:
`Rejects` and `NeedsHuman` grow with the findings and coverage. `ApprovalEarned`
assumes `RequireHuman`, which is the default of `QualityGate()` and what every
caller uses.

**Record.** `Sound` adds to the three properties what they need of the places of
`execute_run`. `Listed`: from the second handoff on the process has a list of its
own, so that what it judges and shows is that list and never the table. `InLine`:
from a judgement to the next tests every handoff of the list that is not rejected
fits the tests (`Fits`); a handoff appended in between says only what the tests
were (`Known`). `Named`: a process makes each handoff once, so that the row a
judgement rewrites is found by its name; without it a duplicate would take the
verdict of another. `Gated`: a recorded decision is the gate's on the record that
is stored beside it, and a decided run is never taken up again.

**Graphs.** A recording has a number of its own. `FootprintInv`: two recordings under
way have different ones, and the rows they are to store carry theirs (`TasksSound`);
what a recording left so far stands only in its graph and in those of the
repositories it patches, and of a repository it has all rows in the table or none
(`LeftSound`); a recording that is done is whole in the tables or absent, as seen from
every graph (`Footprints`). `LeftSound` is what makes it inductive: a commit stores the rows
of one graph while rows of the same number for another repository may already be
there. All of it is about nodes no other run writes (`Private`); what a transaction
reads of the others instead of the rows it began with is a shared node of its own list
with a row some recording wrote (`ReadingSound`), which leaves the ids and the private
rows as they were (`RowsReadAre`). `NewestInv` adds an order (`InOrder`), as long as no version row was
lost: of two suites that went through one graph the later has the greater stamp,
wherever they stand, in a graph, in a table or on the way; a graph is `Ahead` of all
stamps it gave, loaded again included, because every stored suite is `Covered` by a
version that is stored or about to be. Ties of stamps between the two graphs are
broken by times of creation, which are bounded (`Born`), so that there is a newest.
`ApartInv` keeps repositories apart: in the graph of a repository every node is named
after it and every edge leads to such a node or to one of no repository (`Own`), and
what is stored or about to be stored under a name is named so (`Named`, `RowsNamed`,
`EdgesNamed`). It needs `NewestInv` for the one place where the code picks a node
whatever its namespace: which node of a run is the first is decided by the times of
creation. From there a traversal is followed step by step: `Reached` is a function
on the steps of one bounded walk, which exists (`WalkExists`) and at no step leaves
the least set of repositories closed under links, by the least step that would
(`WalkInside`); no induction theorem of the library is needed.

**Cycles.** The search invariant of `PlanningProofs`: grey steps are the stack and
each depends on the next; black steps depend on black ones only and were finished
after them. A cycle is found on a grey step, so the stack closes it; a search that
ends has an order of finishing in which every step follows its dependencies. That
order is the witness of `Executable`.

**Index and memory.** `IndexInv`: the graph is linked (`WellLinked`: both maps hold
the same edges, none from a symbol that is gone), the symbols and relations of a
file are those of the text whose hash is kept, doubtful files aside (`Believed`), a
file without a hash has none (`UnknownIsEmpty`), and a graph on its way back from
the rows has no edge without its source (`LoadedWhole`). Forgetting a file and
adding what a parser found keep every other file as it was (`Forgotten`,
`ParsedWhole`); this needs that a call found in a text is from a definition found
there (`SemanticIndexAssumption`), as the parser reads calls from the bodies of
definitions. For `CallersAffected` the same invariant gives the three edges of an
index built afresh: the call of the caller, the reference of its import and the step of the
traversal. The reference is there because a symbol that alone has its text and name is
in every table the resolver may build, and no other symbol is found there
(`ImportRefers`); for that the names of files must be told apart
(`SemanticIndexAssumption`); the levels of the traversal are a function on `0 .. depth + 1`, which
exists (`LevelsExist`) and of which the first two are enough at every depth. Two
imports of one name in one text are excepted: the call goes to one of them
(`python_parser.py:450-463`, the symbol recorded last) and not to the other. A
retired memory needs no invariant: what a commit of a session
writes is the row of that moment, used or stale (`CommitRetires`).

**Parsers.** `FileGraphs` is about every source: any declarations, in any order,
nested in any way. What a grammar's handlers may do is stated once per rule (`Sane`:
what makes no symbol makes no edge) and checked for the tables of all eleven
languages (`Grammars`); Go and Rust have a stricter form (`LinkedGrammar`: types
stand in the file only, a method takes its type's name from its node or from the
block around it). The walk is a function on the declarations, each met at an earlier
place, so it exists (`WalkExists`, by the least declaration without one), and every
place it hands down is recorded (`PlacesRecorded`). An edge's ends are then such
places or ids; a link of a method needs that a name known to the file is one whose
declaration was met at the root (`TypeRecorded`), and the other way round
(`TypeFound`). That names are not missing is checked by the handlers (`Handles`),
not assumed.

**Contexts.** `ContextSound` is about what ranking, merging and budgeting leave of any
list of items (`ChosenSound`). The sort is a permutation: the places it gives, one more
than the number of items that come before, differ, and there are as many places as
items (`PlacesFill`). Merging keeps, of the items so far, each text once with all its
origins and a score none exceeds (`Deduped`), and the budget takes only what still fits
(`Budgeted`); both hold after every item, by the least position after which they would
not. `ContextInv` then follows a context through the sessions: its items are entries
(`Entries`), none of a memory out of use when it was begun and not written anew; such a
memory is not live in the table either, so that a query, which reads live rows, brings
none (`Queries`); at most one session reads for the context.

**Found by proving.** Several definitions were first too weak to be proved and
were corrected against the code: in `QualityReview`, that the coverage of the
report is made from the requirements the run has and that a run without text has
none (`HasText`); in `SyntaxParsers`, that each language collects types of its own;
in `SafePatch` and `RepositoryPatches`, which fields of a
patch are given. One corner is a divergence: a run whose requirements are an
empty list is approved without a test (section 7.2).

**Only model-checked.** Liveness (`ExecutionReturns`, `RunEnds`, `CallEnds`,
`LoopSettles`, `RepairEnds`, `RunReturns`, `PlanningEnds`, `NothingMissed`) is
beyond the prover. Every other property the passing runs check is proved.

## 7. Where code and documents differ

### 7.1 Shown by a run

- **A cancellation is forgotten** (`claim_cancel_kept`). `PostgresRunStore.update`
  writes the `cancellation_requested` of the execution's copy, read before the
  request; the next update of the run clears the flag.
  `docs/ORCHESTRATION.md:343` says the request sets it, and
  `docs/PERSISTENCE.md:88-97` that a concurrent modification raises
  `ConcurrentRunUpdateError`; the version is read inside `update`, not carried
  from `get`, so only overlapping updates are noticed.
- **A repository is tied to what is in none** (`boundary_kept`). A run patches the
  repository `B`; the rows of its own nodes are lost at their commit, those of its
  nodes for `B` are stored. A new process recovers, and the organization's graph,
  which reads every namespace, holds `B`'s node of the patch only. When the run is
  recorded again, `_find_run_node` (`engineering_graph_service.py:1464`) takes the
  first node of the run whatever its namespace, so `validated_by` and `approved_by`
  lead from `B`'s patch to the suite and the gate of the default namespace and are
  stored under `B`. After the next recovery a traversal of `B` reaches them, against
  "Only explicit cross-repo edges allow the boundary to be crossed — private context
  stays isolated" (`organization_graph_service.py:822-823`,
  `docs/GRAPH_VISUALIZATION.md:282-283`). It takes a lost write and two restarts
  between two recordings of one run. `TraversalIsolated` is what holds in spite of
  it: no *other* repository is entered without a link.

### 7.2 Seen while modelling, without a run of their own

The models contain each of these paths unless stated otherwise.

Runs:
- A patch that `SafePatchEngine` rejected or rolled back is recorded as applied,
  and tests and review go on over an unchanged workspace
  (`OS:1690` tests for a status the engine never returns;
  `docs/ORCHESTRATION.md:373`). This is why `Earned` says "handed to the patch
  engine".
- `execute_run` enters validation whatever `current_stage` is; from the
  application on, that move is not on the stage map and a resumed run fails.
  `docs/PERSISTENCE.md` (Safe Resume) and `OS:2509-2511` say execution continues
  from `current_stage`. The patch is not applied twice because of it.
- `_check_cancelled` is never called, so a cancelled run goes on
  (`docs/ORCHESTRATION.md:343-344`), and a cancel request that read the run
  before it ended may rewind the row (`docs/ORCHESTRATION.md:345`).
- The except blocks from validation on do not set `run.failure`
  (`docs/ORCHESTRATION.md:383-384`).
- `RUN_FAILED` and `RUN_COMPLETED` are appended after the last update and reach
  no stored run (`OS:2082`, `docs/PERSISTENCE.md:101-110`,
  `docs/ORCHESTRATION.md:386`).

Patches:
- An auxiliary patch that is rejected fails the stage, but those applied before it
  stay. Of two inputs with one `repository_id` the first patch is used for both
  (`OS:1703`; `models/orchestration.py:254-256` "validated and applied against
  their own checkout only"), hence `ToldApart`.
- The hash of a change is taken at validation, not when the agent saw the file, so
  an edit between coding and validation is overwritten.
- `SafePatchEngine.apply` checks and writes in steps of its own
  (`safe_patch_engine.py:186`, 203, 283-293, 332-360), and another program that writes
  to the file meanwhile loses its edit: a `CREATE` replaces a file that appeared after
  the validation, since `_apply_create` looks at nothing; a `MODIFY` or `DELETE` one
  that changed after its hash was compared; and a rollback writes the snapshot over
  whatever changed since it was taken, also over the very edit whose hash mismatch
  caused it. `EditsKept` is about every edit outside these gaps (`late` in
  `RepositoryPatches`).
- `PostgresRunStore` does not restore `repositories` and `repo_patches` of the
  source (`postgres_run_store.py:265`; `docs/ARCHITECTURE.md:599-601` says they
  round-trip): after a restart the submitted patches vanish.
- `CREATE` on the path of a directory reports `APPLIED` and leaves a temporary file
  inside; `DELETE d` then `CREATE d/x` and a failure lose `d` in a rollback that
  reports it (`Unrestorable`).

Repair:
- `RepairService` as shipped applies no repair: the call at
  `repair_service.py:323` passes an argument its callee does not take, and
  `TestAgentInput` at line 517 is not imported; both become rejected attempts. The
  model has both kinds of collaborators (`Services`).
- The best state is reported but not restored
  (`docs/FIX_AGENT_ARCHITECTURE.md:477-480`), the loop goes on after a worsening
  that was undone, and `MAX_ATTEMPTS` is not set when the last pass `continue`s.

Tests, review and gate:
- A missing executable raises `AttributeError` out of `run_tests`:
  `generic_parser.py:62` names a status that does not exist
  (`docs/TESTING_AND_EXECUTION.md:77`). A flood of output stops the reader, the
  child blocks and the command times out (117); only the process itself is killed,
  not its children (116, 223).
- A run with an empty list of requirements whose commands were all refused is
  approved without a test (`reviewer.py:132`, `review_context_builder.py:124-159`).
  `ApprovedOnEvidence` says so.
- A workspace in which no command is found has an empty plan, and `run_tests` starts
  from `PASSED` and folds nothing into it (`testing_service.py:350`, 418-426). The
  review finds verification executed and passed, and the run can be approved although
  no test exists, against DET-001 "Final verification executed" and the hard blocker
  "missing verification" (`docs/REVIEW_AND_QUALITY_GATE.md:136`, 166).
  `ApprovedOnEvidence` names the case (`NothingPlanned`). The testing workflow, unlike
  the pipeline's stage, refuses such a workspace.
- A blocking finding of medium severity made by the model leaves the run approved
  (`docs/REVIEW_AND_QUALITY_GATE.md:121,176`); the validator of the shared
  `ReviewService` keeps files of earlier reviews and drops findings about files
  only a repair changed; `INCOMPLETE` never reaches the gate's stage.

Handoffs and replay:
- A testing handoff becomes `REJECTED` after a repair that succeeded; the
  orchestrator never calls `recover()`, so after a restart the first new handoff
  hides the stored ones (`docs/MULTI_AGENT_COLLABORATION.md:216-218`).
- A replay re-judges handoffs and stores contradictions again
  (`docs/COLLABORATIVE_REASONING.md:100`); a failed run's manifest is captured
  while the run is still `RUNNING`, so its replay always drifts; the consensus
  confidence recorded at the gate is not the recomputed one; a repaired run records
  `TESTING, REPAIRING, TESTING` and fails the pipeline check. The first replay
  changes what the second one hashes (`models/replay.py:268`).

Graphs:
- The application never calls `recover()`, so version stamps restart at 1 and
  older suites can win; version numbers of instances collide although
  `increment_version` calls them a global monotonic counter.
- When two recordings first store the same file, the second's nodes are lost while
  its edges and version are stored; after a recovery run→checkout edges dangle.
- `_persist_ingested_nodes` looks every node up in the live graph between its awaited
  statements (`engineering_graph_service.py:1273`), and `add_node` replaces a file that
  two runs patch (250-291). One commit may so store that file with the version of a
  recording none of whose other nodes is stored, even one that is then rolled back.
- `register_repository` gives the node of a repository the default namespace
  (`organization_graph_service.py:312-322`). A traversal that starts there walks the
  organization's graph, whose edges it follows both ways (844-854), so from the node of
  `B` it comes to that of `A` when `A` is linked to `B`, on to the nodes of what `A`
  is linked to (856-874) and, where that graph was read back from the tables, to `A`'s
  own run and patch, without a link that starts at `B`, against "Only explicit
  cross-repo edges allow the boundary to be crossed" (822). Links are followed one
  after the other as far as the depth goes; `test_organization_graph.py:229-230` says
  that `repo-c` is not reachable from `repo-a` although `a` is linked to `b` and `b` to
  `c`, which is so there because the graphs of that test have no node of their
  repository to go on from. Seeded ones have, and cross.
- After a crash between storing a namespace's nodes and `synchronize`, a recovered
  traversal falls back to the organization's graph and crosses repositories without
  a link (`organization_graph_service.py:820-822`); `TraversalIsolated` is about
  registered repositories.
- Duplicate edges after a restart (`docs/ENGINEERING_KNOWLEDGE_GRAPH.md:253`) and a
  stale semantic index after re-ingestion (187).
- With `acquisition_service=None` every auxiliary GitHub repository fails a run.

Planning:
- `PlanningWorkflow` completes with an invalid plan, as it only looks at
  `result.error`; two attempts against `docs/PLANNING.md:188` "generated once"; ids
  given to duplicates may collide again.

Index:
- `traverse_*` reach one level more than asked (`docs/CODE_INTELLIGENCE.md:141`);
  the incremental update keeps no references from unchanged files to a parsed one
  unless they are resolved by name; a text that changes between detection and
  reading and then back is called unchanged (`MaxParsed` and the guard of
  `GraphExact` name the cases); unsupported files are found `ADDED` for ever; the
  graph is loaded in three statements and may be torn.
- A full index names a file of the root `./util.py` (`code_intelligence_service.py:295-311`:
  `os.path.join(".", ...)`), the incremental indexer `util.py`
  (`incremental_indexer.py:114-116`). The module text of the former is `..util`
  (`symbol_resolver.py:101-108`), which no import spells: files of the root are never
  the target of a reference. An incremental indexer seeded with such a graph keeps the
  symbols under the first name for ever; no caller in the application seeds one.
- `CrossFileSymbolResolver` keeps the last symbol for each module text and short name,
  methods too (76-78), so `from util import stop` may refer to `Job.stop`; it drops the
  level of a relative import (129), so `from .util import f` refers to a `util` at the
  root or to none; and it compares dotted paths from the root of the repository, so an
  import whose root is another directory (`src/`) stays unresolved. The impact of a
  change then misses the caller. `ImpactFindsCallers` is about the imports left.
- A Go method with a generic receiver has no name of its type
  (`go_parser.py:201-214`): its id has one part and no `member_of` leads from it.
- Ids of nested types lack the outer name in Java and C#; C# dotted namespaces are
  skipped with all they hold; methods of a Rust `impl` away from the root have no
  edge.
- `CodeChunker._sub_chunk_large_symbol` (`services/code_chunker.py:221-288`) never
  ends for a symbol of more than 300 lines: at the last window `pos` becomes
  `end - overlap + 1`, which is below `end_line` again. Not in a model.

Context and memory:
- Nothing gives a patch result `changed_symbols`
  (`collaboration_service.py:755-758`), so memories of approved changes name no
  symbol and are neither found nor retired by one (`docs/CONTEXT_AND_MEMORY.md` §4).
- Guaranteed shares do not ensure that notes survive (line 40): eight full notes
  are one item above the category's cap. A read bumps `updated_at`, a sort key;
  `update_memory` loses increments.

Router:
- Retries do not ask the breaker again (`docs/MULTI_PROVIDER_ROUTING.md:144`), a
  late success closes an `OPEN` circuit at once (138-141), and a `PERMANENT`
  failure goes on to the next candidate (119).
- A stream that ends, or is closed by its consumer, before its first token records
  no outcome; its share of the half-open budget is not given back and no timeout
  leaves `HALF_OPEN` (145-147: "recovery is automatic"). A stream that stalls keeps
  its probe and its caller for ever.
- `chat_stream` ends without an error when the breakers deny the remaining
  candidates (`router.py:1027`), and its budget bounds only failures after a first
  token (1053).

Live feed:
- The snapshot is read after subscribing and sent whatever was broadcast meanwhile
  (`ws.py:189-194`), so an idle subscriber may be left with an old state.
- The except block for an unknown autonomous goal sends outside of any try
  (`ws.py:346`); if that raises, the socket stays listed.
- The socket routes have an `OrchestrationWorkflow` of their own; with
  `InMemoryRunStore` they find no run (`ws.py:56`).
- `broadcast_run_list` and `broadcast_system_status` have no caller;
  `broadcast_event` and `broadcast_autonomy` do not remove a socket whose send
  raises (not in the model).

Autonomy:
- The criteria may be met by one iteration and the approval given to another:
  by two loops of one goal, or after a restart that reloads progress and evidence
  of different age.
- `_escalate` is awaited before the state becomes `WAITING_FOR_HUMAN`, so a goal
  cancelled meanwhile waits again (`docs/AUTONOMOUS_EXECUTION.md:218`); only the
  flag stops its loop.
- `resume` of a running goal starts a second loop on the same object (232-236).
- `_persist_goal` writes the version without comparing it, so a row's version may
  go back; after one swallowed error the version in memory is ahead of the row, and
  every later checkpoint fails its comparison and is given up silently.
- The budget is stored by `_persist_goal` only (226): a restart forgets
  iterations. `exhausted()` returns the first limit reached, and the loop ignores
  the answer when it is the replans' or the repairs' (125). `Spent` has this.
- `cancel` takes goals that ended (298); a pause from the CLI sets a flag in a
  process that ends; a pause of a goal that waits stays set for a later loop.
- Every checkpoint repeats the newest evidence and rows are ordered by an iteration
  number that restarts with the process, so a reloaded history repeats evidence and
  `LOOPING` needs fewer than three iterations; a gate that rejects tested work leads
  to `REVIEW`, never to `REPLAN` (174); an answer to a stuck goal only escalates it
  again (208-209); stored plan versions have no steps, so no plan comes back.

Workspaces (not in a model): failing paths of `coding_service.generate` and a
cancelled `acquire` leak their copies; `cleanup_stale_workspaces` has no caller and
its pattern misses two of the three places copies are made in.

## 8. What is not modelled

Besides the components of section 1.2: the attributes `_patch_validator` and
`_patch_engine` that runs of one process share; run listing and statistics; active
probes and health figures of the router beyond the order they cause; the other
socket channels, which run the same code; decisions and events of the autonomy loop,
which decide nothing; COMPARE replays, audits and listings, which only read; node
histories, version differences, statistics and the query planner of the graphs; the
TypeScript parser and the answers of the query API; texts, scores and reason codes
of a review; the counts a test parser extracts.

Simplifications a reader should know of: `_persist_goal` is one step although its
select and its commit are two database calls; a goal created by a CLI command is
the case of a creating process that gets no further requests; `recover` of the
autonomy service is only called by the CLI's status command and changes nothing.

## 9. Plan

The most important behaviour came first: what may be approved, what is done twice,
what is lost; then what an approval rests on (patch, repair, tests, gate), then what
a run is given and leaves behind. What is left, in order:

1. *Chunking*, whose endless loop (section 7.2) deserves a run.
2. *Workspaces*: acquisition and clean-up with failures and cancellation.
3. *Shared attributes* of `OrchestrationService` between two runs of one process.

## 10. Running it

```
tlc -workers 2 -config RunCrash.cfg RunLifecycle
tlc -workers 2 -config Goal.cfg MCAutonomousGoal
tlapm RunLifecycleProofs.tla
```

The module of each configuration is in `PROJECT.json`. The proofs take some
minutes from nothing; the longest are those of `RunLifecycleProofs`,
`AutonomyProofs` and `KnowledgeGraphsProofs`.
