------------------------------ MODULE RunRecord ------------------------------
(***************************************************************************)
(* What a run leaves behind, and what a replay makes of it: the handoffs   *)
(* execute_run creates and judges between its stages, the reasoning and    *)
(* the replay manifest _finalize stores (orchestration_service.py), and    *)
(* the EXACT and DETERMINISTIC replays of ReplayService                    *)
(* (app/services/replay_service.py).                                       *)
(*                                                                         *)
(* The database is on.  A replay makes its collaboration service and its   *)
(* reasoning engine anew, so it reads the tables; the executing process    *)
(* reads its own lists when it has any.  Every write of a record is best   *)
(* effort and may be lost.  RunLifecycle models the stages of a run and    *)
(* its crashes in full; here a stage is the part of it that the record     *)
(* keeps.  COMPARE replays only read two manifests and are left out.       *)
(***************************************************************************)
EXTENDS RunReasoning, Bags

CONSTANTS
  MaxMishaps,   \* lost database writes and crashes of the process
  MaxReplays,   \* replays of the run
  MaxTampers,   \* edits of the stored run by somebody else
  Limit         \* MAX_HANDOFFS_SELECTED

VARIABLES
  run,           \* the run record
  at,            \* where execute_run is
  mirror,        \* CollaborationService._handoffs of the executing process
  rows,          \* table agent_handoffs
  held,          \* the engine's own contradictions and consensus
  contradictions,\* table contradiction_records
  consensus,     \* table evidence_consensus
  memories,      \* repository memory
  shown,         \* the last context built for the repair or review agent
  manifest,      \* the newest row of table replay_manifests
  cached,        \* ReplayService._manifests of the API process
  replay,        \* the last replay
  touched,       \* the stored run was edited after the capture
  faults, restarts, replays, tampers

vars == <<run, at, mirror, rows, held, contradictions, consensus, memories,
          shown, manifest, cached, replay, touched, faults, restarts,
          replays, tampers>>

ASSUME RecordAssumption ==
  {MaxMishaps, MaxReplays, MaxTampers, Limit} \subseteq Nat

Linear == <<"planning", "coding", "validating_patch", "applying_patch",
            "testing", "repairing", "reviewing", "quality_gate">>
Points == {"planning", "tell_plan", "coding", "tell_code", "patching",
           "testing", "judge", "repairing", "tell_repair", "retesting",
           "rejudge", "reviewing", "tell_review", "quality_gate", "finalize",
           "capture", "seal", "done", "down", "tell_passed", "tell_retested",
           "ask_repair", "tell_failing"}

(* What the record keeps of a run, and a row of each table.                *)
TestOutcome == {"none", "passed", "failed"}
GateDecision == {"approved", "rejected", "needs_human_review"}
Run ==
  [ status : {"running", "failed"} \union GateDecision, plan : BOOLEAN,
    patch : {"none", "sound", "malformed"}, applied : {"none", "applied", "rejected"},
    tests : TestOutcome, failures : BOOLEAN,
    repair : {"none", "fixed", "stuck", "idle", "unsafe"},
    report : {"none", "clean", "blocking", "unsure"},
    gate : {"none"} \union GateDecision, stages : Seq(ToSet(Linear)), edits : Nat ]
HandoffRow == AgentHandoff
ContradictionRow ==
  {"claim_vs_test", "claim_vs_gate"} \X {Handoffs[id].from : id \in HandoffIds}
ConsensusRow(c) ==
  c.topic \in {"test_status", "patch_complete", "quality_gate"}
MemoryRow == {"successful_change"} \union HandoffIds

NewRun ==
  [ status |-> "running", plan |-> FALSE, patch |-> "none", applied |-> "none",
    tests |-> "none", failures |-> FALSE, repair |-> "none",
    report |-> "none", gate |-> "none", stages |-> <<>>, edits |-> 0 ]

(* What content_hash covers of the run and of the tables.                  *)
ManifestOf(r, hs, cons, contra) ==
  [ run |-> r,
    handoffs |-> [i \in DOMAIN hs |-> [id |-> hs[i].id, status |-> hs[i].status,
                    validation |-> <<hs[i].symbol, hs[i].claim, hs[i].conflict>>]],
    consensus |-> cons, contradictions |-> contra ]
NoManifest == <<>>
ManifestRow(m) ==
  m = NoManifest \/ (Len(m) = 1 /\ m[1].run \in Run)
NoContext == [tests |-> "none", handoffs |-> {}]
NoReplay == [touched |-> FALSE, fidelity |-> "none", gate |-> "none", verdict |-> "none"]

CheckStatus == {"passed", "failed", "skipped", "not_replayable"}
ReplayRow ==
  [ touched : BOOLEAN, fidelity : {"none"} \union CheckStatus,
    gate : {"none"} \union CheckStatus,
    verdict : {"none", "match", "drift", "incomplete"} ]

(* What the engine of a process holds of contradictions and consensus.     *)
Engine(e) ==
  /\ e.contradictions \subseteq ContradictionRow
  /\ \A c \in e.consensus : ConsensusRow(c)

TypeOK ==
  /\ run \in Run /\ at \in Points
  /\ mirror \in Seq(AgentHandoff) /\ rows \in Seq(HandoffRow)
  /\ Engine(held)
  /\ DOMAIN contradictions \subseteq ContradictionRow
  /\ \A c \in DOMAIN consensus : ConsensusRow(c)
  /\ memories \subseteq MemoryRow
  /\ shown \in [tests : TestOutcome, handoffs : SUBSET AgentHandoff]
  /\ \A m \in {manifest, cached} : ManifestRow(m)
  /\ replay \in ReplayRow /\ touched \in BOOLEAN
  /\ {faults, restarts, replays, tampers} \subseteq Nat

Init ==
  /\ run = NewRun /\ at = "planning" /\ touched = FALSE
  /\ mirror = <<>> /\ rows = <<>> /\ memories = {}
  /\ held = [contradictions |-> {}, consensus |-> {}]
  /\ contradictions = EmptyBag /\ consensus = EmptyBag
  /\ shown = NoContext /\ manifest = NoManifest /\ cached = NoManifest
  /\ replay = NoReplay
  /\ faults = 0 /\ restarts = 0 /\ replays = 0 /\ tampers = 0

records == <<mirror, rows, held, contradictions, consensus, memories>>
audit == <<manifest, cached, replay, touched, replays, tampers>>

(* n writes are lost in this step.                                         *)
Lose(n) ==
  /\ n > 0 => faults + restarts + n <= MaxMishaps
  /\ faults' = faults + n
Goto(p) == at' = p
Staged(r, s) == [r EXCEPT !.stages = Append(@, s)]
-----------------------------------------------------------------------------
(* execute_run: a stage, and the handoff after it.                         *)

(* _create_handoff, unless the process ends before it.                     *)
Tell(id, words, symbols, next) ==
  /\ \/ \E lost \in BOOLEAN :
          LET h == NewHandoff(id, words, symbols)
          IN /\ Lose(IF lost THEN 1 ELSE 0)
             /\ mirror' = Append(mirror, h)
             /\ rows' = Inserted(rows, h, lost)
             /\ Goto(next) /\ UNCHANGED restarts
     \/ /\ faults + restarts < MaxMishaps /\ restarts' = restarts + 1
        /\ Goto("down") /\ mirror' = <<>>
        /\ UNCHANGED <<rows, faults>>
  /\ UNCHANGED <<run, held, contradictions, consensus, memories, shown, audit>>

(* A stage that does not succeed ends the run: its outcome is recorded and *)
(* _finalize follows, with the status still running.                       *)
Stage(s, r, next) ==
  /\ \/ run' = Staged(r, s) /\ Goto(next)
     \/ run' = Staged(run, s) /\ Goto("finalize")
  /\ UNCHANGED <<records, shown, audit, faults, restarts>>

Planning == at = "planning" /\ Stage("planning", [run EXCEPT !.plan = TRUE], "tell_plan")

(* The plan's own words are part of the handoff; its steps name no symbols.*)
TellPlan ==
  /\ at = "tell_plan"
  /\ \E words \in {{"ready"}, {"ready", "pass"}} : Tell("plan", words, "none", "coding")

Coding ==
  /\ at = "coding"
  /\ \E p \in {"sound", "malformed"} : Stage("coding", [run EXCEPT !.patch = p], "tell_code")

TellCode == at = "tell_code" /\ Tell("code", {"done"}, "patch", "patching")

(* Validation and application: a malformed patch is refused, a sound one   *)
(* may be; application records a rejected patch and goes on.               *)
Patching ==
  /\ at = "patching"
  /\ \/ /\ run' = Staged(run, "validating_patch") /\ Goto("finalize")
     \/ /\ run.patch = "sound"
        /\ \E a \in {"applied", "rejected"} :
             run' = Staged(Staged([run EXCEPT !.applied = a], "validating_patch"), "applying_patch")
        /\ Goto("testing")
  /\ UNCHANGED <<records, shown, audit, faults, restarts>>

(* _stage_testing: passed, failed with or without parsed failures, or no   *)
(* result that counts; failed stands for every status but passed. An       *)
(* environment that is not ready ends the run with its result kept.        *)
RunTests(next) ==
  \/ \E t \in {<<"passed", FALSE>>, <<"failed", TRUE>>, <<"failed", FALSE>>} :
       Stage("testing", [run EXCEPT !.tests = t[1], !.failures = t[2]], next)
  \/ Stage("testing", [run EXCEPT !.tests = "failed", !.failures = FALSE], "finalize")

Testing == at = "testing" /\ RunTests("judge")
Retesting == at = "retesting" /\ RunTests("rejudge")

(* Each judged handoff is written after its validation and, with a         *)
(* conflict, once more; lost are the writes that do not arrive.            *)
(* Mutant: the downgrade of a conflict is not written.                     *)
WrittenOnce(h, old, lost) ==
  IF <<h.id, 1>> \in lost THEN old ELSE ValidateHandoff(h, run.patch # "none", run.tests)

Written(h, old, lost) ==
  LET validated == ValidateHandoff(h, run.patch # "none", run.tests)
      judged == Judged(h, run.patch # "none", run.tests)
  IN IF judged.conflict /\ <<h.id, 2>> \notin lost THEN judged
     ELSE IF <<h.id, 1>> \notin lost THEN validated
     ELSE old

(* _detect_handoff_conflicts over what list_handoffs shows: the list of    *)
(* the process is judged in place, rows read from the table only there.    *)
JudgedMirror == [i \in DOMAIN mirror |-> Judged(mirror[i], run.patch # "none", run.tests)]
JudgedRows(lost) ==
  LET list == ListHandoffs(mirror, rows)
  IN [i \in DOMAIN rows |->
        LET mine == {j \in DOMAIN list : list[j].id = rows[i].id}
        IN IF mine = {} THEN rows[i]
           ELSE Written(list[CHOOSE j \in mine : TRUE], rows[i], lost)]

JudgementWrites ==
  {<<h.id, n>> : h \in {x \in ToSet(ListHandoffs(mirror, rows)) :
                         Judged(x, run.patch # "none", run.tests) # x},
                n \in {1, 2}}
LostWrites == {{}} \union {{w} : w \in JudgementWrites}

(* Mutant: after the retest nothing is judged again.                       *)
JudgeFirst(next) ==
  /\ \E lost \in LostWrites :
       /\ Lose(Cardinality(lost))
       /\ IF at = "rejudge" THEN UNCHANGED <<mirror, rows>>
          ELSE mirror' = JudgedMirror /\ rows' = JudgedRows(lost)
  /\ Goto(next)
  /\ UNCHANGED <<run, held, contradictions, consensus, memories, shown, audit, restarts>>

Judge(next) ==
  /\ \E lost \in LostWrites :
       /\ Lose(Cardinality(lost))
       /\ mirror' = JudgedMirror /\ rows' = JudgedRows(lost)
  /\ Goto(next)
  /\ UNCHANGED <<run, held, contradictions, consensus, memories, shown, audit, restarts>>

JudgeTests ==
  at = "judge" /\ Judge(IF run.tests = "passed" THEN "tell_passed" ELSE "ask_repair")
JudgeRetest ==
  at = "rejudge" /\ Judge(IF run.tests = "passed" THEN "tell_retested" ELSE "reviewing")

TellPassed == at = "tell_passed" /\ Tell("passed", {"pass"}, "none", "reviewing")
TellRetested == at = "tell_retested" /\ Tell("retested", {"pass"}, "none", "reviewing")

(* _build_agent_context: the handoffs selected for an agent, beside what   *)
(* is known of the tests by then.                                          *)
Context(agent) ==
  [ tests |-> run.tests,
    handoffs |-> RetrieveRelevantHandoffs(ListHandoffs(mirror, rows), agent, Limit) ]

(* The repair agent's context is made before testing hands over to it;     *)
(* without parsed failures the stage is skipped.                           *)
AskRepair ==
  /\ at = "ask_repair"
  /\ shown' = Context("repair")
  /\ IF run.failures THEN Goto("tell_failing") /\ UNCHANGED run
     ELSE Goto("reviewing") /\ run' = Staged(run, "repairing")
  /\ UNCHANGED <<records, audit, faults, restarts>>

TellFailing ==
  /\ at = "tell_failing"
  /\ \E symbols \in {"patch", "other"} : Tell("failing", {"fail"}, symbols, "repairing")

(* An unsafe repair ends the run, after its handoff.                       *)
Repairing ==
  /\ at = "repairing"
  /\ \E o \in {"fixed", "stuck", "idle", "unsafe"} :
       Stage("repairing", [run EXCEPT !.repair = o], "tell_repair")

RepairWords == CASE run.repair = "fixed" -> {"done", "pass"}
                 [] run.repair = "stuck" -> {"done", "fail"}
                 [] OTHER                -> {"done"}

TellRepair ==
  /\ at = "tell_repair"
  /\ Tell("repaired", RepairWords, "none",
          CASE run.repair = "unsafe" -> "finalize"
            [] run.repair = "idle"   -> "reviewing"
            [] OTHER                 -> "retesting")

Reviewing ==
  /\ at = "reviewing"
  /\ shown' = Context("reviewer")
  /\ \/ \E o \in {"clean", "blocking", "unsure"} :
          run' = Staged([run EXCEPT !.report = o], "reviewing") /\ Goto("tell_review")
     \/ run' = Staged(run, "reviewing") /\ Goto("finalize")
  /\ UNCHANGED <<records, audit, faults, restarts>>

TellReview == at = "tell_review" /\ Tell("reviewed", {}, "none", "quality_gate")

(* The gate, as far as the record tells its inputs apart; QualityReview    *)
(* has the decision in full.                                               *)
GateOf(r) ==
  IF r.tests = "failed" \/ r.report = "blocking" THEN "rejected"
  ELSE IF r.report = "unsure" THEN "needs_human_review"
  ELSE "approved"

(* _stage_quality_gate and _promote_memory.                                *)
Gate ==
  /\ at = "quality_gate"
  /\ LET gate == GateOf(run)
     IN /\ run' = Staged([run EXCEPT !.gate = gate, !.status = gate], "quality_gate")
        /\ memories' = memories \union PromoteMemory(ListHandoffs(mirror, rows), gate)
  /\ Goto("finalize")
  /\ UNCHANGED <<mirror, rows, held, contradictions, consensus, shown, audit,
                 faults, restarts>>
-----------------------------------------------------------------------------
(* _finalize: reasoning, then the manifest, then the status.               *)

(* _build_reasoning: analyze_run, with the executing process's engine; a   *)
(* lost write here is that of a table that cannot be written.              *)
Finalize ==
  /\ at = "finalize"
  /\ LET found == NewContradictions(held.contradictions,
                     DetectContradictions(ListHandoffs(mirror, rows), run))
         agreed == NewConsensus(held.consensus, BuildConsensus(run))
     IN /\ held' = [contradictions |-> held.contradictions \union found,
                    consensus |-> held.consensus \union agreed]
        /\ \E lostF \in {{}, found}, lostA \in {{}, agreed} :
             /\ Lose((IF lostF = {} THEN 0 ELSE 1) + (IF lostA = {} THEN 0 ELSE 1))
             /\ contradictions' = contradictions (+) SetToBag(found \ lostF)
             /\ consensus' = consensus (+) SetToBag(agreed \ lostA)
  /\ Goto("capture")
  /\ UNCHANGED <<run, mirror, rows, memories, shown, audit, restarts>>

Fresh == ManifestOf(run, rows, consensus, contradictions)

(* _capture_replay_manifest, by a ReplayService of its own: without the    *)
(* row nothing is kept.                                                    *)
Capture ==
  /\ at = "capture"
  /\ \E lost \in BOOLEAN :
       /\ Lose(IF lost THEN 1 ELSE 0)
       /\ manifest' = IF lost THEN manifest ELSE <<Fresh>>
  /\ touched' = FALSE
  /\ Goto("seal")
  /\ UNCHANGED <<run, records, shown, cached, replay, restarts, replays, tampers>>

(* A run that is still running has failed.                                 *)
Seal ==
  /\ at = "seal"
  /\ run' = IF run.status = "running" THEN [run EXCEPT !.status = "failed"] ELSE run
  /\ Goto("done")
  /\ UNCHANGED <<records, shown, audit, faults, restarts>>

(* The process ends: its lists and its engine are gone.                    *)
Crash ==
  /\ at \notin {"done", "down"} /\ faults + restarts < MaxMishaps /\ restarts' = restarts + 1
  /\ Goto("down") /\ mirror' = <<>>
  /\ held' = [contradictions |-> {}, consensus |-> {}]
  /\ UNCHANGED <<run, rows, contradictions, consensus, memories, shown, audit, faults>>

(* resume_run: a running run starts over at the first output it lacks;     *)
(* nothing is read back with recover.  Past coding its stage does not      *)
(* allow what follows and the run fails.                                   *)
Resume ==
  /\ at = "down" /\ run.status = "running"
  /\ IF ~run.plan THEN Goto("planning") /\ UNCHANGED run
     ELSE IF run.patch = "none" THEN Goto("coding") /\ UNCHANGED run
     ELSE Goto("finalize") /\ run' = [run EXCEPT !.status = "failed"]
  /\ UNCHANGED <<records, shown, audit, faults, restarts>>

(* Somebody edits the stored run.                                          *)
Tamper ==
  /\ at = "done" /\ tampers < MaxTampers /\ tampers' = tampers + 1
  /\ \/ run' = [run EXCEPT !.edits = @ + 1]
     \/ run.gate = "rejected" /\ run' = [run EXCEPT !.gate = "approved"]
     \/ run.tests = "failed" /\ run' = [run EXCEPT !.tests = "passed", !.failures = FALSE]
  /\ touched' = TRUE
  /\ UNCHANGED <<at, records, shown, manifest, cached, replay, faults, restarts, replays>>
-----------------------------------------------------------------------------
(* ReplayService.replay: the checks over the recorded run.                 *)

Check(ok) == IF ok THEN "passed" ELSE "failed"

(* The captured manifest against one built now.                            *)
CheckManifestFidelity(captured) ==
  IF captured = NoManifest THEN "skipped" ELSE Check(captured = <<Fresh>>)

(* The recorded stages never go back in the pipeline's order.              *)
CheckPipelineSequence ==
  LET pos(s) == CHOOSE i \in DOMAIN Linear : Linear[i] = s
  IN Check(\A i, j \in DOMAIN run.stages : i < j => pos(run.stages[i]) <= pos(run.stages[j]))

(* The patch is validated again, without the workspace; a patch that was   *)
(* never applied counts as recorded invalid.                               *)
CheckPatchStructure ==
  IF run.patch = "none" THEN "skipped"
  ELSE Check((run.patch = "sound") = (run.applied = "applied"))

(* The gate decides again over the recorded review and the recorded tests. *)
(* Mutant: over the tests as they were before the repair.                  *)
CheckQualityGateStale ==
  IF run.gate = "none" THEN "skipped"
  ELSE IF run.report = "none" THEN "not_replayable"
  ELSE Check(run.gate = GateOf(IF run.repair # "none" THEN [run EXCEPT !.tests = "failed"] ELSE run))

CheckQualityGate ==
  IF run.gate = "none" THEN "skipped"
  ELSE IF run.report = "none" THEN "not_replayable"
  ELSE Check(run.gate = GateOf(run))

(* Every handoff is judged again, without the conflicts, and compared with *)
(* the manifest built a moment ago.                                        *)
Revalidated == [i \in DOMAIN rows |-> ValidateHandoff(rows[i], run.patch # "none", run.tests)]
CheckHandoffs ==
  IF rows = <<>> THEN "skipped"
  ELSE Check(\A i \in DOMAIN rows : Revalidated[i].status = rows[i].status)

(* The confidence recomputed from a record's evidence, within 0.02.        *)
CheckConsensus ==
  IF consensus = EmptyBag THEN "skipped"
  ELSE Check(\A c \in DOMAIN consensus :
         LET again == ComputeConfidence(c.supporting \o c.conflicting)
         IN again - c.confidence \in -20 .. 20)

CheckContradictions ==
  LET kinds(S) == {c[1] : c \in S}
  IN Check(kinds(DOMAIN contradictions) = kinds(DetectContradictions(rows, run)))

(* _check_repository_scope never fails.                                    *)
CheckRepositoryScope == IF run.patch = "none" THEN "skipped" ELSE "passed"

ExactChecks(captured) ==
  [ manifest_fidelity |-> CheckManifestFidelity(captured),
    pipeline_sequence |-> CheckPipelineSequence,
    patch_structure |-> CheckPatchStructure,
    quality_gate |-> CheckQualityGate,
    handoff_claims |-> CheckHandoffs,
    consensus |-> CheckConsensus,
    contradictions |-> CheckContradictions,
    repository_scope |-> CheckRepositoryScope ]

(* DETERMINISTIC adds the workspace: gone, kept, or changed since.  The    *)
(* fingerprint is compared with that of the manifest built now, the files  *)
(* with the coding patch, the tests with what they give there.             *)
Workspaces == {"gone", "kept", "changed"}
LiveChecks(workspace, again) ==
  IF workspace = "gone"
  THEN [ repository_fingerprint |-> "not_replayable",
         application_outcome |-> IF run.patch = "none" THEN "skipped" ELSE "not_replayable",
         testing |-> IF run.tests = "none" THEN "skipped" ELSE "not_replayable" ]
  ELSE [ repository_fingerprint |-> "passed",
         application_outcome |->
           IF run.patch = "none" THEN "skipped"
           ELSE Check(/\ run.applied = "applied" /\ workspace = "kept"
                      /\ run.repair \notin {"fixed", "stuck"}),
         testing |-> IF run.tests = "none" THEN "skipped" ELSE Check(again = run.tests) ]

VerdictFromChecks(checks) ==
  LET found == {checks[c] : c \in DOMAIN checks}
  IN IF "failed" \in found THEN "drift"
     ELSE IF "not_replayable" \in found THEN "incomplete"
     ELSE "match"

LiveVerdicts(checks) ==
  {VerdictFromChecks(checks @@ LiveChecks(workspace, again)) :
     workspace \in Workspaces, again \in {"passed", "failed"}}

(* replay, by the API's service (which keeps the manifest it has seen) or  *)
(* by a command's own.  Judging the handoffs writes them, and the engine,  *)
(* which holds nothing, stores every contradiction it finds again.         *)
Replay ==
  /\ at \in {"seal", "done"} /\ replays < MaxReplays /\ replays' = replays + 1
  /\ \E api \in BOOLEAN :
       LET captured == IF api /\ cached # NoManifest THEN cached ELSE manifest
           checks == ExactChecks(captured)
       IN /\ cached' = IF api THEN captured ELSE cached
          /\ \E verdict \in {VerdictFromChecks(checks)} \union LiveVerdicts(checks) :
               replay' = [touched |-> touched, fidelity |-> checks.manifest_fidelity,
                          gate |-> checks.quality_gate, verdict |-> verdict]
  /\ \E lost \in {{}} \union {{rows[i].id} : i \in {j \in DOMAIN rows : Revalidated[j] # rows[j]}} :
       /\ Lose(Cardinality(lost))
       /\ rows' = [i \in DOMAIN rows |-> IF rows[i].id \in lost THEN rows[i] ELSE Revalidated[i]]
  /\ contradictions' = contradictions (+) SetToBag(DetectContradictions(rows, run))
  /\ UNCHANGED <<run, at, mirror, held, consensus, memories, shown, manifest,
                 touched, restarts, tampers>>

Next ==
  \/ Planning \/ TellPlan \/ Coding \/ TellCode \/ Patching
  \/ Testing \/ JudgeTests \/ TellPassed \/ AskRepair \/ TellFailing
  \/ Repairing \/ TellRepair \/ Retesting \/ JudgeRetest \/ TellRetested
  \/ Reviewing \/ TellReview \/ Gate
  \/ Finalize \/ Capture \/ Seal \/ Crash \/ Resume \/ Tamper \/ Replay

Spec == Init /\ [][Next]_vars
-----------------------------------------------------------------------------
(* Deterministic evidence wins: no handoff shown to the repair or review   *)
(* agent says of the tests what the tests known by then deny, unless it is *)
(* shown as rejected.  (_detect_handoff_conflicts before the contexts and  *)
(* again after the retest, over what list_handoffs returns after a resume) *)
ShownClaimsJudged ==
  \A h \in shown.handoffs : h.status # "rejected" =>
    /\ "pass" \in h.words => shown.tests # "failed"
    /\ h.words \intersect {"pass", "fail"} = {"fail"} => shown.tests # "passed"

(* The table says what the process says: while no write was lost and no    *)
(* replay has judged anew, every handoff of the process is a row with the  *)
(* same status and the same verdicts.  (_persist_handoff_status: "durable, *)
(* survives restart")                                                      *)
DowngradeDurable ==
  faults = 0 /\ replays = 0 =>
    \A i \in DOMAIN mirror : \E j \in DOMAIN rows : rows[j] = mirror[i]

(* The gate's decision can be had again from the record of a run nobody    *)
(* edited, through repair, retest, crash and resume.                       *)
(* (_check_quality_gate)                                                   *)
GateReplays ==
  ~replay.touched => replay.gate # "failed"
=============================================================================
