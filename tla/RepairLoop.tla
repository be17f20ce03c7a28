------------------------------ MODULE RepairLoop ------------------------------
(***************************************************************************)
(* RepairService.run_repair (services/repair_service.py): the bounded loop *)
(* that diagnoses a failing test run, asks the FixAgent for a patch, lets  *)
(* RepairPolicy and PatchValidator judge it, applies it with the engine of *)
(* SafePatch, tests again, and keeps or undoes the result.                 *)
(*                                                                         *)
(* Before the loop the workspace has been patched by the coding stage,     *)
(* which is any number of calls of the engine.  A test result is its       *)
(* status, its number of failures, of distinct failure fingerprints and of *)
(* commands passed.                                                        *)
(*                                                                         *)
(* Two collaborators are not what run_repair expects: PatchValidator       *)
(* .validate takes no workspace_root, and _run_verification names a class  *)
(* the module does not import.  Each raises, and the loop records the      *)
(* exception as an attempt.  Services says which services are explored:    *)
(* FALSE is the one with the repository's own classes, TRUE one whose      *)
(* collaborators accept the calls run_repair makes, which its constructor  *)
(* and a subclass can supply.                                              *)
(***************************************************************************)
EXTENDS SafePatch, FailureDiagnosis

CONSTANTS
  RepairPatches,   \* the patches the FixAgent may propose
  Results,         \* the results a test run may have
  Kind,            \* what a path is for RepairPolicy
  Traits,          \* patterns RepairPolicy finds in a text
  AllowTestEdits,  \* allow_test_modification
  AllowConfigEdits,
  MaxAttempts,     \* effective_max
  MaxStalled,      \* max_no_progress_count
  Services         \* whether the collaborators fit

ASSUME RepairAssumption ==
  /\ RepairPatches \subseteq Patches
  /\ Kind \in [Paths -> {"source", "test", "config", "git", "env"}]
  /\ Traits \in [Texts -> SUBSET {"weakens_test", "weakens_config", "dangerous"}]
  /\ {AllowTestEdits, AllowConfigEdits} \subseteq BOOLEAN
  /\ Services \subseteq BOOLEAN
  /\ MaxAttempts \in Nat \ {0}
  /\ MaxStalled \in Nat \ {0}

VARIABLES
  session,   \* RepairSession: status, attempts, best and final result
  loop       \* the local variables of run_repair

repairVars == <<patchVars, session, loop>>

(* rollback_noted is ROLLED_BACK with the rollback's error in the attempt. *)
AttemptStatus == {"error", "skipped", "rejected", "passed", "failed",
                  "rolled_back", "rollback_noted"}
SessionStatus == {"running", "success", "failed", "no_repair", "environmental",
                  "max_attempts", "no_progress", "repeated_patch",
                  "unsafe_repair", "error"}
NoResult == [status |-> "none", failures |-> 0, distinct |-> 0, passed |-> 0]

----------------------------------------------------------------------------
(* RepairPolicy.validate: test and configuration files are neither deleted *)
(* nor weakened by a MODIFY, no text brings a dangerous pattern, .git is   *)
(* not touched and an environment file not deleted.  The scope and path    *)
(* checks are part of clean.                                               *)
TamperingOk(c) ==
  Kind[c.path] = "test" =>
    /\ c.op # "delete"
    /\ c.op = "modify" => AllowTestEdits \/ "weakens_test" \notin Traits[c.text]

ConfigOk(c) ==
  Kind[c.path] = "config" =>
    /\ c.op # "delete"
    /\ c.op = "modify" => AllowConfigEdits \/ "weakens_config" \notin Traits[c.text]

ContentOk(c) == c.op # "delete" => "dangerous" \notin Traits[c.text]

ProtectedOk(c) ==
  /\ Kind[c.path] # "git"
  /\ Kind[c.path] = "env" => c.op # "delete"

(* Mutant: a deleted test is not noticed.                                  *)
PolicyOnTexts(p) ==
  /\ p.clean
  /\ \A c \in Range(p.changes) :
       /\ c.op = "modify" => TamperingOk(c)
       /\ ConfigOk(c) /\ ContentOk(c) /\ ProtectedOk(c)

PolicyAllows(p) ==
  /\ p.clean
  /\ \A c \in Range(p.changes) :
       TamperingOk(c) /\ ConfigOk(c) /\ ContentOk(c) /\ ProtectedOk(c)

(* fingerprint_patch: operation, path and new text of every change.        *)
Fingerprint(p) ==
  [i \in DOMAIN p.changes |->
     <<p.changes[i].op, p.changes[i].path, p.changes[i].text>>]

----------------------------------------------------------------------------
StatusRank == [passed |-> 0, skipped |-> 1, failed |-> 2, timeout |-> 3,
               error |-> 4, environment_not_ready |-> 5]

(* _is_worsened; a failure count may grow by half before it counts.        *)
Worsened(old, new) ==
  \/ new.failures > old.failures /\ new.passed < old.passed
  \/ StatusRank[new.status] > StatusRank[old.status] + 1
  \/ old.failures > 0 /\ 2 * new.failures > 3 * old.failures

(* _has_progress                                                           *)
HasProgress(old, new) == new.distinct < old.distinct

NothingToRepair(r) ==
  r.failures = 0 /\ r.status \notin {"failed", "timeout", "error"}

----------------------------------------------------------------------------
SessionIdle == [status |-> "none", attempts |-> 0, last |-> "none",
                best |-> NoResult, bestAttempt |-> 0, final |-> NoResult,
                tests |-> NoSnapshot]

TestFiles == {q \in Paths : Kind[q] = "test"}

LoopIdle == [at |-> "idle", fits |-> TRUE, attempt |-> 0, stalled |-> 0, seen |-> {},
             patch |-> NoPatch, saved |-> NoSnapshot, start |-> NoSnapshot]

(* The coding stage may have used the engine before a session starts.      *)
CodingPatch(p) ==
  /\ loop.at = "idle" /\ engine.phase = "idle"
  /\ DryRun(p) \/ Submit(p)
  /\ UNCHANGED <<session, loop>>

(* run_repair up to its loop.                                              *)
StartRepair(r) ==
  /\ loop.at = "idle" /\ engine.phase # "applying"
  /\ \E found \in Diagnoses(r) \union {DiagnosisRaises}, fits \in Services :
       LET status ==
             IF NothingToRepair(r) THEN "success"
             ELSE IF r.status = "environment_not_ready" THEN "environmental"
             ELSE IF found = DiagnosisRaises THEN "error"
             ELSE IF found \intersect {"repairable", "possibly_repairable"} = {}
                  THEN "no_repair"
             ELSE "running"
       IN /\ session' = [SessionIdle EXCEPT !.status = status, !.best = r,
                             !.tests = [q \in TestFiles |-> files[q]]]
          /\ loop' = [LoopIdle EXCEPT
                        !.fits = fits,
                        !.at = IF status = "running" THEN "ask" ELSE "ended",
                        !.attempt = IF status = "running" THEN 1 ELSE 0]
  /\ engine' = EngineIdle
  /\ UNCHANGED <<files, stray, faults>>

LastPass == loop.attempt = MaxAttempts

(* The end of one pass of the loop: the attempt is recorded; the session   *)
(* is over when the pass broke out or was the last, and a pass that ends   *)
(* with continue does not reach the check that sets MAX_ATTEMPTS.          *)
ClosePass(outcome, stop, continued, stalled, best, bestAttempt) ==
  LET last == LastPass
      over == stop # "running" \/ last
      status == IF stop \notin {"running", "break"} THEN stop
                ELSE IF stop = "running" /\ last /\ ~continued THEN "max_attempts"
                ELSE IF over THEN "failed" ELSE "running"
  IN /\ session' = [session EXCEPT
          !.attempts = session.attempts + 1,
          !.last = outcome,
          !.status = status,
          !.best = best,
          !.bestAttempt = bestAttempt,
          !.final = IF over /\ bestAttempt # 0 THEN best ELSE session.final]
     /\ loop' = [loop EXCEPT
          !.at = IF over THEN "ended" ELSE "ask",
          !.attempt = IF over THEN loop.attempt ELSE loop.attempt + 1,
          !.stalled = stalled,
          !.patch = NoPatch,
          !.saved = NoSnapshot,
          !.start = IF outcome = "rolled_back" THEN loop.start ELSE NoSnapshot,
          !.seen = IF over THEN {} ELSE loop.seen]

Unchanged(outcome, stop, continued, stalled) ==
  ClosePass(outcome, stop, continued, stalled, session.best, session.bestAttempt)

Stalled == loop.stalled + 1
BreakIf(n) == IF n >= MaxStalled THEN "break" ELSE "running"

(* 3b: the agent raises, or declines.                                      *)
AgentFails ==
  /\ loop.at = "ask"
  /\ Unchanged("error", BreakIf(Stalled), TRUE, Stalled)
  /\ UNCHANGED patchVars

AgentDeclines ==
  /\ loop.at = "ask"
  /\ Unchanged("skipped", BreakIf(loop.stalled), TRUE, loop.stalled)
  /\ UNCHANGED patchVars

(* A proposal without a patch goes straight to the tests.                  *)
AgentProposesNothing ==
  /\ loop.at = "ask"
  /\ loop' = [loop EXCEPT !.at = "test", !.patch = NoPatch,
                          !.saved = NoSnapshot, !.start = files]
  /\ UNCHANGED <<patchVars, session>>

(* 3c: a patch proposed before ends the session.                           *)
RepeatedPatch(p) ==
  /\ loop.at = "ask"
  /\ Fingerprint(p) \in loop.seen
  /\ Unchanged("skipped", "repeated_patch", FALSE, loop.stalled)
  /\ UNCHANGED patchVars

(* 3d: so does one that RepairPolicy forbids.                              *)
UnsafePatch(p) ==
  /\ loop.at = "ask"
  /\ Fingerprint(p) \notin loop.seen
  /\ ~PolicyAllows(p)
  /\ Unchanged("rejected", "unsafe_repair", FALSE, loop.stalled)
  /\ UNCHANGED patchVars

(* 3e: the call of the validator.                                          *)
ValidatePatch(p) ==
  /\ loop.at = "ask"
  /\ Fingerprint(p) \notin loop.seen
  /\ PolicyAllows(p)
  /\ loop' = [loop EXCEPT !.at = "validate", !.patch = p,
                          !.seen = loop.seen \union {Fingerprint(p)}]
  /\ UNCHANGED <<patchVars, session>>

ValidatorRaises ==
  /\ loop.at = "validate" /\ ~loop.fits
  /\ Unchanged("error", "running", TRUE, Stalled)
  /\ UNCHANGED patchVars

ValidatorRejects ==
  /\ loop.at = "validate" /\ loop.fits
  /\ ~ValidPatch(loop.patch)
  /\ Unchanged("rejected", BreakIf(Stalled), TRUE, Stalled)
  /\ UNCHANGED patchVars

(* 3f: the snapshot for a later rollback is taken before apply takes its   *)
(* own; when that raises nothing has been applied.                         *)
ApplyRepair ==
  /\ loop.at = "validate" /\ loop.fits
  /\ ValidPatch(loop.patch) /\ CanSnapshot(loop.patch)
  /\ Submit(loop.patch)
  /\ loop' = [loop EXCEPT !.at = "apply", !.saved = SnapshotOf(loop.patch),
                          !.start = files]
  /\ UNCHANGED session

SnapshotRaises ==
  /\ loop.at = "validate" /\ loop.fits
  /\ ValidPatch(loop.patch)
  /\ \/ ~CanSnapshot(loop.patch) /\ UNCHANGED faults
     \/ CanSnapshot(loop.patch) /\ faults < MaxFaults /\ faults' = faults + 1
  /\ Unchanged("error", "running", TRUE, Stalled)
  /\ UNCHANGED <<files, stray, engine>>

(* apply has returned or raised.  A result that is REJECTED or ROLLED_BACK *)
(* goes on to the tests; only the latter keeps no snapshot.                *)
ApplyReturns ==
  /\ loop.at = "apply" /\ engine.phase = "done"
  /\ engine.status \in {"applied", "rejected", "rolled_back"}
  /\ loop' = [loop EXCEPT
                !.at = "test",
                !.saved = IF engine.status = "rolled_back" THEN NoSnapshot
                          ELSE loop.saved]
  /\ engine' = EngineIdle
  /\ UNCHANGED <<files, stray, faults, session>>

(* Mutant: only the error of the snapshot is caught.                       *)
CatchSnapshotOnly ==
  /\ loop.at = "apply" /\ engine.phase = "done"
  /\ engine.status = "snapshot_error"
  /\ Unchanged("error", "running", TRUE, Stalled)
  /\ engine' = EngineIdle
  /\ UNCHANGED <<files, stray, faults>>

ApplyRaises ==
  /\ loop.at = "apply" /\ engine.phase = "done"
  /\ engine.status \in {"snapshot_error", "rollback_error"}
  /\ Unchanged("error", "running", TRUE, Stalled)
  /\ engine' = EngineIdle
  /\ UNCHANGED <<files, stray, faults>>

(* 3g: the tests are run again.                                            *)
TestRaises ==
  /\ loop.at = "test"
  /\ Unchanged("error", "running", TRUE, Stalled)
  /\ UNCHANGED patchVars

(* 3h: all tests pass.  run_repair returns from inside the loop.           *)
TestsPass(r) ==
  /\ loop.at = "test" /\ loop.fits
  /\ r.status = "passed"
  /\ session' = [session EXCEPT !.attempts = session.attempts + 1,
                                !.last = "passed", !.status = "success", !.final = r,
                                !.bestAttempt = loop.attempt]
  /\ loop' = [loop EXCEPT !.at = "ended", !.patch = NoPatch, !.saved = NoSnapshot,
                          !.start = NoSnapshot]
  /\ UNCHANGED patchVars

Stop(n) == IF n >= MaxStalled THEN "no_progress" ELSE "running"

(* RepairService._rollback                                                 *)
Undone(bad) ==
  loop.saved # NoSnapshot /\ Unrestorable(files, loop.saved) \union bad = {}

(* A result that is worse is undone with the saved snapshot; the session   *)
(* goes on from there.                                                     *)
TestsWorse(r) ==
  /\ loop.at = "test" /\ loop.fits
  /\ r.status # "passed" /\ Worsened(session.best, r)
  /\ \E bad \in SUBSET DOMAIN loop.saved :
       /\ faults' = faults + Cardinality(bad)
       /\ faults' <= MaxFaults
       /\ files' = Restore(files, loop.saved, bad)
       /\ ClosePass(IF Undone(bad) THEN "rolled_back" ELSE "rollback_noted",
                    Stop(Stalled), FALSE, Stalled, session.best, session.bestAttempt)
  /\ UNCHANGED <<stray, engine>>

TestsBetter(r) ==
  /\ loop.at = "test" /\ loop.fits
  /\ r.status # "passed" /\ ~Worsened(session.best, r)
  /\ HasProgress(session.best, r)
  /\ ClosePass("failed", Stop(0), FALSE, 0, r, loop.attempt)
  /\ UNCHANGED patchVars

(* No progress: the patch stays in the workspace.                          *)
TestsSame(r) ==
  /\ loop.at = "test" /\ loop.fits
  /\ r.status # "passed" /\ ~Worsened(session.best, r)
  /\ ~HasProgress(session.best, r)
  /\ Unchanged("failed", Stop(Stalled), FALSE, Stalled)
  /\ UNCHANGED patchVars

EngineRuns == EngineStep /\ UNCHANGED <<session, loop>>

Coding == \E p \in Patches : CodingPatch(p)
Start == \E r \in Results : StartRepair(r)
Ask == AgentFails \/ AgentDeclines \/ AgentProposesNothing
         \/ \E p \in RepairPatches :
              RepeatedPatch(p) \/ UnsafePatch(p) \/ ValidatePatch(p)
Judge == ValidatorRaises \/ ValidatorRejects \/ ApplyRepair \/ SnapshotRaises
Apply == EngineRuns \/ ApplyReturns \/ ApplyRaises
Test == TestRaises
          \/ \E r \in Results :
               TestsPass(r) \/ TestsWorse(r) \/ TestsBetter(r) \/ TestsSame(r)

Init == PatchInit /\ session = SessionIdle /\ loop = LoopIdle

Next == Coding \/ Start \/ Ask \/ Judge \/ Apply \/ Test

(* run_repair is one coroutine: once it is started the event loop returns  *)
(* to it until it ends.                                                    *)
Spec == Init /\ [][Next]_repairVars
             /\ WF_repairVars(Ask \/ Judge \/ Apply \/ Test)

----------------------------------------------------------------------------
(* A repair does not make the tests pass by touching the tests: a test     *)
(* file that was there when the session began is still there, and holds    *)
(* its text or one without the patterns of RepairPolicy; whatever the      *)
(* attempts, their order, and the rollbacks that failed.                   *)
TestsKept ==
  loop.at # "idle" /\ ~AllowTestEdits =>
    \A q \in TestFiles :
      session.tests[q] \in Texts =>
        \/ files[q] = session.tests[q]
        \/ files[q] \in Texts /\ "weakens_test" \notin Traits[files[q]]

(* A session that starts ends, whatever the agent, the engine and the      *)
(* tests answer.                                                           *)
RepairEnds == loop.at # "idle" ~> loop.at = "ended"

=============================================================================
