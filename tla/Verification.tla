----------------------------- MODULE Verification -----------------------------
(***************************************************************************)
(* From the commands of a test run to the decision about a run: the stages *)
(* TESTING, REVIEWING and QUALITY_GATE of the pipeline, which are TestRun  *)
(* and QualityReview one after the other.  A review is given the result of *)
(* the test run, or, through the review API, any result; between the two   *)
(* the repair loop may have run, whose outcome is part of the evidence.    *)
(***************************************************************************)
EXTENDS TestRun, QualityReview

CONSTANT Cases   \* the evidence that is explored

ASSUME CasesAssumption == Cases \subseteq Evidence

vars == <<testVars, reviewVars>>

(* A test run that raised, or made no result, fails its stage: no review   *)
(* follows.  Repair leaves a failing status unless it succeeds.            *)
Reviewable(e) ==
  \/ tests.at = "idle"
  \/ /\ tests.at = "done" /\ e.tests = tests.status
     /\ e.tests = "passed" => e.repair = "none"

Testing == TestNext /\ review.at = "idle" /\ UNCHANGED reviewVars

Reviewing ==
  /\ tests.at \in {"idle", "done"}
  /\ \/ OtherReview
     \/ review.at = "idle" /\ \E e \in {c \in Cases : Reviewable(c)} :
          ReviewBreaks(e) \/ \E a \in Answers : RunReview(e, a)
     \/ LoseReport
     \/ GateDecides
  /\ UNCHANGED testVars

Init == TestInit /\ ReviewInit
Next == Testing \/ Reviewing
Spec == Init /\ [][Next]_vars /\ TestFairness

----------------------------------------------------------------------------
(* The one approval whose tests are not PASSED: every command was refused  *)
(* and there is no requirement to verify, yet a model, or a review that    *)
(* found a text of requirements, has nothing against it.                   *)
Unrequired ==
  evidence.tests = "skipped" /\ evidence.reqs = {} /\ (review.model \/ HasText(evidence))

(* No command was found, so that nothing was planned: run_tests folds no   *)
(* results into PASSED, and no later check counts what was run.            *)
NothingPlanned == tests.plan = <<>>

(* A run that is approved after its test run was tested for real, unless   *)
(* there was nothing to run or nothing to show: some command was run, each *)
(* command that was run ended by itself with exit code 0, not by the       *)
(* deadline or a signal, and none that was refused had to run.             *)
WasRun ==
  review.decision = "approved" /\ tests.at = "done" =>
    \/ /\ \E i \in DOMAIN tests.plan : tests.ran[i].truth = "zero"
       /\ \A i \in DOMAIN tests.plan :
            IF tests.ran[i].truth = "rejected" THEN ~tests.ran[i].required
            ELSE tests.ran[i].truth = "zero"
    \/ NothingPlanned
    \/ Unrequired

(* An approval rests on evidence that stands by itself: tests not failing, *)
(* every requirement judged by them, no mark of tampering, danger or of    *)
(* leaving the repository, and no repair that was given up.                *)
StandsByItself ==
  review.decision = "approved" =>
    /\ evidence.tests = "passed" \/ Unrequired
    /\ evidence.repair \notin {"max_attempts", "failed", "no_progress", "unsafe_repair"}
    /\ "touches_original" \notin evidence.marks
    /\ evidence.patch => evidence.marks \intersect
         {"test_deleted", "test_weakened", "attempt_tampers", "dangerous"} = {}
    /\ evidence.patch /\ evidence.plan =>
         evidence.marks \intersect {"repo_rejected", "escapes"} = {}
    /\ 2 * Cardinality(evidence.reqs \ evidence.mapped) <= Cardinality(evidence.reqs)

(* What an approved run can show for itself: tests that ran, but for a     *)
(* workspace with no command at all.  (run_tests, ExecutionPolicy, the     *)
(* process statuses, DeterministicReview and QualityGate.decide together)  *)
ApprovedOnEvidence == WasRun /\ StandsByItself
=============================================================================
