----------------------------- MODULE QualityReview -----------------------------
(***************************************************************************)
(* The review of a run: DeterministicReview (services/deterministic_review *)
(* .py), ReviewerAgent (agents/reviewer.py), ReviewEvidenceValidator       *)
(* (services/review_evidence_validator.py), ReviewService (services/       *)
(* review_service.py) and QualityGate (services/quality_gate.py), as the   *)
(* stages REVIEWING and QUALITY_GATE of the pipeline use them.             *)
(*                                                                         *)
(* The evidence of a run is its test status and number of failures, its    *)
(* requirements with whether the plan maps each to a step, the status of   *)
(* its repair, the files its patch and its repairs change, and the marks a *)
(* check finds in its patch, its repair session and its repositories.  A   *)
(* finding is its category, severity, blocking flag and file.  The counts  *)
(* of skipped tests are left out: run_tests never sets them.  Texts,       *)
(* scores and reason codes are left out.                                   *)
(***************************************************************************)
EXTENDS Naturals, FiniteSets

CONSTANTS
  Reqs,        \* requirement ids
  Files,       \* names of changed files
  NoFile,
  Answers,     \* AgentReviews a model may give
  RequireHuman \* require_human_for_unverified

FindingSeverity == {"critical", "high", "medium", "low", "info"}
FindingCategory == {"requirement", "correctness", "testing", "security",
                    "architecture", "maintainability", "scope", "regression",
                    "documentation", "quality", "tampering"}
RequirementStatus == {"satisfied", "partially_satisfied", "unsatisfied",
                      "unverified", "not_applicable"}
Decision == {"approved", "rejected", "needs_human_review", "incomplete"}

TestStatus == {"none", "passed", "failed", "timeout", "error", "skipped",
               "environment_not_ready"}
RepairStatus == {"none", "success", "failed", "no_repair", "environmental",
                 "max_attempts", "no_progress", "repeated_patch",
                 "unsafe_repair", "error"}

(* out_of_plan: a changed path outside the areas of every step;            *)
(* repo_rejected, escapes: the two sources of _check_repository_scope;     *)
(* attempt_tampers, touches_original: errors of repair attempts.           *)
Marks == {"out_of_plan", "repo_rejected", "escapes", "test_deleted",
          "test_weakened", "dangerous", "attempt_tampers", "touches_original"}

Evidence == [tests : TestStatus, failures : Nat, reqs : SUBSET Reqs,
             mapped : SUBSET Reqs, objective : BOOLEAN, repair : RepairStatus,
             plan : BOOLEAN, patch : BOOLEAN, marks : SUBSET Marks,
             files : SUBSET Files, repaired : SUBSET Files]

Finding == [category : FindingCategory, severity : FindingSeverity,
            blocking : BOOLEAN, file : Files \union {NoFile}]

ASSUME ReviewAssumption ==
  /\ NoFile \notin Files
  /\ IsFiniteSet(Reqs)
  /\ RequireHuman \in BOOLEAN
  /\ \A a \in Answers :
       /\ a.kind \in {"findings", "unparsed", "unavailable"}
       /\ a.findings \subseteq Finding
       /\ a.assessments \subseteq RequirementStatus

VARIABLES
  evidence,  \* what the run holds when it is reviewed
  known,     \* files the validator of the shared ReviewService knows
  review     \* the two stages: where they are, the report and the decision

reviewVars == <<evidence, known, review>>

Found(c, s, b) == [category |-> c, severity |-> s, blocking |-> b, file |-> NoFile]
FoundIf(condition, c, s, b) == IF condition THEN {Found(c, s, b)} ELSE {}
Blocking(findings) == {f \in findings : f.blocking}

----------------------------------------------------------------------------
(* DeterministicReview.run, check by check.                                *)
CheckVerification(e) ==
  FoundIf(e.tests = "none", "testing", "high", TRUE)
    \union FoundIf(e.tests \in {"failed", "error"}, "testing", "critical", TRUE)
    \union FoundIf(e.tests \in {"environment_not_ready", "timeout"}, "testing", "high", TRUE)

CheckFailures(e) ==
  FoundIf(e.tests # "none" /\ e.failures > 3, "testing", "medium", FALSE)

(* More than half of the requirements without a step is blocking.          *)
CheckCoverage(e) ==
  LET open == Cardinality(e.reqs \ e.mapped)
  IN FoundIf(2 * open > Cardinality(e.reqs), "requirement", "high", TRUE)
       \union FoundIf(open > 0 /\ 2 * open <= Cardinality(e.reqs),
                      "requirement", "medium", FALSE)

CheckRepair(e) ==
  CASE e.repair \in {"max_attempts", "no_progress", "failed"} ->
         {Found("testing", "high", TRUE)}
    [] e.repair = "unsafe_repair" -> {Found("security", "critical", TRUE)}
    [] e.repair = "no_repair" -> {Found("testing", "medium", FALSE)}
    [] e.repair = "repeated_patch" -> {Found("quality", "medium", FALSE)}
    [] OTHER -> {}

CheckScope(e, marks) ==
  IF ~e.plan \/ ~e.patch THEN {}
  ELSE FoundIf("out_of_plan" \in marks, "scope", "medium", FALSE)
         \union FoundIf(marks \intersect {"repo_rejected", "escapes"} # {},
                        "scope", "critical", TRUE)

CheckTampering(e, marks) ==
  IF ~e.patch THEN {}
  ELSE FoundIf("test_deleted" \in marks, "tampering", "critical", TRUE)
         \union FoundIf(marks \intersect {"test_weakened", "attempt_tampers"} # {},
                        "tampering", "high", TRUE)

CheckSecurity(e, marks) ==
  FoundIf(e.patch /\ "dangerous" \in marks, "security", "critical", TRUE)

CheckWorkspace(e, marks) ==
  FoundIf("touches_original" \in marks, "security", "critical", TRUE)

(* marks is a parameter: a review without extra_context does not see the   *)
(* repositories.                                                           *)
DeterministicReview(e, marks) ==
  CheckVerification(e) \union CheckFailures(e) \union CheckCoverage(e)
    \union CheckRepair(e) \union CheckScope(e, marks)
    \union CheckTampering(e, marks) \union CheckSecurity(e, marks)
    \union CheckWorkspace(e, marks)

----------------------------------------------------------------------------
(* ReviewContextBuilder._build_requirements_text makes a text as soon as   *)
(* there are structured requirements, be their list empty, or a plan that  *)
(* covers one.                                                             *)
HasText(e) == e.objective \/ (e.plan /\ e.mapped # {})

(* ReviewerAgent._execute_deterministic.  A changed file counts as related *)
(* to a requirement when the plan maps one to it; the content of the files *)
(* may not be readable.                                                    *)
AgentDeterministic(e) ==
  LET general == {{}, {Found("requirement", "medium", FALSE)},
                  {Found("quality", "medium", FALSE)}}
  IN {g \union FoundIf(~HasText(e), "requirement", "high", TRUE) : g \in general}

(* _validate_findings: a finding about a file that neither the patch nor a *)
(* repair attempt changes does not block.                                  *)
AgentValidate(findings, e) ==
  {IF f.file # NoFile /\ e.files \union e.repaired # {}
        /\ f.file \notin e.files \union e.repaired
   THEN [f EXCEPT !.blocking = FALSE] ELSE f : f \in findings}

(* What the agent hands to ReviewService: without a model, or when the     *)
(* model cannot be reached, the deterministic findings.                    *)
AgentReviews(a, e) ==
  CASE a.kind = "unavailable" -> {[findings |-> fs, assessments |-> {}] : fs \in AgentDeterministic(e)}
    [] a.kind = "unparsed" -> {[findings |-> {}, assessments |-> {}]}
    [] a.kind = "findings" -> {[findings |-> AgentValidate(a.findings, e),
                                assessments |-> a.assessments]}

(* ReviewEvidenceValidator.validate removes what names an unknown file; it *)
(* is not told what the repairs changed.                                   *)
Validate(findings, files) ==
  {f \in findings : f.file = NoFile \/ files = {} \/ f.file \in files}

(* _build_requirement_coverage                                             *)
CoverageOf(e, r) ==
  CASE e.tests = "passed" -> IF r \in e.mapped THEN "satisfied" ELSE "partially_satisfied"
    [] e.tests \in {"failed", "timeout", "error"} -> "unsatisfied"
    [] OTHER -> "unverified"

RequirementCoverage(e) == {CoverageOf(e, r) : r \in e.reqs}

(* Mutant: an assessment by the model replaces the coverage.               *)
ReportReplaced(e, marks, agent, files) ==
  [findings |-> DeterministicReview(e, marks) \union Validate(agent.findings, files),
   coverage |-> IF agent.assessments = {} THEN RequirementCoverage(e)
                ELSE agent.assessments,
   executed |-> e.tests # "none", repair |-> e.repair]

(* ReviewReport                                                            *)
Report(e, marks, agent, files) ==
  [findings |-> DeterministicReview(e, marks) \union Validate(agent.findings, files),
   coverage |-> RequirementCoverage(e) \union agent.assessments,
   executed |-> e.tests # "none", repair |-> e.repair]

----------------------------------------------------------------------------
(* QualityGate.decide                                                      *)
Rejects(report, found, tests) ==
  \/ tests \in {"failed", "timeout", "error"}
  \/ \E f \in Blocking(found) : f.severity \in {"critical", "high"}
  \/ "unsatisfied" \in report.coverage
  \/ \E f \in found : f.category = "tampering"
  \/ \E f \in found : f.category = "security" /\ f.severity \in {"critical", "high"}
  \/ report.repair \in {"max_attempts", "failed", "no_progress", "unsafe_repair"}
  \/ ~report.executed

NeedsHuman(report, det) ==
  \/ RequireHuman /\ report.coverage \intersect {"unverified", "not_applicable"} # {}
  \/ Blocking(det) # {}

(* Mutant: the findings of the report stand for all of them.               *)
DecideOnReport(report, det, tests) ==
  IF Rejects(report, report.findings, tests) THEN "rejected"
  ELSE IF NeedsHuman(report, report.findings) THEN "needs_human_review"
  ELSE "approved"

Decide(report, det, tests) ==
  IF Rejects(report, det \union report.findings, tests) THEN "rejected"
  ELSE IF NeedsHuman(report, det) THEN "needs_human_review"
  ELSE "approved"

----------------------------------------------------------------------------
NoReport == [findings |-> {}, coverage |-> {}, executed |-> FALSE, repair |-> "none"]
NoReview == [at |-> "idle", model |-> FALSE, broken |-> FALSE,
             report |-> NoReport, lost |-> FALSE, decision |-> "none"]
NoEvidence == [tests |-> "none", failures |-> 0, reqs |-> {}, mapped |-> {},
               objective |-> FALSE, repair |-> "none", plan |-> FALSE,
               patch |-> FALSE, marks |-> {}, files |-> {}, repaired |-> {}]

(* Another run is reviewed by the same ReviewService: prepare adds its     *)
(* files to the validator.                                                 *)
OtherReview ==
  /\ review.at = "idle"
  /\ \E files \in SUBSET Files : known' = known \union files
  /\ UNCHANGED <<evidence, review>>

(* _stage_review: run_review stores its report in the run.                 *)
RunReview(e, a) ==
  /\ review.at = "idle"
  /\ evidence' = e
  /\ known' = known \union e.files
  /\ \E agent \in AgentReviews(a, e) :
       review' = [NoReview EXCEPT !.at = "reviewed",
                    !.model = a.kind # "unavailable",
                    !.report = Report(e, e.marks, agent, known')]

(* run_review reports an error of its own: the report it returns holds     *)
(* nothing, and the stage stores it.                                       *)
ReviewBreaks(e) ==
  /\ review.at = "idle"
  /\ evidence' = e
  /\ review' = [NoReview EXCEPT !.at = "reviewed", !.broken = TRUE]
  /\ UNCHANGED known

(* The backend restarts between the two stages, and the stored run comes   *)
(* back without its report: a field that does not validate is skipped.     *)
LoseReport ==
  /\ review.at = "reviewed" /\ ~review.lost
  /\ review' = [review EXCEPT !.report = NoReport, !.lost = TRUE,
                             !.model = FALSE, !.broken = FALSE]
  /\ UNCHANGED <<evidence, known>>

(* _stage_quality_gate: the checks are made again on what the run holds    *)
(* now, and the gate decides on them and the stored report.  A missing     *)
(* report is made by a new ReviewService, which is not given the           *)
(* repositories.                                                           *)
GateDecides ==
  /\ review.at = "reviewed"
  /\ \E agent \in {[findings |-> fs, assessments |-> {}] : fs \in AgentDeterministic(evidence)} :
       LET marks == evidence.marks \ {"repo_rejected", "escapes"}
           report == IF review.lost
                     THEN Report(evidence, marks, agent, evidence.files)
                     ELSE review.report
           det == DeterministicReview(evidence, evidence.marks)
       IN review' = [review EXCEPT !.at = "decided", !.report = report,
                       !.decision = Decide(report, det, evidence.tests)]
  /\ UNCHANGED <<evidence, known>>

ReviewInit == evidence = NoEvidence /\ known = {} /\ review = NoReview

----------------------------------------------------------------------------
Strictness(d) == CASE d = "approved" -> 0 [] d = "needs_human_review" -> 1
                   [] OTHER -> 2

(* What the gate answers to the evidence alone, without any agent.         *)
EvidenceDecision(e) ==
  LET silent == [findings |-> {}, assessments |-> {}]
  IN Decide(Report(e, e.marks, silent, e.files),
            DeterministicReview(e, e.marks), e.tests)

(* Whatever a model finds or assesses, and whatever the validator keeps of *)
(* it, the decision is at least as strict as the evidence alone makes it:  *)
(* "LLM says looks good" never approves (QualityGate, class docstring).    *)
ModelOnlyTightens ==
  review.at = "decided" =>
    Strictness(review.decision) >= Strictness(EvidenceDecision(evidence))

(* The decision does not depend on whether the report survived a restart:  *)
(* without a model, a report that is made again at the gate decides as the *)
(* stored one, although it is made without the repositories.               *)
LostReportSameDecision ==
  review.at = "decided" /\ ~review.model /\ ~review.broken =>
    \A agent \in {[findings |-> fs, assessments |-> {}] : fs \in AgentDeterministic(evidence)} :
      review.decision = Decide(Report(evidence, evidence.marks, agent, evidence.files),
                               DeterministicReview(evidence, evidence.marks),
                               evidence.tests)

=============================================================================
