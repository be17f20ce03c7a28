--------------------------- MODULE FailureDiagnosis ---------------------------
(***************************************************************************)
(* FailureDiagnosisService (services/failure_diagnosis_service.py): what   *)
(* RepairService learns from a failing test run.  A diagnosis is its       *)
(* repairability; the files, symbols, plan steps and texts a diagnosis     *)
(* quotes are left out.                                                    *)
(***************************************************************************)
EXTENDS Naturals, FiniteSets

Repairability == {"repairable", "possibly_repairable", "not_repairable",
                  "environmental", "insufficient_context"}

FailureCategory == {"syntax_error", "import_error", "assertion_failure",
                    "type_error", "build_failure", "lint_failure", "timeout",
                    "dependency_error", "configuration_error",
                    "execution_error", "unknown"}

Infrastructure == {"environment_not_ready", "timeout", "error"}

DiagnosisRaises == {"raises"}

(* _classify_repairability: inPatch says that an affected file was changed *)
(* by the patch, inPackage that the message names a package of the patch.  *)
ClassifyRepairability(category, inPatch, inPackage) ==
  CASE category = "syntax_error" -> "repairable"
    [] category = "import_error" ->
         IF inPatch \/ inPackage THEN "repairable" ELSE "possibly_repairable"
    [] category \in {"assertion_failure", "type_error"} ->
         IF inPatch THEN "repairable" ELSE "possibly_repairable"
    [] category \in {"build_failure", "lint_failure"} -> "possibly_repairable"
    [] category \in {"timeout", "dependency_error", "configuration_error",
                     "execution_error"} -> "environmental"
    [] OTHER -> "insufficient_context"

FailureVerdicts ==
  {ClassifyRepairability(c, p, k) :
     c \in FailureCategory, p \in BOOLEAN, k \in BOOLEAN}

(* diagnose: the sets of repairabilities a result can lead to.  An         *)
(* infrastructure status gives one diagnosis; otherwise rejected commands  *)
(* give one, every failure gives one, and a failed run without either has  *)
(* one per failed process, or none.                                        *)
Diagnoses(r) ==
  IF r.status \in Infrastructure THEN {{"environmental"}}
  ELSE LET rejections == {{}, {"not_repairable"}}
           ofFailures == {s \in SUBSET FailureVerdicts :
                            Cardinality(s) \in 1 .. r.failures}
       IN IF r.failures > 0
          THEN {a \union b : a \in rejections, b \in ofFailures}
          ELSE rejections \union
                 (IF r.status = "failed" THEN {{"possibly_repairable"}} ELSE {})
=============================================================================
