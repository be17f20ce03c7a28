\* One execution at a time against PostgresRunStore; the backend may crash
\* once, one store update may raise, and the run is resumed afterwards.
SPECIFICATION FairSpec
CONSTANTS
  Executors = {e1}
  Cancellers = {}
  Durable = TRUE
  SourceKinds = {"none", "local", "github"}
  Failing = {"acquiring_repository", "analyzing_repository", "analyzing_task",
    "planning", "retrieving_context", "coding", "validating_patch",
    "applying_patch", "testing", "repairing", "reviewing", "quality_gate"}
  MaxResumes = 1
  MaxCrashes = 1
  MaxFaults = 1
INVARIANTS NotRedone AppliedOnce
PROPERTIES PromiseKept ExecutionReturns
CHECK_DEADLOCK FALSE
