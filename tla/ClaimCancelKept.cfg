SPECIFICATION FairSpec
CONSTANTS
  Executors = {e1}
  Cancellers = {c1}
  Durable = TRUE
  SourceKinds = {"local"}
  Failing = {"applying_patch", "testing", "repairing"}
  MaxResumes = 1
  MaxCrashes = 0
  MaxFaults = 0
INVARIANT AcceptedCancelKept
CHECK_DEADLOCK FALSE
