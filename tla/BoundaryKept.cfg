\* One run is recorded twice; between the two a process dies.
SPECIFICATION Spec
CONSTANTS
  Runs = {"r1", "r2", "m"}
  Repos = {"A", "B"}
  Files = {"f"}
  Patched <- MCPatched
  Auxiliary <- MCAuxiliary
  Manifests <- MCManifests
  Depth = 3
  Workloads <- MCRecordedAgain
INVARIANT BoundaryKept
CHECK_DEADLOCK FALSE
