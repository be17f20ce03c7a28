\* Three recordings, one acquisition, one lost write and one restart.
SPECIFICATION Spec
CONSTANTS
  Runs = {"r1", "r2", "m"}
  Repos = {"A", "B"}
  Files = {"f"}
  Patched <- MCPatched
  Auxiliary <- MCAuxiliary
  Manifests <- MCManifests
  Depth = 3
  Workloads <- MCWorkloads
INVARIANTS SelectionNewest FootprintWhole TraversalIsolated
CHECK_DEADLOCK FALSE
