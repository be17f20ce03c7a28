\* A session of up to three attempts on three paths, with one refused
\* system call; and a run over three repositories with one edit by another
\* program and one restart.
SPECIFICATION MCSpec
CONSTANTS
  Paths <- MCPaths
  Texts <- MCTexts
  Parent <- MCParent
  Root = "root"
  Patches <- MCPatches
  AllowDelete = TRUE
  EngineRepo = "repo"
  Registry = {"repo", "other"}
  NoRepo = "none"
  MaxFaults = 1
  RepairPatches <- MCRepairPatches
  Results <- MCResults
  Kind <- MCKind
  Traits <- MCTraits
  AllowTestEdits = FALSE
  AllowConfigEdits = FALSE
  MaxAttempts = 3
  MaxStalled = 2
  Services = {TRUE, FALSE}
  Checkouts = {"main", "lib", "app"}
  NotThere = {"gone"}
  MainCheckout = "main"
  Repos = {"main", "lib", "app"}
  MainRepo = "main"
  Versions = {"old", "new"}
  CodingChanges <- MCCodingChanges
  Submissions <- MCSubmissions
  Specs <- MCSpecs
  MaxEdits = 1
  MaxRestarts = 1
INVARIANTS AllOrNothing TestsKept PatchesLand EditsKept
PROPERTY RepairEnds
CHECK_DEADLOCK FALSE
