\* One planning with any answer of the model, one index with two edits, one
\* file parsed, one context while runs and goals end.
SPECIFICATION PreparationSpec
CONSTANTS
  Responses <- AllResponses
  BuildLimit = 3
  MaxSteps = 4
  PlanAttempts = 2
  TaskAttempts = 2
  SourceFiles <- MCSourceFiles
  WiredFiles = {"app", "util"}
  SourceTexts = {"defines", "imports", "broken", "large"}
  Finds <- MCFinds
  FirstTrees <- MCFirstTrees
  FullName <- MCFullName
  ModuleText <- MCModuleText
  Packages = {"core"}
  MaxParsed = 2
  MaxFanOut = 2
  MaxVisited = 4
  Depths = {1, 2}
  MaxTreeEdits = 2
  MaxParserFailures = 1
  MaxSaves = 2
  SourceCodes <- AllSources
  Occasions <- MCOccasions
  Sessions = {"s1", "s2"}
  Retirements <- MCRetirements
  MemoryLimit = 1
  MinConfidence = 30
  Available = 4000
  MaxRetirements = 2
INVARIANTS PlanIsExecutable CycleIsReal GraphExact ImpactFindsCallers FileGraphSound ContextSound
PROPERTIES PlanningEnds RetiredStaysRetired
CHECK_DEADLOCK FALSE
