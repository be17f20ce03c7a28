\* Plans of up to two commands, then a review of each case of the evidence.
SPECIFICATION Spec
CONSTANTS
  Workspaces <- MCWorkspaces
  Requests <- MCRequests
  Enabled = {"lint"}
  MaxCommands = 2
  Children <- MCChildren
  MaxOutput = 2
  PipeSize = 1
  MaxFaults = 1
  Reqs = {"r1", "r2"}
  Files <- MCFiles
  NoFile = "none"
  Answers <- MCAnswers
  RequireHuman = TRUE
  Cases <- MCCases
INVARIANTS ApprovedOnEvidence ModelOnlyTightens LostReportSameDecision
PROPERTIES RunReturns
CHECK_DEADLOCK FALSE
