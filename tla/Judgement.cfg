\* One goal of at most three iterations in the life of a process, one replan
\* and one repair: two pauses, resumes or answers, and one restart.
SPECIFICATION JudgementSpec
CONSTANTS
  Outcomes <- MCOutcomes
  Policies <- MCPolicies
  Limits <- MCLimits
  MaxRequests = 2
  MaxReloads = 1
INVARIANTS CompletionProved
PROPERTIES EnvironmentStops LoopSettles
CHECK_DEADLOCK FALSE
