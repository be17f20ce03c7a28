\* One goal under a budget of two iterations: two further requests from the
\* server or the CLI, one restart of the server, one failing database call.
SPECIFICATION Spec
CONSTANTS
  Requests = {r1, r2}
  Kinds = {"plain", "vague", "alone"}
  Shows = {"proven", "met", "failing"}
  MaxIterations = 2
  MaxReplans = 1
  MaxRepairs = 1
  MaxRuns = 1
  MaxCalls = 2
  MaxRestarts = 1
  MaxFaults = 1
INVARIANTS CancelStops IterationsBounded CompletionShown
CHECK_DEADLOCK FALSE
SYMMETRY Symmetry
