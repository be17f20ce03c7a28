\* One run with a lost write or a crash, two replays and an edit.
SPECIFICATION Spec
CONSTANTS
  MaxMishaps = 1
  MaxReplays = 2
  MaxTampers = 1
  Limit = 8
INVARIANTS ShownClaimsJudged DowngradeDurable GateReplays
CHECK_DEADLOCK FALSE
