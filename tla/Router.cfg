\* Two tasks that keep chatting and streaming over two providers.
SPECIFICATION FairSpec
CONSTANTS
  N = 2
  Callers = {c1, c2}
  Chains = {{1, 2}}
  Modes = {"chat", "stream"}
  Threshold = 2
  HalfOpenMax = 2
  MaxRetries = 1
  ResumeMax = 1
INVARIANTS BreakerSound
PROPERTIES CallEnds
