\* One run on either store with a request to cancel it, and two executions
\* of one row.  The run may be resumed once, and one update of the database
\* may raise.  Three connections, one whose snapshot cannot be read and one
\* for an unknown goal, follow one execution that broadcasts two updates.
SPECIFICATION ActorsSpec
CONSTANTS
  Executors = {e1, e2}
  First = e1
  Cancellers = {c1}
  Durable = TRUE
  SourceKinds = {"local"}
  Failing = {"coding", "testing", "repairing", "reviewing"}
  MaxResumes = 1
  MaxCrashes = 0
  MaxFaults = 1
  Sockets = {s1, s2, s3}
  Unknown = {s3}
  Unread = {s2}
  Publishers = {p1}
  MaxVersion = 2
INVARIANTS VerdictIsTheGates ApprovedIsEarned Handled
PROPERTIES RunEnds NothingMissed
CHECK_DEADLOCK FALSE
