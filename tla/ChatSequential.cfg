SPECIFICATION Spec
CONSTANTS
  Requests = {r1, r2, r3}
  Chunks = {c1}
  Subjects = {u1}
  NoSubject = NoSubject
  MaxTurns = 1
  SummaryRoom = 1
  SessionIds = {s1, s2}
  NoSession = NoSession
  Kinds = {"ask", "stream", "reset"}
  Lengths = {FALSE}
  Persistent = TRUE
  TopK = 1
  MaxImport = 1
  MaxInFlight = 1
  MaxCrashes = 1
SYMMETRY Symmetry
CHECK_DEADLOCK FALSE
INVARIANT Durable
INVARIANT ResetIsFinal
INVARIANT Grounded
