SPECIFICATION Spec
CONSTANTS
  Requests = {r1, r2, r3}
  Chunks = {c1}
  Subjects = {u1}
  NoSubject = NoSubject
  MaxTurns = 1
  SummaryRoom = 1
  SessionIds = {s1, s2}
  NoSession = NoSession
  Kinds = {"open", "reset", "ask"}
  Lengths = {FALSE}
  Persistent = TRUE
  TopK = 1
  MaxImport = 0
  MaxInFlight = 2
  MaxCrashes = 1
SYMMETRY Symmetry
CHECK_DEADLOCK FALSE
INVARIANT ResetIsFinal
