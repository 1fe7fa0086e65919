SPECIFICATION Spec
CONSTANTS
  Requests = {r1, r2, r3}
  Chunks = {c1}
  Subjects = {u1}
  NoSubject = NoSubject
  MaxTurns = 1
  SummaryRoom = 1
  SessionIds = {s1, s2}
  NoSession = NoSession
  Kinds = {"open", "ask", "answer", "reset"}
  Lengths = {FALSE}
  Persistent = FALSE
  TopK = 1
  MaxImport = 1
  MaxInFlight = 2
  MaxCrashes = 0
SYMMETRY Symmetry
CHECK_DEADLOCK FALSE
INVARIANT TypeOK
INVARIANT WindowsBounded
INVARIANT SessionIsolation
INVARIANT AnchorNeedsEvidence
