SPECIFICATION FairClientSpec
CONSTANTS
  Requests = {r1, r2}
  SessionIds = {s0, s1}
  Earlier = {s0}
  NoSession = NoSession
  LastPiece = 2
  Questions = {q1}
  NoQuestion = NoQuestion
  Tags = {}
  MaxInFlight = 2
  MaxRestarts = 0
  Presses = {"next"}
  Patient = TRUE
  MaxFaults = 1
  MaxTimers = 1
CHECK_DEADLOCK FALSE
INVARIANT SingleFlight
INVARIANT FreshView
INVARIANT QuestionRestored
INVARIANT SeenBeforeCompleted
PROPERTY LoadingEnds
