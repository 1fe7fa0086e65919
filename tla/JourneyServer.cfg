SPECIFICATION Spec
CONSTANTS
  Requests = {r1, r2, r3, r4}
  SessionIds = {s1}
  NoSession = NoSession
  LastPiece = 2
  Questions = {}
  NoQuestion = NoQuestion
  Tags = {}
  MaxInFlight = 2
  MaxRestarts = 1
SYMMETRY Symmetry
CHECK_DEADLOCK FALSE
INVARIANT TypeOK
INVARIANT InOrder
 
INVARIANT MutationReported
