CONSTANTS
  Callers = {c1, c2}
  MaxUid = 3
  LaterUid = 1
  MaxInc = 2
SPECIFICATION Spec
INVARIANTS
  TypeOK
  TurnTaking
  OwnReply
  PopsARequest
  StreamsUnmixed
PROPERTIES
  CallReturns
  DestructorReturns
CHECK_DEADLOCK FALSE
