CONSTANTS
  Threads = {t1, t2}
  Kinds <- SyncAndOwn
  MaxCalls = 3
  HasDisconnectCb = TRUE
  StopRaces = TRUE
SYMMETRY ThreadSymmetry
SPECIFICATION Spec
CHECK_DEADLOCK FALSE
INVARIANT TypeOK
INVARIANT SafetyInv
INVARIANT CalledAtMostOnce
INVARIANT AnswersInOrder
PROPERTY CallbackIntoLiveFrame
PROPERTY SilentAfterFalse
PROPERTY ImplementsContract
