CONSTANTS
  Threads = {t1, t2}
  Kinds <- SyncAndOwn
  MaxCalls = 2
  HasDisconnectCb = TRUE
  StopRaces = FALSE
SPECIFICATION FairSpec
CHECK_DEADLOCK FALSE
INVARIANT AnsweredBeforeNotified
INVARIANT NobodyLeftWaiting
PROPERTY SyncCallReturns
PROPERTY AcceptedIsAnswered
