CONSTANTS
  Threads = {t1}
  Kinds <- DefaultCbid
  MaxCalls = 2
  HasDisconnectCb = TRUE
  StopRaces = FALSE
SPECIFICATION FairSpec
CHECK_DEADLOCK FALSE
PROPERTY AcceptedIsAnswered
