CONSTANTS
  Clients = {c1, c2}
  MaxSockets = 1
  MaxUnread = 0
  None = None
SPECIFICATION FairSpec
CHECK_DEADLOCK FALSE
PROPERTY EveryClientAdmitted
