CONSTANTS
  Clients = {c1}
  MaxSockets = 1
  MaxUnread = 2
  None = None
SPECIFICATION FairSpec
CHECK_DEADLOCK FALSE
PROPERTY DeadClientReaped
