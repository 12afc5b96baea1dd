CONSTANTS
  Clients = {c1, c2}
  MaxSockets = 2
  MaxUnread = 2
  None = None
SPECIFICATION FairSpec
CHECK_DEADLOCK FALSE
INVARIANT TypeOK
INVARIANT HandlersBalanced
INVARIANT QuietAfterDisconnect
INVARIANT FinalizedIsQuiet
PROPERTY FinalizeReturns
PROPERTY ConnectedIsServed
PROPERTY DrainedClientReaped
