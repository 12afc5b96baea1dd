CONSTANTS
  MaxRequests = 4
  PipeCapacity = 1
  HasWatchdog = TRUE
SPECIFICATION FairSpec
CHECK_DEADLOCK FALSE
INVARIANT TypeOK
INVARIANT HalfDuplex
INVARIANT OneReplyAtATime
INVARIANT SomethingToWaitFor
PROPERTY RequestAnswered
PROPERTY DestructorReturns
PROPERTY ImplementsSerialService
