CONSTANTS
  Chunk = 5
  Header = 1
  Capacity = 12
  MaxBody = 24
SPECIFICATION Spec
INVARIANT WholeUnlessOvertaken
PROPERTY Delivered
CHECK_DEADLOCK FALSE
