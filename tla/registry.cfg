CONSTANTS
  Word = 32
  Collections = {k1, k2}
  NameOf <- OneName
  Signatures <- Overloads
  ClassNames <- Names
  FunctionNames <- Names
  Arguments <- FewLists
  Results <- FewLists
  MaxCalls = 2
  NoFunction = NoFunction
SPECIFICATION Spec
CHECK_DEADLOCK FALSE
INVARIANT CallsArriveIntact
INVARIANT StreamsAligned
PROPERTY LookupIsStable
