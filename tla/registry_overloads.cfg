CONSTANTS
  Word = 32
  Collections = {k1}
  NameOf <- OneName
  Signatures <- Overloads
  ClassNames <- AName
  FunctionNames <- AName
  Arguments <- NoLists
  Results <- NoLists
  MaxCalls = 1
  NoFunction = NoFunction
SPECIFICATION Spec
CHECK_DEADLOCK FALSE
INVARIANT OverloadsCoexist
