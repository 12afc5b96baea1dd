CONSTANTS
  Word = 32
  Collections = {k1}
  NameOf <- OneName
  Signatures <- OneFunction
  ClassNames <- AName
  FunctionNames <- ItsName
  Arguments <- AllLists
  Results <- AllLists
  MaxCalls = 1
  NoFunction = NoFunction
SPECIFICATION Spec
CHECK_DEADLOCK FALSE
INVARIANT TypeOK
INVARIANT CallsArriveIntact
INVARIANT ErrorsAreRecognisable
