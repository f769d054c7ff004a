SPECIFICATION Spec
CONSTANTS
  Files <- AllFiles
  MaxParses = 2
INVARIANTS
  TypeOK
  DepthTellsCondition
  CleanParsesReadTheFile
  LeftoversExplained
PROPERTIES
  ParseReturns
