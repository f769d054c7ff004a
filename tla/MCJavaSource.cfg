SPECIFICATION Spec
CONSTANTS
  Programs <- AllPrograms
  Identifiers <- Names
  NoType = "-"
INVARIANTS
  TypeOK
  PathsReach
  ObjectsLinked
  CallsFindMethods
  PrintedOnce
  FillsItsVariable
  ClassesSuitCode
  CompilersFollowScopes
PROPERTIES
  CompileReturns
