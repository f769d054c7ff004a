SPECIFICATION Spec
CONSTANTS
  Programs <- AllPrograms
  Identifiers <- Names
  NoType = "-"
  StackLimit = 60
  MaxQueries = 200
  Uncached = Uncached
INVARIANTS
  TypeOK
  BreaksReported
  CyclesReported
  OwnLoopVariablesKept
  ArgumentsMatch
  UsedNamesDeclared
PROPERTIES
  ListErrorsReturns
