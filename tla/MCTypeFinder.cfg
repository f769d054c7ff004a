SPECIFICATION Spec
CONSTANTS
  Programs <- AllPrograms
  Identifiers <- Names
  NoType = "-"
  StackLimit = 30
  MaxQueries = 3
  Uncached = Uncached
INVARIANTS
  TypeOK
  CacheAgrees
  AnswersInferred
  CallsReportedOnce
  NotypeExplained
  OverflowOnlyOnCycle
PROPERTIES
  AnswersStand
  QueriesReturn
