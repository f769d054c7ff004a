SPECIFICATION Spec
CONSTANTS
  Programs <- DocumentedPrograms
  Identifiers <- Names
  NoType = "-"
  StackLimit = 60
  MaxQueries = 200
  Uncached = Uncached
INVARIANT LoopVariablesKept
