SPECIFICATION Spec
CONSTANTS
  Programs <- LoopPrograms
  Identifiers <- Names
  NoType = "-"
INVARIANTS
  LoopVariablesHoisted
