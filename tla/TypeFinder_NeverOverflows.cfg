SPECIFICATION Spec
CONSTANTS
  Programs <- LegalPrograms
  Identifiers <- Names
  NoType = "-"
  StackLimit = 30
  MaxQueries = 3
  Uncached = Uncached
INVARIANT NeverOverflows
