SPECIFICATION Spec
CONSTANTS
  Programs <- AllPrograms
  Identifiers <- Names
  NoType = "-"
INVARIANTS
  TypeOK
  CurrentIsInnermost
  ScopesAreLexical
  TableIsComplete
  LookupsAreLexical
PROPERTIES
  TablesOnlyGrow
