SPECIFICATION Spec
CONSTANTS
  Programs <- AllPrograms
  Identifiers <- Names
  NoType = "-"
INVARIANT NoForwardReference
