SPECIFICATION Spec
CONSTANTS
  Strings <- Literals
  Ints <- Numbers
  LibraryNames <- Names
  Library <- Std
  Functions <- Mains
  MaxArguments = 1
  MaxBlock = 2
  MaxFunctions = 1
  MaxEmits = 1
  MaxPool = 17
  IndexLimit = 32
  ByteLimit = 8
INVARIANTS
  TypeOK
  ReferencesResolve
  EntriesShared
PROPERTIES
  PoolOnlyGrows
  Implements
