SPECIFICATION Spec
CONSTANTS
  Files <- AllFiles
  MaxParses = 1
INVARIANT ZeroOnSuccess
