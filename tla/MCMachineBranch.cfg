CONSTANTS
  Programs <- BranchDeclares
  WordSize = 256
SPECIFICATION MCSpec
INVARIANT RejectsUndeclared
