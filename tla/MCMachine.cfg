CONSTANTS
  Programs <- MCPrograms
  WordSize = 256
SPECIFICATION MCSpec
INVARIANTS RejectsUndeclared StoresAgree JumpsLinked BlocksOwned StackBalanced
PROPERTY Halts
