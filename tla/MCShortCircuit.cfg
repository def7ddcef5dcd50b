CONSTANTS
  MaxLeaves = 5
  CallDepth = 5
  Trees <- AllTrees
SPECIFICATION Spec
INVARIANTS JumpResolved JumpsForward ChainComplete
PROPERTIES ImplementsEvaluation Terminates
CHECK_DEADLOCK FALSE
