CONSTANTS
  Files <- PiecedFiles
  ChunkSize = 3
  WordBuffer = 6
  NumberBuffer = 4
SPECIFICATION MCSpec
INVARIANTS TokensExact PositionsExact TextsFit
PROPERTY Finishes
