CONSTANTS
  Calls <- MCCalls
  Disks <- MCDisks
  ChunkSize = 4
  WordBuffer = 6
  NumberBuffer = 4
  WordSize = 256
SPECIFICATION MCSpec
INVARIANT FileReadable
