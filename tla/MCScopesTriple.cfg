\* hash_str of the one-letter names A, a, q, x and z
CONSTANTS
  Keys = {65, 97, 113, 120, 122}
  Values = {0, 1, 2, 3, 4, 255}
  Hash <- NameHash
  InitialCapacity = 16
  SizeofSizeT = 8
  SizeMax = 255
  MaxDepth = 1
SPECIFICATION GlobalFirstSpec
INVARIANT OwnSlot
CHECK_DEADLOCK FALSE
