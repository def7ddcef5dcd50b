CONSTANTS
  Programs <- PlainBodies
  WordSize = 256
SPECIFICATION MCSpec
INVARIANT StoresAgree
