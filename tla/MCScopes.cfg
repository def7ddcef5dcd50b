CONSTANTS
  Keys = {0, 1, 8, 16}
  Values = {0, 1, 2, 3, 255}
  Hash <- NameHash
  InitialCapacity = 2
  SizeofSizeT = 8
  SizeMax = 255
  MaxDepth = 2
SPECIFICATION ShortChainsSpec
INVARIANTS SizeExact SlotsDense OwnSlot
PROPERTIES ImplementsLexicalScopes ImplementsDictionary
CHECK_DEADLOCK FALSE
