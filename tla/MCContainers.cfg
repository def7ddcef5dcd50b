CONSTANTS
  Keys = {0, 2, 6, 8, 16}
  Values = {0, 1}
  Hash <- SplittingHash
  InitialCapacity = 2
  SizeofSizeT = 8
  Conditions <- ConditionsOfSome
  ListCapacity = 2
  Elements = {0, 1}
  Unset = 2
  SizeMax = 255
  MaxListSize = 5
SPECIFICATION MCSpec
INVARIANTS
  TypeOK Placement UniqueKeys SizeCountsUncounted LoadFactorWhenSmall
  SetAgrees NothingLost TableFinds
PROPERTIES WalksEnd ConditionDecides Answers TableImplementsDictionary ListIsSequence
\* The map is left as it is once an entry still linked has been freed, and
\* the list once its size has wrapped.
CHECK_DEADLOCK FALSE
