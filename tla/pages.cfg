\* A walk over a table of up to four rows, in pages of one or two.
SPECIFICATION Spec
CONSTANTS
  AnyProvider = any
  p1 = p1
  p2 = p2
  MCRows = 4
  ProviderOf <- MCProviderOf
  MaxRows = 4
  MaxSize = 2
  Offsets <- MCOffsets
INVARIANTS NothingSkipped NothingRepeated
PROPERTIES WalkEnds
\* A walk is over and nothing more need happen.
CHECK_DEADLOCK FALSE
