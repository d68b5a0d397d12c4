SPECIFICATION Spec
CONSTANTS
  Width = 4
  MaxValue = 3
  perWord = 2
  Base = 2
  MaxExp = 2
  byteBits = 2
  maxDictEntries = 2
  Columns <- BooleanColumn
INVARIANT PooledDecoders
