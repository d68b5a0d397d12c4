SPECIFICATION Spec
CONSTANTS
  BlockSize = 3
  MaxUnits = 10
  MaxCrashes = 2
  MaxFails = 2
  MaxRestarts = 1
INVARIANTS TypeOK TxReadable NeverOverHeader BlocksKept
CHECK_DEADLOCK FALSE
