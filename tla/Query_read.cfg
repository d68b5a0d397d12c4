SPECIFICATION Spec
CONSTANTS
  Readers = {"q"}
  Tags = {1, 2}
  Times = {1, 2}
  Requests <- SomeRequests
  walFileSize = 3
  chunkCap = 2
  minIndexed = 1
  segmentSize = 2
  segmentSpan = 0
  maxReaders = 1
  values <- Values
  Texts = {3}
  WindowSizes = {1, 2}
  QueryLimits = {0, 1}
  MaxPoints = 3
  MaxQueries = 2
  MaxFaults = 1
INVARIANTS QueryExact CacheFresh LatestFound WindowsRight
CHECK_DEADLOCK FALSE
