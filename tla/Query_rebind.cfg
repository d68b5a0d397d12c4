SPECIFICATION Spec
CONSTANTS
  Readers = {"q"}
  Tags = {1, 2}
  Times = {1}
  Requests <- SomeRequests
  walFileSize = 2
  chunkCap = 2
  minIndexed = 1
  segmentSize = 2
  segmentSpan = 0
  maxReaders = 1
  values <- Values
  Texts = {3}
  WindowSizes = {1, 2}
  QueryLimits = {0, 1}
  MaxPoints = 4
  MaxQueries = 1
  MaxFaults = 0
INVARIANT ReadsBoundFile
CHECK_DEADLOCK FALSE
