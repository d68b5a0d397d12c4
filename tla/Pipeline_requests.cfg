SPECIFICATION FairSpec
CONSTANTS
  Handlers = {"h1", "h2"}
  Flushers = {"f1"}
  Tables = {"t","u"}
  streamBatchSize = 2
  batchSize = 1
  QueueFactor = 1
  MaxPoints = 2
  MaxFails = 1
INVARIANTS TypeOK ResponseCounts   FlushSees
PROPERTIES RequestReturns FlushReturns 
CHECK_DEADLOCK FALSE
