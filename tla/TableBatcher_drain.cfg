SPECIFICATION Spec
CONSTANTS
  Writers = {w1}
  Flushers = {}
  Closers = {c1}
  Trigger = trigger
  None = none
  NumShards = 1
  QueueSize = 1
  MaxBatchSize = 1
  MaxAddBatch = 1
  MaxAdds = 1
  MaxFlushes = 1
  CommitMayFail = FALSE

INVARIANT AckedDrained
