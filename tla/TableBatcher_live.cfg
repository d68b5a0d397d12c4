SPECIFICATION FairSpec
CONSTANTS
  Writers = {w1}
  Flushers = {f1}
  Closers = {c1}
  Trigger = trigger
  None = none
  NumShards = 2
  QueueSize = 1
  MaxBatchSize = 1
  MaxAddBatch = 1
  MaxAdds = 1
  MaxFlushes = 1
  CommitMayFail = TRUE

INVARIANTS TypeOK 
   
