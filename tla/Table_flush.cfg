SPECIFICATION FairSpec
CONSTANTS
  MaxTags = 2
  Times = {1, 2}
  Configs <- AllConfigs
  MaxFileSize = 1
  MaxBatch = 2
  MaxReaders = 1
  MaxCrashes = 1
  MaxFails = 1
INVARIANTS TypeOK MetaBeforeWal Backpressure QuerySees Durable StreamOrdered 
CHECK_DEADLOCK FALSE
PROPERTY BatchReturns
