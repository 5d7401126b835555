CONSTANTS
  Tasks = {t1}
  Pruner = pruner
  Nobody = nobody
  Events = {mine, other}
  Matching = {mine}
  SizeOf <- MCSizeOf
  RetentionSecs = 1
  MaxBytes = 9
  MaxEvents = 1
  Times <- MCStill
  MaxBatch = 1
  MaxBegun = 3
  MaxCrashes = 1
  SubQueueLen = 1
  SubQueueBytes = 9
  DedupCapacity = 1
  PruneRacesReplay = FALSE
  MaxAppendErrors = 0
  MaxCancels = 0
  MaxPrunes = 1
  MaxLinkDrops = 0
  MaxClientCrashes = 1
SPECIFICATION FairSpec
CHECK_DEADLOCK FALSE
INVARIANT NoSilentSkip
PROPERTIES ImplementsPromise EventuallyHandled
