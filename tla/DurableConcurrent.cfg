CONSTANTS
  Tasks = {t1, t2}
  Pruner = pruner
  Nobody = nobody
  Events = {mine, other}
  Matching = {mine}
  SizeOf <- MCSizeOf
  RetentionSecs = 1
  MaxBytes = 9
  MaxEvents = 9
  Times <- MCStill
  MaxBatch = 1
  MaxBegun = 2
  MaxCrashes = 0
  SubQueueLen = 1
  SubQueueBytes = 9
  DedupCapacity = 1
  PruneRacesReplay = FALSE
  MaxAppendErrors = 0
  MaxCancels = 0
  MaxPrunes = 0
  MaxLinkDrops = 0
  MaxClientCrashes = 0
SPECIFICATION Spec
CHECK_DEADLOCK FALSE
INVARIANTS NoSilentSkip
