CONSTANTS
  Tasks = {t1, t2}
  Pruner = pruner
  Nobody = nobody
  Events = {mine}
  Matching = {mine}
  SizeOf <- MCSizeOf
  RetentionSecs = 1
  MaxBytes = 9
  MaxEvents = 1
  Times <- MCTimes
  MaxBatch = 1
  MaxBegun = 2
  MaxCrashes = 0
  SubQueueLen = 1
  SubQueueBytes = 9
  DedupCapacity = 1
  PruneRacesReplay = TRUE
  MaxAppendErrors = 1
  MaxCancels = 1
  MaxPrunes = 1
  MaxLinkDrops = 1
  MaxClientCrashes = 1
SYMMETRY MCSymmetry
SPECIFICATION Spec
CHECK_DEADLOCK FALSE
INVARIANTS PersistBeforeDeliver CursorEarned
PROPERTIES OncePerRun
