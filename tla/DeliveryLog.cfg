CONSTANTS
  Tasks = {t1, t2}
  Pruner = pruner
  Nobody = nobody
  Events = {small, large}
  SizeOf <- MCSizeOf
  RetentionSecs = 1
  MaxBytes = 3
  MaxEvents = 2
  Times <- MCTimes
  MaxBatch = 2
  MaxBegun = 3
  MaxCrashes = 1
SYMMETRY MCSymmetry
SPECIFICATION Spec
INVARIANTS Gapless WindowExact AckedIsReplayable SeqNeverReused
PROPERTIES PruneExact
