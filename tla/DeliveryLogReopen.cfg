CONSTANTS
  Tasks = {t1, t2}
  Pruner = pruner
  Nobody = nobody
  Events = {small, large}
  SizeOf <- MCSizeOf
  RetentionSecs = 1
  MaxBytes = 3
  MaxEvents = 2
  Times <- MCTimes
  MaxBatch = 2
  MaxBegun = 2
  MaxCrashes = 1
SYMMETRY MCSymmetry
SPECIFICATION Spec
INVARIANTS SeqUnique
