CONSTANTS
  Reqs = {r1, r2}
  None = none
  Limits <- MCLimits
  Capacity = 1
SPECIFICATION FairSpec
CHECK_DEADLOCK FALSE
INVARIANTS PermitsExact NoOrphans DrainSound HangReported
PROPERTIES Answered
