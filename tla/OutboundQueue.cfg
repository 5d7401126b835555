CONSTANTS
  Pushers = {p1, p2}
  Nobody = nobody
  Sizes <- MCSizes
  SubQueueLen = 2
  SubQueueBytes = 3
  MaxPushes = 4
  MaxControls = 2
SPECIFICATION FairSpec
CHECK_DEADLOCK FALSE
INVARIANTS QueueSound DropsAccounted HoleAnnouncedFirst
PROPERTIES LoopIsPushEvent FramesMove
