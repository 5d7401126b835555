CONSTANTS
  PlainTokens = {"a", "x", "p"}
  Cands = {"a"}
  RegsOf <- MCRegsOf
  Configs <- MCConfigs
  Scans = {{"a"}, {}}
  Gens = {1, 2, 3}
  Crashing = {"a"}
  MaxThreshold = 2
  Shortest = 0
  Longest = 0
  MaxEvents = 3
  MaxStatus = 1
SPECIFICATION LockSpec
CHECK_DEADLOCK FALSE
INVARIANTS SingleProcess ClaimsFollowTheMap RoutedWhileReady StatusTrue BackoffAnswers503 RespawnRate
PROPERTY RecoversUnlessWedged
