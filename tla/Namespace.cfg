CONSTANTS
  PlainTokens <- MCPlainTokens
  HmacPrefix = "hmac"
  Ids = {"github", "hmac", "teams", "x"}
  PathLists <- MCPathLists
  ChannelLists <- MCChannelLists
  Dispatches <- MCDispatches
  Channels <- MCChannels
  Subs = {s1}
  PatternLists <- MCPatternLists
  Tasks = {t1}
  Idle = idle
SPECIFICATION Spec
VIEW MCView
INVARIANTS OwnerUnique TablesExact PatternsSound AcceptedIsPublished
 
