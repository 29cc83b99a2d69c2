CONSTANTS
  tool = tool
  nested = nested
  NoCall = NoCall
  Calls = {tool, nested}
  Streaming = {tool}
  Parent <- MCParent
  ChannelCap = 1
  PipeCap = 2
  MaxChunks = 2
  Cancelable = TRUE
SPECIFICATION FairSpec
INVARIANTS
  NothingLost
PROPERTIES
  EveryCallReturns
CHECK_DEADLOCK FALSE
