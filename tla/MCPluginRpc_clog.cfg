CONSTANTS
  tool = tool
  nested = nested
  NoCall = NoCall
  Calls = {tool, nested}
  Streaming = {tool}
  Parent <- MCParent
  ChannelCap = 1
  PipeCap = 1
  MaxChunks = 2
  Cancelable = TRUE
SPECIFICATION FairSpec
PROPERTIES
  HookCutAtBudget
CHECK_DEADLOCK FALSE
