CONSTANTS
  tool = tool
  nested = nested
  NoCall = NoCall
  Top = Top
  NoTurn = NoTurn
  Calls = {tool, nested}
  Streaming = {tool}
  Prompts = {tool}
  Parent <- MCParent
  ChannelCap = 1
  PipeCap = 1
  MaxChunks = 1
  Cancelable = TRUE
SPECIFICATION AgentSpec
INVARIANT ObservesParent
CHECK_DEADLOCK FALSE
