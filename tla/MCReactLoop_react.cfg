CONSTANTS
  safe = safe
  unsafe = unsafe
  unknown = unknown
  off = off
  Tools = {safe, unsafe, unknown, off}
  Known = {safe, unsafe, off}
  ParallelSafe = {safe}
  Disabled = {off}
  Plugins = 2
  HasCompactor = TRUE
  TruncationAttempts = 1
  MaxContextReplans = 1
  MaxTurns = 2
  MaxCalls = 2
SPECIFICATION FairSpec
INVARIANTS
  CallsAnsweredInOrder
  ResultsAreTrue
  SpendBounded
PROPERTIES
  CancelEndsRun
CHECK_DEADLOCK FALSE
