CONSTANTS
  Clients = {c1, c2}
  IdleTicks = 2
  MaxMints = 3
  MaxStreams = 2
SPECIFICATION FairSpec
INVARIANTS
  AttachedKeepsLease
PROPERTIES
  WritersSucceed
  NoSilentSteal
  AbandonedLeaseFrees
CHECK_DEADLOCK FALSE
