CONSTANTS
  Clients = {c1, c2}
  IdleTicks = 2
  MaxMints = 2
  MaxStreams = 2
SPECIFICATION Spec
INVARIANTS
  StreamKeepsLease
CHECK_DEADLOCK FALSE
