CONSTANTS
  Sessions = {s1}
  Workers = {w1, w2}
  Requests = {r1, r2, r3}
  MaxRounds = 1
  ClientRule = "any"
SYMMETRY Symmetry
SPECIFICATION Spec
INVARIANTS
  SlotHasLiveOwner
  IdleCountExact
CHECK_DEADLOCK FALSE
