CONSTANTS
  Sessions = {s1}
  Workers = {w1, w2}
  Requests = {r1, r2}
  MaxRounds = 2
  ClientRule = "careful"
SYMMETRY Symmetry
SPECIFICATION Spec
INVARIANTS
  SteerDelivered
CHECK_DEADLOCK FALSE
