CONSTANTS
  Sessions = {s1}
  Workers = {w1, w2}
  Requests = {r1, r2, r3}
  MaxRounds = 2
  ClientRule = "careful"
SYMMETRY Symmetry
SPECIFICATION Spec
INVARIANTS
  RunningTurnKnown
  CallAnsweredNext
  NoSpurious409
  CompactionUnraced
CHECK_DEADLOCK FALSE
