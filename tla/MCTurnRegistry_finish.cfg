CONSTANTS
  Sessions = {s1}
  Workers = {w1, w2, w3}
  Requests = {r1, r2, r3}
  MaxRounds = 1
  ClientRule = "TUI"
SYMMETRY Symmetry
SPECIFICATION Spec
PROPERTIES
  FinishReleasesOwn
CHECK_DEADLOCK FALSE
