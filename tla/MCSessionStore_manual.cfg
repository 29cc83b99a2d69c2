CONSTANTS
  Sessions = {s1, s2}
  Blobs = {}
  NoBlob = NoBlob
  NoSession = NoSession
  MaxEvents = 4
  Careful = TRUE
  ManualSpans = TRUE
SYMMETRY Symmetry
SPECIFICATION Spec
INVARIANTS
  NothingForgotten
CHECK_DEADLOCK FALSE
