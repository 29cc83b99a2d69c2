CONSTANTS
  Sessions = {s1, s2}
  Blobs = {}
  NoBlob = NoBlob
  NoSession = NoSession
  MaxEvents = 4
  Careful = TRUE
  ManualSpans = FALSE
SYMMETRY Symmetry
SPECIFICATION Spec
INVARIANTS
  CallsAlwaysPaired
CHECK_DEADLOCK FALSE
