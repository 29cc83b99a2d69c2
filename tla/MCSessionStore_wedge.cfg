CONSTANTS
  Sessions = {s1, s2}
  Blobs = {}
  NoBlob = NoBlob
  NoSession = NoSession
  MaxEvents = 4
  Careful = FALSE
  ManualSpans = FALSE
SYMMETRY Symmetry
SPECIFICATION Spec
INVARIANTS
  AckedDurable
CHECK_DEADLOCK FALSE
