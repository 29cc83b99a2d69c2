CONSTANTS
  Sessions = {s1, s2}
  Blobs = {b1}
  NoBlob = NoBlob
  NoSession = NoSession
  MaxEvents = 4
  Careful = TRUE
  ManualSpans = FALSE
SYMMETRY Symmetry
SPECIFICATION Spec
INVARIANTS
  MessagesAreReplay
  AckedDurable
  NothingForgotten
  PlanWellFormed
PROPERTIES
  ForkFaithful
CHECK_DEADLOCK FALSE
