CONSTANTS
  a1 = a1
  a2 = a2
  ui = ui
  s1 = s1
  s2 = s2
  f = f
  g = g
  Questions = {a1, a2, ui}
  IsApproval <- MCIsApproval
  Session <- MCSession
  Fingerprint <- MCFingerprint
  Deadlines = {a1, ui}
  Reachable = {a1, a2}
  Posts = {p1, p2}
  p1 = p1
  p2 = p2
  Remembered = {g}
  Nothing = Nothing
SPECIFICATION FairAskSpec
INVARIANTS
  OnlyUsersPermit
PROPERTIES
  EveryQuestionEnds
CHECK_DEADLOCK FALSE
