CONSTANTS
  a = a
  b = b
  Names = {a, b}
  Contents <- MCContents
  First <- MCFirst
  Manual = {"post"}
  Turns = {t1}
  t1 = t1
  MaxEdits = 2
  None = None
SPECIFICATION FairSpec
INVARIANTS
  ResolvesAlive
  NoLeak
PROPERTIES
  LastEditWins
CHECK_DEADLOCK FALSE
