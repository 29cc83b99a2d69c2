CONSTANTS
  s1 = s1
  s2 = s2
  k1 = k1
  l1 = l1
  l2 = l2
  Clients = {k1, l1, l2}
  Cli = {k1, l1}
  Servers = {s1, s2}
  None = None
  Old = Old
SPECIFICATION Spec
INVARIANTS
  StartingTogether
CHECK_DEADLOCK FALSE
