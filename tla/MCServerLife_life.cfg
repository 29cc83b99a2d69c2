CONSTANTS
  s1 = s1
  s2 = s2
  k1 = k1
  l1 = l1
  l2 = l2
  Clients = {k1, l1, l2}
  Cli = {k1}
  Servers = {s1, s2}
  None = None
  Old = Old
SPECIFICATION Spec
SYMMETRY Symmetric
INVARIANTS
  OneServer
  TokenFits
PROPERTIES
  GraceKept
CHECK_DEADLOCK FALSE
