CONSTANTS
  n1 = n1
  n2 = n2
  p1 = p1
  p2 = p2
  p3 = p3
  r1 = r1
  r2 = r2
  s1 = s1
  None = None
  MaxDeclares = 1
  Names = {n1, n2}
  Configured <- MCConfigured
  Tools = {"t", "u"}
  Hellos <- MCHellos
  Decls <- MCDecls
  Procs = {p1, p2, p3}
  Requests = {r1, r2}
  Scans = {s1}
SYMMETRY MCSymmetry
SPECIFICATION RegistrySpec
INVARIANTS
  StateIsHonest
  NoOrphan
  RegistryInStep
  NoCrashSilenced
CHECK_DEADLOCK FALSE
