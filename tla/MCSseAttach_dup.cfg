CONSTANTS
  Clients = {c1}
  Capacity = 2
  MaxEvents = 2
  MaxTransients = 1
  MaxConnects = 1
  Serial = TRUE
SPECIFICATION Spec
INVARIANTS
  NoDuplicate
CHECK_DEADLOCK FALSE
