CONSTANTS
  Clients = {c1}
  Capacity = 2
  MaxEvents = 4
  MaxTransients = 2
  MaxConnects = 3
  Serial = TRUE
SPECIFICATION FairSpec
INVARIANTS
  ResumeSafe
PROPERTIES
  ImplementsEventStream
  TransientsTrail
  EventuallyShown
CHECK_DEADLOCK FALSE
