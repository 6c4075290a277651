CONSTANTS
  c1 = c1
  c2 = c2
  d1 = d1
  d2 = d2
  i1 = i1
  i2 = i2
  None = None
  Connections = {c1, c2}
  Deliveries = {d1, d2}
  Ids = {i1, i2}
SPECIFICATION LiveSpec
INVARIANTS
  LastingConnectionDelivers
  StopMissesOnlyDuplicates
PROPERTIES
  EveryDeliveryEnds
\* The process may exit.
CHECK_DEADLOCK FALSE
