CONSTANTS
  t1 = t1
  t2 = t2
  t3 = t3
  r1 = r1
  None = None
  Threads = {t1, t2, t3}
  First = t1
  Results = {r1}
  MaxPings = 2
  AttemptCap = 2
SPECIFICATION LiveSpec
INVARIANTS
  SingleChain
  PongsInOrder
  
PROPERTIES
  ConnectsAgain
  EverySendEnds
  ImplementsLink
\* The actuator may exit.
CHECK_DEADLOCK FALSE
