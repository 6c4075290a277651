CONSTANTS
  k1 = k1
  k2 = k2
  k3 = k3
  s1 = s1
  s2 = s2
  s3 = s3
  None = None
  Calls = {k1, k2, k3}
  Sidecars = {s1, s2, s3}
SPECIFICATION LiveSpec
INVARIANTS
  OnlyTheHeldRuns
  NotConnectedMeansNothingRuns
PROPERTIES
  BadgeSettles
