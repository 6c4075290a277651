CONSTANTS
  s1 = s1
  r1 = r1
  r2 = r2
  None = None
  Sessions = {s1}
  Requests = {r1, r2}
  Keys = 2
  PipeSize = 1
  MaxOutput = 1
SPECIFICATION LiveSpec
INVARIANTS
  TypeOK
  ExitIsFinal
  PanicNeedsRaceOrCrossedLimits
  KeysAreTypedInOrder
  PollShowsWhatPrecededExit
PROPERTIES
  EveryRequestIsAnswered
\* Every request may be answered and every command over.
CHECK_DEADLOCK FALSE
