CONSTANTS
  c1 = c1
  c2 = c2
  Commands = {c1, c2}
  Pty = {c2}
  Yielding = {}
  Killable = {}
SPECIFICATION Spec
INVARIANTS
  TypeOK
  SecondOutcomeOnlyFromPtyTimer
  StopFindsLiveCommands
  RecordAgreesWithOutcome
PROPERTIES
  ExitRecordStable
  ImplementsSessionLife
\* The actuator may exit and every command may have ended.
CHECK_DEADLOCK FALSE
