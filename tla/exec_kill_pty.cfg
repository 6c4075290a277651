CONSTANTS
  c1 = c1
  Commands = {c1}
  Pty = {c1}
  Yielding = {c1}
  Killable = {c1}
SPECIFICATION KillSpec
INVARIANTS
  ReportedSessionsExited
  CompletedMeansExitZero
PROPERTIES
  EscalationSparesReported
  KilledProcessDies
  EveryCommandAnswered
\* The actuator may exit and every command may have ended.
CHECK_DEADLOCK FALSE
