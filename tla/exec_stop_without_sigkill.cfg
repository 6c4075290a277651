CONSTANTS
  c1 = c1
  Commands = {c1}
  Pty = {}
  Yielding = {}
  Killable = {}
SPECIFICATION KillSpec
PROPERTIES
  SigtermIsFollowedBySigkill
\* The actuator may exit and every command may have ended.
CHECK_DEADLOCK FALSE
