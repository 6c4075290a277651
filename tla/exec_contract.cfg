CONSTANTS
  c1 = c1
  Commands = {c1}
  Pty = {}
  Yielding = {c1}
  Killable = {c1}
SPECIFICATION LiveSpec
PROPERTIES
  ImplementsContract
\* The actuator may exit and every command may have ended.
CHECK_DEADLOCK FALSE
