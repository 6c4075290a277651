CONSTANTS
  stdout = stdout
  stderr = stderr
  Streams = {stdout, stderr}
  Terminal = stdout
  MaxWritten = 3
  MaxOutputChars = 3
  TailChars = 2
  Torn = Torn
SPECIFICATION LiveSpec
INVARIANTS
  SessionKeepsNewest
  ResultIsLogged
PROPERTIES
  ReadersEnd
\* The command may be over.
CHECK_DEADLOCK FALSE
