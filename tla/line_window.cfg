CONSTANTS
  MaxLines = 3
  MaxFileSize = 4
  MaxInt = 7
  Nil = Nil
  LineTexts <- MCLineTexts
SPECIFICATION WindowSpec
INVARIANTS
  PanicsOnlyOnBadLimit
  RepliesWithAskedLines
  UntruncatedReachesEnd
\* A request has one reply.
CHECK_DEADLOCK FALSE
