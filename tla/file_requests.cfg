CONSTANTS
  a = a
  b = b
  c = c
  r1 = r1
  r2 = r2
  Char <- MCChar
  Requests = {r1, r2}
  Absent = Absent
  Texts <- MCTexts
  Ops <- MCOps
SPECIFICATION Spec
INVARIANTS
  OnlyRequestedText
PROPERTIES
  UndisturbedIsExact
\* The requests may all be answered.
CHECK_DEADLOCK FALSE
