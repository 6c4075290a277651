CONSTANTS
  UseFile = TRUE
  MaxToken = 3
  Absent = Absent
  Empty = Empty
  Prefix = Prefix
  NoToken = NoToken
SPECIFICATION Spec
INVARIANTS
  NewestUnlessTornOrUnread
PROPERTIES
  FileGoesForward
