------------------------------- MODULE BrokerLink -------------------------------
(***************************************************************************)
(* What the connection to the broker is for those who read its messages    *)
(* and send on it: a.conn, connections that come, break and are given up,  *)
(* and Stop. How they come (dials, backoff, timers) is in Connection,      *)
(* which implements this.                                                  *)
(***************************************************************************)

CONSTANTS
  Connections,  \* names of connections
  None          \* nil

VARIABLES
  conn,     \* a.conn, a connection or None
  up,       \* connections that carry messages
  readers,  \* connections whose readLoop runs
  stopped,  \* Stop was called
  late      \* a connection was adopted after that

vars == <<conn, up, readers, stopped, late>>

Init ==
  /\ conn = None
  /\ up = {}
  /\ readers = {}
  /\ stopped = FALSE
  /\ late = FALSE

Dial(c) ==
  /\ conn = None /\ readers = {}
  /\ up' = up \cup {c}
  /\ UNCHANGED <<conn, readers, stopped, late>>

\* It may have broken since. After Stop there is one dial to end, not more.
Adopt(c) ==
  /\ conn = None /\ readers = {}
  /\ stopped => ~late
  /\ conn' = c
  /\ readers' = {c}
  /\ late' = stopped
  /\ UNCHANGED <<up, stopped>>

Break(c) ==
  /\ c \in up
  /\ up' = up \ {c}
  /\ UNCHANGED <<conn, readers, stopped, late>>

\* Its readLoop finds it broken and ends.
Lose(c) ==
  /\ c \in readers \ up
  /\ conn' = None
  /\ readers' = readers \ {c}
  /\ UNCHANGED <<up, stopped, late>>

\* The readLoop of the connection is not told.
Stop ==
  /\ ~stopped
  /\ stopped' = TRUE
  /\ conn' = None
  /\ UNCHANGED <<up, readers, late>>

Next ==
  \/ \E c \in Connections : Dial(c) \/ Adopt(c) \/ Break(c) \/ Lose(c)
  \/ Stop

Spec == Init /\ [][Next]_vars
================================================================================
