------------------------------ MODULE TokenStore ------------------------------
(***************************************************************************)
(* The agent token across rotations, crashes and restarts: main reads the  *)
(* token file when it starts (cmd/actuator-g/main.go), handleTokenRotated  *)
(* takes a new token from the broker into memory and persistToken writes   *)
(* it to the file (internal/actuator/actuator.go).                         *)
(*                                                                         *)
(* Tokens are numbered in the order the broker issues them; 0 is the one   *)
(* in the environment. readLoop runs the handler itself, so the next       *)
(* rotation is read when the file has been written. os.WriteFile opens the *)
(* file and truncates it, then writes: two steps for whoever reads the     *)
(* file after a crash. Which tokens the broker still accepts is its own    *)
(* affair; the model lets the actuator connect with any.                   *)
(***************************************************************************)
EXTENDS Naturals, Sequences

CONSTANTS
  UseFile,    \* --token-file was given
  MaxToken,   \* bound: rotations
  Absent,     \* there is no token file
  Empty,      \* the file has no token in it
  Prefix,     \* it has the beginning of one
  NoToken     \* the memory of a process that is not running

ASSUME TokenAssumption ==
  /\ UseFile \in BOOLEAN
  /\ MaxToken \in Nat
  /\ {Absent, Empty, Prefix, NoToken} \cap Nat = {}
  /\ Absent # Empty /\ Prefix \notin {Absent, Empty, NoToken}

VARIABLES
  file,       \* what the token file holds
  main,       \* the process is "up" or "down"
  memory,     \* a.config.AgentToken
  conn,       \* a connection is being read
  inflight,   \* rotations on their way on it
  writing,    \* calls of persistToken under way
  unread,     \* history: main could not read the file, and no rotation came since
  issued,     \* history: the last token the broker issued
  persisted   \* history: the last token that persistToken wrote

vars == <<file, main, memory, conn, inflight, writing, unread, issued, persisted>>

Tokens == 0..MaxToken

Write == [token: Tokens, step: {"open", "write"}]

Init ==
  /\ file = Absent
  /\ main = "down"
  /\ memory = NoToken
  /\ conn = FALSE
  /\ inflight = <<>>
  /\ writing = {}
  /\ unread = FALSE
  /\ issued = 0
  /\ persisted = 0

-----------------------------------------------------------------------------
(* main and connect.                                                       *)

\* Mutant: the environment comes first.
StartFromEnvironment ==
  /\ main = "down"
  /\ main' = "up"
  /\ memory' = 0
  /\ UNCHANGED <<file, conn, inflight, writing, unread, issued, persisted>>

\* A token in the file, whole or not, overrides the one in the environment,
\* unless the file cannot be read: then nothing is said about it.
Start ==
  /\ main = "down"
  /\ main' = "up"
  /\ \/ /\ memory' = IF UseFile /\ file \in Tokens \cup {Prefix} THEN file ELSE 0
        /\ unread' = FALSE
     \/ /\ UseFile /\ file # Absent
        /\ memory' = 0
        /\ unread' = TRUE
  /\ UNCHANGED <<file, conn, inflight, writing, issued, persisted>>

\* connect and the loss of the connection. The thread that reads the old
\* connection comes back from its handler before there is a new one.
Connect ==
  /\ main = "up" /\ ~conn /\ writing = {}
  /\ conn' = TRUE
  /\ UNCHANGED <<file, main, memory, inflight, writing, unread, issued, persisted>>

LoseConnection ==
  /\ conn
  /\ conn' = FALSE
  /\ inflight' = <<>>
  /\ UNCHANGED <<file, main, memory, writing, unread, issued, persisted>>

\* The process ends, at any moment and for whatever reason.
Crash ==
  /\ main = "up"
  /\ main' = "down"
  /\ memory' = NoToken
  /\ conn' = FALSE
  /\ inflight' = <<>>
  /\ writing' = {}
  /\ unread' = FALSE
  /\ UNCHANGED <<file, issued, persisted>>

-----------------------------------------------------------------------------
(* Rotations.                                                              *)

\* The broker sends token_rotated.
Rotate ==
  /\ conn /\ issued < MaxToken
  /\ issued' = issued + 1
  /\ inflight' = Append(inflight, issued + 1)
  /\ UNCHANGED <<file, main, memory, conn, writing, unread, persisted>>

\* Mutant: the handler gets a goroutine of its own, as a wake does.
HandleTokenRotatedAtOnce ==
  /\ conn /\ inflight # <<>>
  /\ memory' = Head(inflight) /\ unread' = FALSE
  /\ inflight' = Tail(inflight)
  /\ writing' = writing \cup {[token |-> Head(inflight), step |-> "open"]}
  /\ UNCHANGED <<file, main, conn, issued, persisted>>

\* handleTokenRotated, down to persistToken. (An empty token changes nothing.)
HandleTokenRotated ==
  /\ conn /\ inflight # <<>> /\ writing = {}
  /\ memory' = Head(inflight) /\ unread' = FALSE
  /\ inflight' = Tail(inflight)
  /\ writing' = IF UseFile THEN {[token |-> Head(inflight), step |-> "open"]} ELSE {}
  /\ UNCHANGED <<file, main, conn, issued, persisted>>

\* persistToken: the file is opened and truncated, or it cannot be opened.
Truncate(w) ==
  /\ w \in writing /\ w.step = "open"
  /\ \/ /\ file' = Empty
        /\ writing' = (writing \ {w}) \cup {[w EXCEPT !.step = "write"]}
     \/ /\ writing' = writing \ {w}
        /\ UNCHANGED file
  /\ UNCHANGED <<main, memory, conn, inflight, unread, issued, persisted>>

\* Then the token is written, or nothing, or the first bytes of it.
Persist(w) ==
  /\ w \in writing /\ w.step = "write"
  /\ writing' = writing \ {w}
  /\ \/ file' = w.token /\ persisted' = w.token
     \/ file' \in {file, Prefix} /\ UNCHANGED persisted
  /\ UNCHANGED <<main, memory, conn, inflight, unread, issued>>

Next ==
  \/ Start \/ Connect \/ LoseConnection \/ Crash
  \/ Rotate \/ HandleTokenRotated
  \/ \E w \in writing : Truncate(w) \/ Persist(w)

Spec == Init /\ [][Next]_vars

-----------------------------------------------------------------------------
(* Properties.                                                             *)

TypeOK ==
  /\ file \in Tokens \cup {Absent, Empty, Prefix}
  /\ main \in {"up", "down"}
  /\ memory \in Tokens \cup {Prefix, NoToken}
  /\ conn \in BOOLEAN
  /\ inflight \in Seq(Tokens)
  /\ writing \subseteq Write
  /\ unread \in BOOLEAN
  /\ issued \in Tokens
  /\ persisted \in Tokens

(***************************************************************************)
(* The file never goes back to an older token, whatever crashed or failed  *)
(* before: rotations reach it in the order the broker issued them.         *)
(***************************************************************************)
FileGoesForward ==
  [][file' # file /\ file' \in Tokens => file' > persisted]_vars

(***************************************************************************)
(* The actuator works with the newest token that it persisted or a newer   *)
(* one, unless a later persistToken was cut off after truncating the file, *)
(* or this start could not read it and no rotation came since.             *)
(***************************************************************************)
NewestUnlessTornOrUnread ==
  main = "up" => \/ memory \in Tokens /\ memory >= persisted
                 \/ file \in {Empty, Prefix}
                 \/ unread
==============================================================================
