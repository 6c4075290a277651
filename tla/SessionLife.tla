------------------------------- MODULE SessionLife -------------------------------
(***************************************************************************)
(* What the session of a command is for those who use it through the       *)
(* registry (internal/process/registry.go): how far its child is, and the  *)
(* fields Pid, Stdin and Exited. Which goroutines take these steps, with   *)
(* deadlines, kills and reports, is in ShellExec, which implements this;   *)
(* ProcessHandler is built on it.                                          *)
(***************************************************************************)

CONSTANT
  Sessions  \* names of sessions

VARIABLES
  terminals, \* the sessions that run on a PTY, the others on pipes
  child,     \* child[s]: how far the command of s is
  record     \* record[s]: the fields Pid, Stdin and Exited of the session

vars == <<terminals, child, record>>

Init ==
  /\ terminals \in SUBSET Sessions
  /\ child = [s \in Sessions |-> "absent"]
  /\ record = [s \in Sessions |-> [pid |-> FALSE, stdin |-> FALSE, exited |-> FALSE]]

\* Mutant: cmd.Wait leaves the writing end of stdin open.
InputClosedBySpawnOnly(s) == child[s] = "failed"

\* cmd.Wait, or a Start that failed, has closed the input of the child; the
\* waiter of a PTY command closes the PTY itself.
InputClosed(s) == child[s] \in {"failed", "reaped"}

Move(s, from, to) ==
  /\ child[s] \in from
  /\ child' = [child EXCEPT ![s] = to]

AddSession(s) ==
  /\ Move(s, {"absent"}, "added")
  /\ UNCHANGED <<terminals, record>>

\* StdinPipe: the session can be written to before the child is there.
OpenStdin(s) ==
  /\ s \notin terminals
  /\ Move(s, {"added"}, "open")
  /\ record' = [record EXCEPT ![s].stdin = TRUE]
  /\ UNCHANGED terminals

Start(s) ==
  /\ Move(s, {IF s \in terminals THEN "added" ELSE "open"}, "running")
  /\ UNCHANGED <<terminals, record>>

\* A pipe could not be made, or Start failed.
StartFails(s) ==
  /\ Move(s, {"added", "open"}, "failed")
  /\ UNCHANGED <<terminals, record>>

\* The launching goroutine stores Pid (and for a PTY Ptmx and Stdin).
Publish(s) ==
  /\ child[s] \in {"running", "zombie"} /\ ~record[s].pid
  /\ record' = [record EXCEPT ![s].pid = TRUE, ![s].stdin = @ \/ s \in terminals]
  /\ UNCHANGED <<terminals, child>>

\* By itself, by a kill, or at its deadline.
ChildExits(s) ==
  /\ Move(s, {"running"}, "zombie")
  /\ UNCHANGED <<terminals, record>>

\* cmd.Wait returns.
Reap(s) ==
  /\ record[s].pid
  /\ Move(s, {"zombie"}, "reaped")
  /\ UNCHANGED <<terminals, record>>

\* MarkExited: by the waiter, by the launching goroutine when Start failed,
\* and by the deadline timer of a PTY command, whose child may live on.
MarkExited(s) ==
  /\ InputClosed(s) \/ (s \in terminals /\ record[s].pid)
  /\ ~record[s].exited
  /\ record' = [record EXCEPT ![s].exited = TRUE, ![s].stdin = FALSE]
  /\ UNCHANGED <<terminals, child>>

\* A step of the goroutines that launch the command and wait for it.
Advance(s) == OpenStdin(s) \/ Start(s) \/ StartFails(s) \/ Publish(s) \/ Reap(s)

Next ==
  \E s \in Sessions : AddSession(s) \/ Advance(s) \/ ChildExits(s) \/ MarkExited(s)

Spec == Init /\ [][Next]_vars
================================================================================
