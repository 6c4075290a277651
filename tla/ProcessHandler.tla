----------------------------- MODULE ProcessHandler -----------------------------
(***************************************************************************)
(* Process requests (list, poll, log, write, send-keys, resize and kill:   *)
(* internal/executor/process.go) against the sessions of the registry      *)
(* (internal/process/registry.go), while the commands that own these       *)
(* sessions are launched, read, killed at their deadline and reaped        *)
(* (internal/executor/shell.go, shell_pty.go).                             *)
(*                                                                         *)
(* A request is handled by a goroutine of its own. It reads session.Exited *)
(* and session.Stdin without the lock of the session, Stdin twice for each *)
(* write; MarkExited sets the one and clears the other under that lock. A  *)
(* method call on the nil Stdin panics, and no goroutine recovers; nor     *)
(* does one from the slice of a log whose limits are crossed (LineWindow). *)
(***************************************************************************)
EXTENDS Naturals, Sequences, FiniteSets

CONSTANTS
  Sessions,   \* names of sessions
  Requests,   \* process requests
  None,       \* no request
  Keys,       \* keys in a send-keys request
  PipeSize,   \* bound: what fits into the input of a child
  MaxOutput   \* bound: chunks of output of a session

ASSUME HandlerAssumption ==
  /\ None \notin Requests
  /\ Keys \in Nat \ {0}
  /\ PipeSize \in Nat \ {0}
  /\ MaxOutput \in Nat

VARIABLES
  terminals, child, record,  \* the sessions, see SessionLife
  output,  \* output[s]: chunks appended to the session
  unread,  \* unread[s]: keys in the input of the child
  pc,      \* pc[r]: where the handler of r stands
  ask,     \* ask[r]: what r asks for, and of which session
  count,   \* count[r]: keys written for r
  todo,    \* todo[r]: sessions that a list has still to describe
  reply,   \* reply[r]: "none" yet, "ok" or "error"
  shown,   \* shown[r]: what the reply says of each session
  seen,    \* seen[r]: the output it shows, None before it was read
  victim,  \* the request whose handler panicked, or None
  typed,   \* history: the keys that each input took, in order
  owed,    \* history: output[s] when the session was marked exited
  dead     \* history: sessions marked exited when the request arrived

sessionVars == <<terminals, child, record, output, unread>>
requestVars == <<pc, ask, count, todo, reply, shown, seen>>
vars == <<sessionVars, requestVars, victim, typed, owed, dead>>

Life == INSTANCE SessionLife

Commands == {"write", "send-keys", "resize", "kill"}
Queries == {"list", "poll", "log"}

\* A log is crossed when its limit is negative or, with the offset, above the
\* largest int: then the lines asked for may end before they begin.
Request ==
  {a \in [action : Commands \cup Queries \cup {"malformed"}, session : Sessions, crossed : BOOLEAN] :
     a.crossed => a.action = "log"}

Init ==
  /\ Life!Init
  /\ output = [s \in Sessions |-> 0]
  /\ unread = [s \in Sessions |-> 0]
  /\ pc = [r \in Requests |-> "idle"]
  /\ ask = [r \in Requests |-> None]
  /\ count = [r \in Requests |-> 0]
  /\ todo = [r \in Requests |-> {}]
  /\ reply = [r \in Requests |-> "none"]
  /\ shown = [r \in Requests |-> [s \in Sessions |-> "none"]]
  /\ seen = [r \in Requests |-> None]
  /\ victim = None
  /\ typed = [s \in Sessions |-> <<>>]
  /\ owed = [s \in Sessions |-> 0]
  /\ dead = [r \in Requests |-> {}]

-----------------------------------------------------------------------------
(* A command and its session.                                              *)

\* Whoever launches a command leaves the requests alone.
aside == <<output, unread, requestVars, victim, typed, dead>>

AddSession(s) == Life!AddSession(s) /\ UNCHANGED <<aside, owed>>

Advance(s) == Life!Advance(s) /\ UNCHANGED <<aside, owed>>

ChildExits(s) == Life!ChildExits(s) /\ UNCHANGED <<aside, owed>>

MarkExited(s) ==
  /\ Life!MarkExited(s)
  /\ owed' = [owed EXCEPT ![s] = output[s]]
  /\ UNCHANGED aside

ChildReads(s) ==
  /\ child[s] = "running" /\ unread[s] > 0
  /\ unread' = [unread EXCEPT ![s] = @ - 1]
  /\ UNCHANGED <<terminals, child, record, output, requestVars, victim, typed, owed, dead>>

\* AppendOutput; a reader may hold a chunk when the command is long over.
AppendOutput(s) ==
  /\ record[s].pid /\ output[s] < MaxOutput
  /\ output' = [output EXCEPT ![s] = @ + 1]
  /\ UNCHANGED <<terminals, child, record, unread, requestVars, victim, typed, owed, dead>>

-----------------------------------------------------------------------------
(* A request. Go is a step of its handler, Finish the last one.            *)

Go(r, from, to) ==
  /\ pc[r] = from
  /\ pc' = [pc EXCEPT ![r] = to]

Finish(r, from, answer) ==
  /\ Go(r, from, "done")
  /\ reply' = [reply EXCEPT ![r] = answer]

Panic(r, from) ==
  /\ Go(r, from, "panic")
  /\ victim' = r
  /\ UNCHANGED reply

Registered(s) == child[s] # "absent"

\* The request arrives; an unknown action or a missing field is refused.
Arrive(r) ==
  /\ pc[r] = "idle"
  /\ \E a \in Request :
       /\ ask' = [ask EXCEPT ![r] = a]
       /\ IF a.action = "malformed"
            THEN Finish(r, "idle", "error")
            ELSE /\ Go(r, "idle", IF a.action = "list" THEN "list" ELSE "find")
                 /\ UNCHANGED reply
  /\ dead' = [dead EXCEPT ![r] = {s \in Sessions : record[s].exited}]
  /\ UNCHANGED <<sessionVars, count, todo, shown, seen, victim, typed, owed>>

\* Mutant: kill does not look at Exited.
RefusedButKill(r) ==
  LET s == ask[r].session IN
  ~Registered(s) \/ (ask[r].action \in {"write", "send-keys", "resize"} /\ record[s].exited)

\* GetSession finds nothing, or a command is for a session that is over.
Refused(r) ==
  LET s == ask[r].session IN
  ~Registered(s) \/ (ask[r].action \in Commands /\ record[s].exited)

\* Mutant: a poll reads the tail before the info.
FirstTailFirst(action) ==
  CASE action \in {"poll", "log"} -> "output"
    [] action \in {"write", "send-keys"} -> "test"
    [] OTHER -> "act"

\* What the handler does once it has found the session.
First(action) ==
  CASE action = "poll" -> "info"
    [] action = "log" -> "output"
    [] action \in {"write", "send-keys"} -> "test"
    [] OTHER -> "act"

\* GetSession, and for a command the test of session.Exited.
Find(r) ==
  /\ IF Refused(r)
       THEN Finish(r, "find", "error")
       ELSE Go(r, "find", First(ask[r].action)) /\ UNCHANGED reply
  /\ UNCHANGED <<sessionVars, ask, count, todo, shown, seen, victim, typed, owed, dead>>

\* Mutant: WriteToSession does not test session.Stdin.
TestNothing(r) ==
  /\ Go(r, "test", "load")
  /\ UNCHANGED <<sessionVars, ask, count, todo, reply, shown, seen, victim, typed, owed, dead>>

\* WriteToSession tests session.Stdin.
TestStdin(r) ==
  /\ IF record[ask[r].session].stdin
       THEN Go(r, "test", "load") /\ UNCHANGED reply
       ELSE Finish(r, "test", "error")
  /\ UNCHANGED <<sessionVars, ask, count, todo, shown, seen, victim, typed, owed, dead>>

\* WriteToSession loads session.Stdin for the call. Of a nil interface the
\* call panics; of one that is being cleared it may see the type and no file,
\* whose Write is an error.
LoadStdin(r) ==
  /\ IF record[ask[r].session].stdin
       THEN Go(r, "load", "write") /\ UNCHANGED <<reply, victim>>
       ELSE \/ Finish(r, "load", "error") /\ UNCHANGED victim
            \/ Panic(r, "load")
  /\ UNCHANGED <<sessionVars, ask, count, todo, shown, seen, typed, owed, dead>>

\* Mutant: send-keys writes one key too many.
KeysAndOne(r) == IF ask[r].action = "write" THEN 1 ELSE Keys + 1

\* The data of a write counts as one key.
KeysOf(r) == IF ask[r].action = "write" THEN 1 ELSE Keys

\* The key is taken, and the next one is due.
Write(r) ==
  LET s == ask[r].session IN
  /\ ~Life!InputClosed(s) /\ unread[s] < PipeSize
  /\ Go(r, "write", IF count[r] + 1 = KeysOf(r) THEN "info" ELSE "test")
  /\ count' = [count EXCEPT ![r] = @ + 1]
  /\ unread' = [unread EXCEPT ![s] = @ + 1]
  /\ typed' = [typed EXCEPT ![s] = Append(@, <<r, count[r] + 1>>)]
  /\ UNCHANGED <<terminals, child, record, output, ask, todo, reply, shown, seen, victim, owed, dead>>

\* Mutant: send-keys goes on with the next key.
WriteFailsAndGoesOn(r) ==
  /\ Life!InputClosed(ask[r].session)
  /\ Go(r, "write", IF count[r] + 1 = KeysOf(r) THEN "info" ELSE "test")
  /\ count' = [count EXCEPT ![r] = @ + 1]
  /\ UNCHANGED <<sessionVars, ask, todo, reply, shown, seen, victim, typed, owed, dead>>

\* The input is closed: Write, one that is blocked too, returns an error.
WriteFails(r) ==
  /\ Life!InputClosed(ask[r].session)
  /\ Finish(r, "write", "error")
  /\ UNCHANGED <<sessionVars, ask, count, todo, shown, seen, victim, typed, owed, dead>>

\* The child is dead and no descendant holds the other end.
WriteBreaks(r) ==
  /\ Finish(r, "write", "error")
  /\ child[ask[r].session] = "zombie"
  /\ UNCHANGED <<sessionVars, ask, count, todo, shown, seen, victim, typed, owed, dead>>

\* ResizePTY, while the PTY is open.
Resize(r) ==
  LET s == ask[r].session IN
  /\ ask[r].action = "resize"
  /\ IF s \in terminals /\ record[s].pid /\ ~Life!InputClosed(s)
       THEN Go(r, "act", "info") /\ UNCHANGED reply
       ELSE Finish(r, "act", "error")
  /\ UNCHANGED <<sessionVars, ask, count, todo, shown, seen, victim, typed, owed, dead>>

\* KillSession: without a Pid, or when the process is no more, it fails,
\* unless the number belongs to another one by now. What the SIGTERM and the
\* SIGKILL five seconds later do is in ShellExec.
Kill(r) ==
  LET s == ask[r].session IN
  /\ ask[r].action = "kill"
  /\ \/ record[s].pid /\ Go(r, "act", "info") /\ UNCHANGED reply
     \/ (record[s].pid => child[s] = "reaped") /\ Finish(r, "act", "error")
  /\ UNCHANGED <<sessionVars, ask, count, todo, shown, seen, victim, typed, owed, dead>>

Status(s) == IF record[s].exited THEN "exited" ELSE "alive"

\* ToProcessInfo: the end of a command and of a log, the start of a poll.
Inform(r) ==
  /\ shown' = [shown EXCEPT ![r][ask[r].session] = Status(ask[r].session)]
  /\ IF ask[r].action = "poll" /\ seen[r] = None
       THEN Go(r, "info", "output") /\ UNCHANGED reply
       ELSE Finish(r, "info", "ok")
  /\ UNCHANGED <<sessionVars, ask, count, todo, seen, victim, typed, owed, dead>>

\* Tail and GetOutput, of which a log cuts out its lines: these may not be
\* there when it is crossed, depending on the text.
ReadOutput(r) ==
  /\ seen' = [seen EXCEPT ![r] = output[ask[r].session]]
  /\ \/ /\ UNCHANGED victim
        /\ IF shown[r][ask[r].session] = "none"
             THEN Go(r, "output", "info") /\ UNCHANGED reply
             ELSE Finish(r, "output", "ok")
     \/ ask[r].crossed /\ Panic(r, "output")
  /\ UNCHANGED <<sessionVars, ask, count, todo, shown, typed, owed, dead>>

\* ListSessions: the sessions that are in the registry now.
ListSessions(r) ==
  /\ Go(r, "list", "listing")
  /\ todo' = [todo EXCEPT ![r] = {s \in Sessions : Registered(s)}]
  /\ UNCHANGED <<sessionVars, ask, count, reply, shown, seen, victim, typed, owed, dead>>

\* Their infos, one after the other.
DescribeNext(r) ==
  /\ pc[r] = "listing"
  /\ \E s \in todo[r] :
       /\ todo' = [todo EXCEPT ![r] = @ \ {s}]
       /\ shown' = [shown EXCEPT ![r][s] = Status(s)]
  /\ UNCHANGED <<sessionVars, pc, ask, count, reply, seen, victim, typed, owed, dead>>

ListEnds(r) ==
  /\ todo[r] = {}
  /\ Finish(r, "listing", "ok")
  /\ UNCHANGED <<sessionVars, ask, count, todo, shown, seen, victim, typed, owed, dead>>

-----------------------------------------------------------------------------
\* A step that the handler of r can take whatever the child does.
Handler(r) ==
  /\ pc[r] # "idle"
  /\ \/ Find(r)
     \/ TestStdin(r) \/ LoadStdin(r) \/ Write(r) \/ WriteFails(r)
     \/ Resize(r) \/ Kill(r)
     \/ Inform(r) \/ ReadOutput(r)
     \/ ListSessions(r) \/ DescribeNext(r) \/ ListEnds(r)

\* A step of the goroutines that launch the command of s and wait for it.
Executor(s) == Advance(s) \/ (Life!InputClosed(s) /\ MarkExited(s))

\* A panic ends the process.
Next ==
  /\ victim = None
  /\ \/ \E s \in Sessions :
          \/ AddSession(s) \/ Executor(s) \/ MarkExited(s)
          \/ ChildReads(s) \/ ChildExits(s) \/ AppendOutput(s)
     \/ \E r \in Requests : Arrive(r) \/ Handler(r) \/ WriteBreaks(r)

Spec == Init /\ [][Next]_vars

(***************************************************************************)
(* Fairness: the goroutines run, and no child outlives its deadline, an    *)
(* hour at most. Nothing makes a child read its input, so that a write may *)
(* wait for that deadline.                                                 *)
(***************************************************************************)
LiveSpec ==
  /\ Spec
  /\ \A r \in Requests : WF_vars(victim = None /\ Handler(r))
  /\ \A s \in Sessions : /\ WF_vars(victim = None /\ Executor(s))
                         /\ WF_vars(victim = None /\ ChildExits(s))

-----------------------------------------------------------------------------
(* Properties.                                                             *)

TypeOK ==
  /\ terminals \subseteq Sessions
  /\ child \in [Sessions -> {"absent", "added", "open", "failed", "running", "zombie", "reaped"}]
  /\ record \in [Sessions -> [pid : BOOLEAN, stdin : BOOLEAN, exited : BOOLEAN]]
  /\ output \in [Sessions -> 0..MaxOutput]
  /\ unread \in [Sessions -> 0..PipeSize]
  /\ pc \in [Requests -> {"idle", "find", "test", "load", "write", "act", "info", "output",
                          "list", "listing", "panic", "done"}]
  /\ ask \in [Requests -> Request \cup {None}]
  /\ count \in [Requests -> 0..Keys]
  /\ todo \in [Requests -> SUBSET Sessions]
  /\ reply \in [Requests -> {"none", "ok", "error"}]
  /\ shown \in [Requests -> [Sessions -> {"none", "alive", "exited"}]]
  /\ seen \in [Requests -> 0..MaxOutput \cup {None}]
  /\ victim \in Requests \cup {None}
  /\ typed \in [Sessions -> Seq(Requests \X (1..Keys))]
  /\ owed \in [Sessions -> 0..MaxOutput]
  /\ dead \in [Requests -> SUBSET Sessions]

(***************************************************************************)
(* The exit of a session is final: a request that arrives after it is told *)
(* so. Commands are refused, even when the deadline of a PTY command was   *)
(* recorded and its child still runs; queries show the exit.               *)
(***************************************************************************)
ExitIsFinal ==
  \A r \in Requests : \A s \in dead[r] :
    /\ shown[r][s] # "alive"
    /\ ask[r].session = s /\ ask[r].action \in Commands => reply[r] # "ok"

(***************************************************************************)
(* A request can make the process panic in two ways only: as a log whose   *)
(* limits are crossed, or while it types into a session whose exit is      *)
(* recorded after the request has arrived. So neither a command that is    *)
(* still being launched nor one that is long over is in danger from what   *)
(* is typed.                                                               *)
(***************************************************************************)
PanicNeedsRaceOrCrossedLimits ==
  victim # None =>
    LET a == ask[victim] IN
    IF a.action = "log"
      THEN a.crossed
      ELSE /\ a.action \in {"write", "send-keys"}
           /\ record[a.session].exited /\ a.session \notin dead[victim]

\* The places of the keys of r among those that an input took.
PlacesOf(r, keys) == {p \in 1..Len(keys) : keys[p][1] = r}

\* They are typed in order and from the first one on.
InOrder(r, keys) ==
  \A p \in PlacesOf(r, keys) :
    keys[p] = <<r, Cardinality({q \in PlacesOf(r, keys) : q <= p})>>

(***************************************************************************)
(* However requests mix in one input, each one's keys are typed in order   *)
(* and from the first one on, into its session only, and all of them if    *)
(* the answer is no error.                                                 *)
(***************************************************************************)
KeysAreTypedInOrder ==
  \A r \in Requests : \A s \in Sessions :
    /\ InOrder(r, typed[s])
    /\ PlacesOf(r, typed[s]) # {} => s = ask[r].session
    /\ reply[r] = "ok" /\ s = ask[r].session /\ ask[r].action \in {"write", "send-keys"}
         => Cardinality(PlacesOf(r, typed[s])) = KeysOf(r)

(***************************************************************************)
(* A poll that shows the exit read the output after it: the tail it shows  *)
(* is not older than what had been appended when the exit was recorded.    *)
(* (A log takes the output before the info. Either may still miss what is  *)
(* appended after MarkExited, and a poll all but the last of the text.)    *)
(***************************************************************************)
PollShowsWhatPrecededExit ==
  \A r \in Requests :
    LET s == ask[r].session IN
    ask[r] # None /\ ask[r].action = "poll" /\ reply[r] = "ok" /\ shown[r][s] = "exited"
      => seen[r] >= owed[s]

(***************************************************************************)
(* Every request is answered, unless the process dies: also one that waits *)
(* to write to a child that does not read.                                 *)
(***************************************************************************)
EveryRequestIsAnswered ==
  \A r \in Requests : pc[r] # "idle" ~> pc[r] = "done" \/ victim # None
================================================================================
