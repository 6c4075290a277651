-------------------------------- MODULE Dispatch --------------------------------
(***************************************************************************)
(* From a message of the broker to its answer: readLoop hands commands and *)
(* wakes to goroutines of their own (handleCommand, handleWake), commands  *)
(* end in sendResult, and Stop kills what is in activeCommands             *)
(* (internal/actuator/actuator.go).                                        *)
(*                                                                         *)
(* The connection is the one of BrokerLink, which Connection implements.   *)
(* What a command does is left to the modules of the executors: here it    *)
(* ends, and an exec command is a child that is launched, stored in        *)
(* activeCommands under the id of its message, and reported once           *)
(* (CommandOutcome). The broker may use an id twice.                       *)
(***************************************************************************)
CONSTANTS
  Connections,  \* names of connections
  None,         \* nil
  Deliveries,   \* the messages the broker sends
  Ids           \* the ids it gives to commands

ASSUME DispatchAssumption == None \notin Connections \cup Deliveries

VARIABLES
  conn, up, readers, stopped, late,  \* the connection, see BrokerLink
  config,   \* BrainActuator, and whether there is a webhook port
  message,  \* message[d]: what was read for d, None before
  pc,       \* pc[d]: where the goroutine that handles d stands
  child,    \* child[d]: the process of an exec command
  active,   \* activeCommands: active[i] is a delivery or None
  killed,   \* those whose kill function Stop found worth calling
  answer,   \* answer[d]: what became of the result of d
  holder,   \* the sender that holds sendMu, or None
  target,   \* the connection it read from a.conn
  steady,   \* history: answers that got ready on a connection that lasts
  launched  \* history: exec commands that handleExec was done with at Stop

linkVars == <<conn, up, readers, stopped, late>>
sending == <<answer, holder, target, steady>>
commands == <<child, active, killed, launched>>
vars == <<linkVars, config, message, pc, commands, sending>>

Link == INSTANCE BrokerLink

\* Of an exec command the id matters. The other commands are the requests to
\* the file executor and the process handler, and what handleCommand refuses.
Messages == [kind : {"exec"}, id : Ids] \cup [kind : {"request", "wake"}]

Init ==
  /\ Link!Init
  /\ config \in [brain : BOOLEAN, webhook : BOOLEAN]
  /\ message = [d \in Deliveries |-> None]
  /\ pc = [d \in Deliveries |-> "none"]
  /\ child = [d \in Deliveries |-> "none"]
  /\ active = [i \in Ids |-> None]
  /\ killed = {}
  /\ answer = [d \in Deliveries |-> "none"]
  /\ holder = None
  /\ target = None
  /\ steady = {}
  /\ launched = {}

Kind(d) == message[d].kind
Id(d) == message[d].id

-----------------------------------------------------------------------------
(* The connection.                                                         *)

\* A connection that breaks or is given up lasts no more.
LinkMoves ==
  /\ \E c \in Connections :
       Link!Dial(c) \/ Link!Adopt(c) \/ Link!Break(c) \/ Link!Lose(c)
  /\ steady' = IF conn # None /\ conn' = conn /\ conn \in up' THEN steady ELSE {}
  /\ UNCHANGED <<config, message, pc, commands, answer, holder, target>>

\* readLoop reads a message; one of a connection being closed too.
Deliver(d) ==
  /\ pc[d] = "none" /\ readers # {}
  /\ \E m \in Messages : message' = [message EXCEPT ![d] = m]
  /\ pc' = [pc EXCEPT ![d] = "handle"]
  /\ UNCHANGED <<linkVars, config, commands, sending>>

-----------------------------------------------------------------------------
(* handleCommand, handleExec.                                              *)

Go(d, from, to) ==
  /\ pc[d] = from
  /\ pc' = [pc EXCEPT ![d] = to]

Ready(d) ==
  /\ answer' = [answer EXCEPT ![d] = "ready"]
  /\ steady' = IF conn \in up THEN steady \cup {d} ELSE steady

\* What is answered without a child, and in brain mode everything.
HandleAtOnce(d) ==
  /\ Go(d, "handle", "done")
  /\ Kind(d) # "wake" /\ (config.brain \/ Kind(d) # "exec")
  /\ Ready(d)
  /\ UNCHANGED <<linkVars, config, message, commands, holder, target>>

\* ExecuteShell: the child runs, or OnError reports at once.
Launch(d) ==
  /\ Go(d, "handle", "register")
  /\ Kind(d) = "exec" /\ ~config.brain
  /\ \/ child' = [child EXCEPT ![d] = "running"] /\ UNCHANGED <<active, answer, steady>>
     \/ /\ child' = [child EXCEPT ![d] = "over"]
        /\ active' = [active EXCEPT ![Id(d)] = None]
        /\ Ready(d)
  /\ UNCHANGED <<linkVars, config, message, killed, launched, holder, target>>

\* The kill function is stored, over an older one with the same id.
Register(d) ==
  /\ Go(d, "register", "done")
  /\ active' = [active EXCEPT ![Id(d)] = d]
  /\ UNCHANGED <<linkVars, config, message, child, killed, launched, sending>>

\* The child ends and MarkExited says so.
ChildEnds(d) ==
  /\ child[d] = "running"
  /\ child' = [child EXCEPT ![d] = "exited"]
  /\ UNCHANGED <<linkVars, config, message, pc, active, killed, launched, sending>>

\* Mutant: OnDone starts the map afresh.
FinishClears(d) ==
  /\ child[d] = "exited"
  /\ child' = [child EXCEPT ![d] = "over"]
  /\ active' = [i \in Ids |-> None]
  /\ Ready(d)
  /\ UNCHANGED <<linkVars, config, message, pc, killed, launched, holder, target>>

\* OnDone or OnError: whatever is stored under the id is deleted.
Finish(d) ==
  /\ child[d] = "exited"
  /\ child' = [child EXCEPT ![d] = "over"]
  /\ active' = [active EXCEPT ![Id(d)] = None]
  /\ Ready(d)
  /\ UNCHANGED <<linkVars, config, message, pc, killed, launched, holder, target>>

-----------------------------------------------------------------------------
(* handleWake.                                                             *)

HandleWake(d) ==
  /\ Go(d, "handle", IF config.webhook THEN "post" ELSE "done")
  /\ Kind(d) = "wake"
  /\ UNCHANGED <<linkVars, config, message, commands, sending>>

\* The webhook answers or refuses, or five seconds are over: whether it heard
\* of the wake is not known then.
WakeEnds(d) ==
  /\ Go(d, "post", "done")
  /\ UNCHANGED <<linkVars, config, message, commands, sending>>

-----------------------------------------------------------------------------
(* send.                                                                   *)

\* Mutant: a sender does not wait for sendMu.
LookImpatient(d) ==
  /\ answer[d] = "ready" /\ holder # d
  /\ IF conn = None \/ holder # None
       THEN answer' = [answer EXCEPT ![d] = "lost"] /\ UNCHANGED <<holder, target>>
       ELSE holder' = d /\ target' = conn /\ UNCHANGED answer
  /\ UNCHANGED <<linkVars, config, message, pc, commands, steady>>

\* sendMu is taken and a.conn read; without a connection the answer is lost.
Look(d) ==
  /\ answer[d] = "ready" /\ holder = None
  /\ IF conn = None
       THEN answer' = [answer EXCEPT ![d] = "lost"] /\ UNCHANGED <<holder, target>>
       ELSE holder' = d /\ target' = conn /\ UNCHANGED answer
  /\ UNCHANGED <<linkVars, config, message, pc, commands, steady>>

\* Mutant: sendMu is not released when the write fails.
WriteKeepsLock(d) ==
  /\ holder = d /\ answer[d] = "ready"
  /\ answer' = [answer EXCEPT ![d] = IF target \in up THEN "received" ELSE "lost"]
  /\ holder' = IF target \in up THEN None ELSE d
  /\ target' = IF target \in up THEN None ELSE target
  /\ UNCHANGED <<linkVars, config, message, pc, commands, steady>>

\* conn.Write, within ten seconds.
Write(d) ==
  /\ holder = d
  /\ answer' = [answer EXCEPT ![d] = IF target \in up THEN "received" ELSE "lost"]
  /\ holder' = None /\ target' = None
  /\ UNCHANGED <<linkVars, config, message, pc, commands, steady>>

-----------------------------------------------------------------------------
(* Stop.                                                                   *)

\* handleExec has returned.
Launched(d) == pc[d] = "done" /\ child[d] # "none"

Stop ==
  /\ Link!Stop
  /\ killed' = {d \in Deliveries : child[d] = "running" /\ \E i \in Ids : active[i] = d}
  /\ active' = [i \in Ids |-> None]
  /\ steady' = {}
  /\ launched' = {d \in Deliveries : Launched(d)}
  /\ UNCHANGED <<config, message, pc, child, answer, holder, target>>

-----------------------------------------------------------------------------
Handler(d) ==
  \/ HandleAtOnce(d) \/ Launch(d) \/ Register(d) \/ Finish(d)
  \/ HandleWake(d) \/ WakeEnds(d)

\* When main has returned nothing happens any more.
Next ==
  \/ LinkMoves \/ Stop
  \/ \E d \in Deliveries :
       Deliver(d) \/ Handler(d) \/ ChildEnds(d) \/ Look(d) \/ Write(d)

Spec == Init /\ [][Next]_vars

(***************************************************************************)
(* Fairness: goroutines run and timeouts expire, a child ends at its       *)
(* deadline at the latest, and no waiter for sendMu is passed over for     *)
(* ever: all this while the process lives. Nothing is assumed of the       *)
(* broker, the network and the webhook.                                    *)
(***************************************************************************)
LiveSpec ==
  /\ Spec
  /\ \A d \in Deliveries :
       /\ WF_vars(Handler(d))
       /\ WF_vars(ChildEnds(d))
       /\ SF_vars(Look(d))
       /\ WF_vars(Write(d))

-----------------------------------------------------------------------------
(* Properties.                                                             *)

\* The types, proved in DispatchProofs: who holds sendMu has a connection.
TypeOK ==
  /\ conn \in Connections \cup {None}
  /\ up \subseteq Connections
  /\ readers \subseteq Connections
  /\ stopped \in BOOLEAN /\ late \in BOOLEAN
  /\ config \in [brain : BOOLEAN, webhook : BOOLEAN]
  /\ message \in [Deliveries -> Messages \cup {None}]
  /\ pc \in [Deliveries -> {"none", "handle", "register", "post", "done"}]
  /\ child \in [Deliveries -> {"none", "running", "exited", "over"}]
  /\ active \in [Ids -> Deliveries \cup {None}]
  /\ killed \subseteq Deliveries
  /\ answer \in [Deliveries -> {"none", "ready", "received", "lost"}]
  /\ \/ holder \in Deliveries /\ target \in Connections
     \/ holder = None /\ target = None
  /\ steady \subseteq Deliveries
  /\ launched \subseteq Deliveries

(***************************************************************************)
(* An answer that gets ready while the connection works reaches the broker *)
(* if this connection lasts, however many answers wait for sendMu and      *)
(* whatever connection its command came on. So the broker misses an answer *)
(* only when a connection broke, or Stop came, after it got ready, or when *)
(* there was none.                                                         *)
(***************************************************************************)
LastingConnectionDelivers ==
  \A d \in steady : answer[d] # "lost"

(***************************************************************************)
(* Stop kills every child whose handleExec had returned, unless another    *)
(* command came with the same id: its entry in activeCommands replaces the *)
(* first one's, and whichever ends first deletes the other's.              *)
(***************************************************************************)
StopMissesOnlyDuplicates ==
  stopped =>
    \A d \in launched : child[d] = "running" =>
      \/ d \in killed
      \/ \E e \in Deliveries \ {d} : pc[e] # "none" /\ Kind(e) = "exec" /\ Id(e) = Id(d)

(***************************************************************************)
(* Every message comes to an end: a command's answer is received or lost,  *)
(* a wake is posted or given up, even when the webhook is silent.          *)
(***************************************************************************)
EveryDeliveryEnds ==
  \A d \in Deliveries :
    pc[d] = "handle" ~>
      pc[d] = "done" /\ (Kind(d) = "wake" \/ answer[d] \in {"received", "lost"})
================================================================================
