----------------------------- MODULE Connection ------------------------------
(***************************************************************************)
(* The WebSocket connection of the actuator to the broker: Start, connect, *)
(* readLoop, scheduleReconnect, send and Stop                              *)
(* (internal/actuator/actuator.go), the ReconnectManager they share        *)
(* (internal/actuator/reconnect.go), and the main goroutine, which runs    *)
(* the first connect itself and only then listens for SIGTERM              *)
(* (cmd/actuator-g/main.go).                                               *)
(*                                                                         *)
(* A thread is one call of connect: main's, or the one a reconnect timer   *)
(* makes in a goroutine of its own. It owns at most one WebSocket, so a    *)
(* thread also names its connection. When a thread has ended its name may  *)
(* be used again, as long as nobody still holds its connection.            *)
(* a.conn, attempt and timer are shared by the threads, by the goroutines  *)
(* that send results, and by Stop.                                         *)
(***************************************************************************)
EXTENDS Naturals, Sequences

CONSTANTS
  Threads,     \* names for the calls of connect
  First,       \* the one main makes
  Results,     \* results the command goroutines hand to send
  None,        \* nil: no connection, no timer, nobody
  MaxPings,    \* bound: pings the broker sends on one connection
  AttemptCap   \* bound: where the attempt counter stops counting

ASSUME ConnectionAssumption ==
  /\ First \in Threads
  /\ None \notin Threads \cup Results
  /\ Threads \cap Results = {}
  /\ MaxPings \in Nat
  /\ AttemptCap \in Nat

VARIABLES
  pc,         \* pc[t]: where thread t stands
  conn,       \* a.conn, a thread or None
  destroyed,  \* a.destroyed
  timer,      \* r.timer: the thread that the timer would start
  attempt,    \* r.attempt
  main,       \* the main goroutine, or "gone" when the process is
  closing,    \* the connection that Stop is closing
  holder,     \* who holds sendMu
  target,     \* the connection the holder read from a.conn
  result,     \* result[r]: what became of result r
  link,       \* link[t]: the state of t's WebSocket
  pinged,     \* pinged[t]: pings sent by the broker on t's connection
  read,       \* read[t]: pings read from it
  pongs,      \* pongs[t]: the pongs the broker received on it, in order
  network,    \* "up" when the broker can be reached
  late,       \* history: connections adopted since Stop, "none", "one", "many"
  fault       \* history: whose call on a nil timer ended the process: "none",
              \* a "reader", after it connected, or "Stop"

vars == <<pc, conn, destroyed, timer, attempt, main, closing, holder, target,
          result, link, pinged, read, pongs, network, late, fault>>

reconnect == <<timer, attempt>>
sending   == <<holder, target, result>>
traffic   == <<pinged, read, pongs>>

Dormant == {"idle", "stopped", "done"}

\* Where the thread whose connection is a.conn stands.
Serving == {"adopted", "stop", "clear", "read", "pong"}

Steps == Dormant \cup Serving \cup {"pending", "check", "dial", "opened", "failed", "schedule"}

Init ==
  /\ pc = [t \in Threads |-> IF t = First THEN "check" ELSE "idle"]
  /\ conn = None
  /\ destroyed = FALSE
  /\ timer = None
  /\ attempt = 0
  /\ main = "starting"
  /\ closing = None
  /\ holder = None
  /\ target = None
  /\ result = [r \in Results |-> "running"]
  /\ link = [t \in Threads |-> "none"]
  /\ pinged = [t \in Threads |-> 0]
  /\ read = [t \in Threads |-> 0]
  /\ pongs = [t \in Threads |-> <<>>]
  /\ network \in {"up", "down"}
  /\ late = "none"
  /\ fault = "none"

\* When main's own call of connect ends, Start returns.
StartReturns == main' = IF main = "starting" THEN "returned" ELSE main

\* Stop is inside its critical section, which holds a.mu. (It stores
\* a.destroyed and a.conn in its last step: whoever reads them takes a.mu.)
Locked == main \in {"stop", "clear"}

-----------------------------------------------------------------------------
(* connect.                                                                *)

Check(t) ==
  /\ pc[t] = "check" /\ ~Locked
  /\ IF destroyed
     THEN pc' = [pc EXCEPT ![t] = "done"] /\ StartReturns
     ELSE pc' = [pc EXCEPT ![t] = "dial"] /\ UNCHANGED main
  /\ UNCHANGED <<conn, destroyed, reconnect, closing, sending, link, traffic, network, late, fault>>

\* Mutant: a failed dial is the end of it.
DialFailsForGood(t) ==
  /\ pc[t] = "dial" /\ network = "down"
  /\ pc' = [pc EXCEPT ![t] = "done"] /\ StartReturns
  /\ UNCHANGED <<conn, destroyed, reconnect, closing, sending, link, traffic, network, late, fault>>

DialFails(t) ==
  /\ pc[t] = "dial" /\ network = "down"
  /\ pc' = [pc EXCEPT ![t] = "failed"]
  /\ UNCHANGED <<conn, destroyed, reconnect, main, closing, sending, link, traffic, network, late, fault>>

DialOpens(t) ==
  /\ pc[t] = "dial" /\ network = "up"
  /\ pc' = [pc EXCEPT ![t] = "opened"]
  /\ link' = [link EXCEPT ![t] = "up"]
  /\ UNCHANGED <<conn, destroyed, reconnect, main, closing, sending, traffic, network, late, fault>>

\* a.conn is set without another look at a.destroyed.
Adopt(t) ==
  /\ pc[t] = "opened" /\ ~Locked
  /\ pc' = [pc EXCEPT ![t] = "adopted"]
  /\ conn' = t
  /\ late' = IF main # "closing" THEN late ELSE IF late = "none" THEN "one" ELSE "many"
  /\ UNCHANGED <<destroyed, reconnect, main, closing, sending, link, traffic, network, fault>>

\* ReconnectManager.Reset and Destroy, which is the same, share r.timer with
\* each other and no lock: they test it, load it again for Stop(), and clear it.
ResetTests(t) ==
  /\ pc[t] = "adopted"
  /\ attempt' = 0
  /\ pc' = [pc EXCEPT ![t] = IF timer = None THEN "read" ELSE "stop"]
  /\ UNCHANGED <<conn, destroyed, timer, main, closing, sending, link, traffic, network, late, fault>>

\* Stop() of a timer: one that has fired is not stopped.
StopTimer(p) == pc' = IF p[timer] = "pending" THEN [p EXCEPT ![timer] = "stopped"] ELSE p

\* Of nil it panics, and nobody recovers.
Panic(who) ==
  /\ main' = "gone"
  /\ fault' = who
  /\ UNCHANGED pc

ResetStops(t) ==
  /\ pc[t] = "stop"
  /\ IF timer = None THEN Panic("reader")
     ELSE StopTimer([pc EXCEPT ![t] = "clear"]) /\ UNCHANGED <<main, fault>>
  /\ UNCHANGED <<conn, destroyed, reconnect, closing, sending, link, traffic, network, late>>

ResetClears(t) ==
  /\ pc[t] = "clear"
  /\ pc' = [pc EXCEPT ![t] = "read"]
  /\ timer' = None
  /\ UNCHANGED <<conn, destroyed, attempt, main, closing, sending, link, traffic, network, late, fault>>

Reset(t) == ResetTests(t) \/ ResetStops(t) \/ ResetClears(t)

-----------------------------------------------------------------------------
(* readLoop.                                                               *)

\* Mutant: only the last of the pings read together is answered.
ReadPingCoalesces(t) ==
  /\ pc[t] = "read" /\ read[t] < pinged[t]
  /\ pc' = [pc EXCEPT ![t] = "pong"]
  /\ read' = [read EXCEPT ![t] = pinged[t]]
  /\ UNCHANGED <<conn, destroyed, reconnect, main, closing, sending, link, pinged, pongs, network, late, fault>>

ReadPing(t) ==
  /\ pc[t] = "read" /\ read[t] < pinged[t]
  /\ pc' = [pc EXCEPT ![t] = "pong"]
  /\ read' = [read EXCEPT ![t] = @ + 1]
  /\ UNCHANGED <<conn, destroyed, reconnect, main, closing, sending, link, pinged, pongs, network, late, fault>>

\* The pings of a connection that is not read any more do not matter.
Forget(t) ==
  /\ pinged' = [pinged EXCEPT ![t] = 0]
  /\ read' = [read EXCEPT ![t] = 0]
  /\ pongs' = [pongs EXCEPT ![t] = <<>>]

\* Mutant: a.conn is left pointing to the dead connection.
ReadFailsKeepsConn(t) ==
  /\ pc[t] = "read" /\ link[t] = "closed" /\ ~Locked
  /\ IF destroyed
     THEN pc' = [pc EXCEPT ![t] = "done"] /\ StartReturns
     ELSE pc' = [pc EXCEPT ![t] = "failed"] /\ UNCHANGED main
  /\ Forget(t)
  /\ UNCHANGED <<conn, destroyed, reconnect, closing, sending, link, network, late, fault>>

\* Mutant: a.conn is cleared without a.mu.
ReadFailsUnlocked(t) ==
  /\ pc[t] = "read" /\ link[t] = "closed"
  /\ conn' = None
  /\ IF destroyed
     THEN pc' = [pc EXCEPT ![t] = "done"] /\ StartReturns
     ELSE pc' = [pc EXCEPT ![t] = "failed"] /\ UNCHANGED main
  /\ Forget(t)
  /\ UNCHANGED <<destroyed, reconnect, closing, sending, link, network, late, fault>>

ReadFails(t) ==
  /\ pc[t] = "read" /\ link[t] = "closed" /\ ~Locked
  /\ conn' = None
  /\ IF destroyed
     THEN pc' = [pc EXCEPT ![t] = "done"] /\ StartReturns
     ELSE pc' = [pc EXCEPT ![t] = "failed"] /\ UNCHANGED main
  /\ Forget(t)
  /\ UNCHANGED <<destroyed, reconnect, closing, sending, link, network, late, fault>>

-----------------------------------------------------------------------------
(* scheduleReconnect looks at a.destroyed, then calls Schedule without     *)
(* the lock; maxAttempts is -1, so Schedule never refuses.                 *)

ScheduleReconnect(t) ==
  /\ pc[t] = "failed" /\ ~Locked
  /\ IF destroyed
     THEN pc' = [pc EXCEPT ![t] = "done"] /\ StartReturns
     ELSE pc' = [pc EXCEPT ![t] = "schedule"] /\ UNCHANGED main
  /\ UNCHANGED <<conn, destroyed, reconnect, closing, sending, link, traffic, network, late, fault>>

Schedule(t) ==
  /\ pc[t] = "schedule"
  /\ attempt' = IF attempt < AttemptCap THEN attempt + 1 ELSE attempt
  /\ \E u \in Threads \ {t, target, closing} :
       /\ pc[u] \in Dormant
       /\ pc' = [pc EXCEPT ![t] = "done", ![u] = "pending"]
       /\ timer' = u
  /\ StartReturns
  /\ UNCHANGED <<conn, destroyed, closing, sending, link, traffic, network, late, fault>>

TimerFires(t) ==
  /\ pc[t] = "pending"
  /\ pc' = [pc EXCEPT ![t] = "check"]
  /\ UNCHANGED <<conn, destroyed, reconnect, main, closing, sending, link, traffic, network, late, fault>>

-----------------------------------------------------------------------------
(* send: a thread sends the pong of the ping it read, a command goroutine  *)
(* its result. The sender holds sendMu until the write is over.            *)

Senders == Threads \cup Results

Wanting(s) == IF s \in Threads THEN pc[s] = "pong" ELSE result[s] = "ready"

\* A command ends and its result is handed to send.
Produce(r) ==
  /\ result[r] = "running"
  /\ result' = [result EXCEPT ![r] = "ready"]
  /\ UNCHANGED <<pc, conn, destroyed, reconnect, main, closing, holder, target, link, traffic, network, late, fault>>

\* What s does after send: the reader reads on, the goroutine is over.
Sent(s, outcome) ==
  IF s \in Threads
  THEN pc' = [pc EXCEPT ![s] = "read"] /\ UNCHANGED result
  ELSE result' = [result EXCEPT ![s] = outcome] /\ UNCHANGED pc

\* sendMu is taken and a.conn read; without a connection the message is dropped.
LockAndLook(s) ==
  /\ Wanting(s) /\ holder = None /\ ~Locked
  /\ IF conn = None
     THEN Sent(s, "lost") /\ UNCHANGED <<holder, target>>
     ELSE holder' = s /\ target' = conn /\ UNCHANGED <<pc, result>>
  /\ UNCHANGED <<conn, destroyed, reconnect, main, closing, link, traffic, network, late, fault>>

Write(s) ==
  /\ holder = s /\ link[target] = "up"
  /\ holder' = None /\ target' = None
  /\ Sent(s, "delivered")
  /\ pongs' = IF s \in Threads THEN [pongs EXCEPT ![target] = Append(@, read[s])] ELSE pongs
  /\ UNCHANGED <<conn, destroyed, reconnect, main, closing, link, pinged, read, network, late, fault>>

\* Mutant: sendMu is not released on the error path.
WriteFailsKeepsLock(s) ==
  /\ holder = s /\ link[target] # "up"
  /\ Sent(s, "lost")
  /\ link' = [link EXCEPT ![target] = "closed"]
  /\ UNCHANGED <<conn, destroyed, reconnect, main, closing, holder, target, traffic, network, late, fault>>

\* Mutant: a failed write reconnects, as a failed read does.
WriteFailsReconnects(s) ==
  /\ holder = s /\ link[target] # "up"
  /\ holder' = None /\ target' = None
  /\ link' = [link EXCEPT ![target] = "closed"]
  /\ result' = IF s \in Results THEN [result EXCEPT ![s] = "lost"] ELSE result
  /\ \E u \in {v \in Threads : pc[v] \in Dormant} :
       pc' = [v \in Threads |-> IF v = u THEN "pending" ELSE IF v = s THEN "read" ELSE pc[v]]
  /\ UNCHANGED <<conn, destroyed, reconnect, main, closing, traffic, network, late, fault>>

\* The write fails, after ten seconds when nothing moves: the library then
\* closes the connection.
WriteFails(s) ==
  /\ holder = s /\ link[target] # "up"
  /\ holder' = None /\ target' = None
  /\ Sent(s, "lost")
  /\ link' = [link EXCEPT ![target] = "closed"]
  /\ UNCHANGED <<conn, destroyed, reconnect, main, closing, traffic, network, late, fault>>

\* Nobody answers, but the kernel takes the message.
WriteVanishes(s) ==
  /\ holder = s /\ link[target] = "stalled"
  /\ holder' = None /\ target' = None
  /\ Sent(s, "lost")
  /\ UNCHANGED <<conn, destroyed, reconnect, main, closing, link, traffic, network, late, fault>>

-----------------------------------------------------------------------------
(* main and Stop.                                                          *)

\* signal.Notify, once Start has returned.
Listen ==
  /\ main = "returned"
  /\ main' = "serving"
  /\ UNCHANGED <<pc, conn, destroyed, reconnect, closing, sending, link, traffic, network, late, fault>>

\* SIGTERM before signal.Notify: the default action ends the process.
DieWithoutStop ==
  /\ main \in {"starting", "returned"}
  /\ main' = "gone"
  /\ UNCHANGED <<pc, conn, destroyed, reconnect, closing, sending, link, traffic, network, late, fault>>

\* The end of Stop's critical section, the children killed.
Unlock ==
  /\ main' = "closing"
  /\ destroyed' = TRUE
  /\ closing' = conn
  /\ conn' = None

\* SIGTERM after it: Stop locks a.mu and calls Destroy.
Stop ==
  /\ main = "serving"
  /\ attempt' = 0
  /\ IF timer = None THEN Unlock ELSE main' = "stop" /\ UNCHANGED <<destroyed, closing, conn>>
  /\ UNCHANGED <<pc, timer, sending, link, traffic, network, late, fault>>

DestroyStops ==
  /\ main = "stop"
  /\ IF timer = None THEN Panic("Stop")
     ELSE StopTimer(pc) /\ main' = "clear" /\ UNCHANGED fault
  /\ UNCHANGED <<conn, destroyed, reconnect, closing, sending, link, traffic, network, late>>

DestroyClears ==
  /\ main = "clear"
  /\ timer' = None
  /\ Unlock
  /\ UNCHANGED <<pc, attempt, sending, link, traffic, network, late, fault>>

\* conn.Close: the closing handshake, or its timeout.
CloseConnection ==
  /\ main = "closing" /\ closing # None
  /\ link' = [link EXCEPT ![closing] = "closed"]
  /\ closing' = None
  /\ UNCHANGED <<pc, conn, destroyed, reconnect, main, sending, traffic, network, late, fault>>

MainReturns ==
  /\ main = "closing" /\ closing = None
  /\ main' = "gone"
  /\ UNCHANGED <<pc, conn, destroyed, reconnect, closing, sending, link, traffic, network, late, fault>>

-----------------------------------------------------------------------------
(* The broker and the network.                                             *)

BrokerPings(t) ==
  /\ link[t] = "up" /\ pinged[t] < MaxPings
  /\ pinged' = [pinged EXCEPT ![t] = @ + 1]
  /\ UNCHANGED <<pc, conn, destroyed, reconnect, main, closing, sending, link, read, pongs, network, late, fault>>

\* A connection breaks, with or without the actuator being told.
LinkBreaks(t) ==
  /\ network = "down" /\ link[t] = "up"
  /\ \E state \in {"stalled", "closed"} : link' = [link EXCEPT ![t] = state]
  /\ UNCHANGED <<pc, conn, destroyed, reconnect, main, closing, sending, traffic, network, late, fault>>

\* TCP keepalive gives up on a silent peer.
KeepaliveGivesUp(t) ==
  /\ link[t] = "stalled"
  /\ link' = [link EXCEPT ![t] = "closed"]
  /\ UNCHANGED <<pc, conn, destroyed, reconnect, main, closing, sending, traffic, network, late, fault>>

NetworkChanges ==
  /\ network' = IF network = "up" THEN "down" ELSE "up"
  /\ UNCHANGED <<pc, conn, destroyed, reconnect, main, closing, sending, link, traffic, late, fault>>

-----------------------------------------------------------------------------
Connect(t) == Check(t) \/ DialFails(t) \/ DialOpens(t) \/ Adopt(t) \/ Reset(t)
ReadLoop(t) == ReadPing(t) \/ ReadFails(t)
Reconnect(t) == ScheduleReconnect(t) \/ Schedule(t) \/ TimerFires(t)
Thread(t) == Connect(t) \/ ReadLoop(t) \/ Reconnect(t)
Release(s) == Write(s) \/ WriteFails(s) \/ WriteVanishes(s)

Process ==
  \/ \E t \in Threads : Thread(t)
  \/ \E r \in Results : Produce(r)
  \/ \E s \in Senders : LockAndLook(s) \/ Release(s)
  \/ Listen \/ DieWithoutStop
  \/ Stop \/ DestroyStops \/ DestroyClears \/ CloseConnection \/ MainReturns

Environment ==
  \/ \E t \in Threads : BrokerPings(t) \/ LinkBreaks(t) \/ KeepaliveGivesUp(t)
  \/ NetworkChanges

Next == main # "gone" /\ (Process \/ Environment)

Spec == Init /\ [][Next]_vars

(***************************************************************************)
(* Fairness. A runnable goroutine runs and an armed timer fires; a waiter  *)
(* for sendMu is not passed over for ever (Go's mutexes hand over to the   *)
(* oldest waiter); a write ends within ten seconds, a closing handshake    *)
(* and the keepalive probes of TCP within their own limits. Nothing is     *)
(* assumed of the network, of the broker or of who sends SIGTERM.          *)
(***************************************************************************)
Fairness ==
  /\ \A t \in Threads :
       /\ WF_vars(main # "gone" /\ Thread(t))
       /\ WF_vars(main # "gone" /\ KeepaliveGivesUp(t))
  /\ \A s \in Senders :
       /\ SF_vars(main # "gone" /\ LockAndLook(s))
       /\ WF_vars(main # "gone" /\ Release(s))
  /\ WF_vars(main # "gone" /\ (Listen \/ DestroyStops \/ DestroyClears
                                 \/ CloseConnection \/ MainReturns))

LiveSpec == Spec /\ Fairness

-----------------------------------------------------------------------------
(* Properties.                                                             *)

TypeOK ==
  /\ pc \in [Threads -> Steps]
  /\ conn \in Threads \cup {None}
  /\ destroyed \in BOOLEAN
  /\ timer \in Threads \cup {None}
  /\ attempt \in 0..AttemptCap
  /\ main \in {"starting", "returned", "serving", "stop", "clear", "closing", "gone"}
  /\ closing \in Threads \cup {None}
  /\ \/ holder \in Senders /\ target \in Threads
     \/ holder = None /\ target = None
  /\ result \in [Results -> {"running", "ready", "delivered", "lost"}]
  /\ link \in [Threads -> {"none", "up", "stalled", "closed"}]
  /\ pinged \in [Threads -> 0..MaxPings]
  /\ read \in [Threads -> 0..MaxPings]
  /\ pongs \in [Threads -> Seq(1..MaxPings)]
  /\ network \in {"up", "down"}
  /\ late \in {"none", "one", "many"}
  /\ fault \in {"none", "reader", "Stop"}

Live(t) == pc[t] \notin Dormant

(***************************************************************************)
(* The reconnects form one chain: however failing dials, broken            *)
(* connections, timers and Stop interleave, there are never two calls of   *)
(* connect under way or pending, so never two connections of one actuator. *)
(***************************************************************************)
SingleChain == \A t, u \in Threads : Live(t) /\ Live(u) => t = u

(***************************************************************************)
(* a.conn is only ever a connection that its own readLoop still serves:    *)
(* send never picks one whose loss was already noticed.                    *)
(***************************************************************************)
ConnIsServed ==
  conn # None => pc[conn] \in Serving

(***************************************************************************)
(* While a connection is served the backoff stays reset and no retry is    *)
(* pending, so the first one after its loss comes after the base delay.    *)
(***************************************************************************)
ServedMeansBackoffReset ==
  conn # None /\ pc[conn] \in {"read", "pong"} =>
    attempt = 0 /\ \A t \in Threads : pc[t] # "pending"

(***************************************************************************)
(* r.timer is nil between the test and Stop() only if SIGTERM comes while  *)
(* a connection is being adopted: the reader panics only after the         *)
(* critical section of Stop, so the children were killed, and Stop only    *)
(* when the reader has just connected, before it has killed anything.      *)
(***************************************************************************)
NilTimerNeedsStopWhileAdopting ==
  /\ fault = "reader" => destroyed /\ \E t \in Threads : pc[t] = "stop"
  /\ fault = "Stop" => ~destroyed /\ conn # None

(***************************************************************************)
(* A dial that was under way may still connect after Stop, but only one:   *)
(* its loss, or any later retry, sees that the actuator is destroyed.      *)
(***************************************************************************)
OneConnectionAfterStop == late # "many"

(***************************************************************************)
(* The pongs on a connection answer its pings in order and without gaps,   *)
(* although send picks its connection from a.conn and shares it with the   *)
(* goroutines that send results: none goes to another connection.          *)
(***************************************************************************)
PongsInOrder ==
  \A t \in Threads :
    /\ Len(pongs[t]) <= read[t]
    /\ \A i \in 1..Len(pongs[t]) : pongs[t][i] = i

(***************************************************************************)
(* If the broker stays reachable, the actuator is connected for good,      *)
(* whatever was lost, silent or failing before.                            *)
(***************************************************************************)
ConnectsAgain ==
  <>[](network = "up") => <>[](conn # None \/ destroyed \/ main = "gone")

(***************************************************************************)
(* Every result handed to send leaves it, delivered or dropped: no sender  *)
(* is stuck behind a write to a silent connection.                         *)
(***************************************************************************)
EverySendEnds ==
  \A r \in Results : result[r] = "ready" ~> (result[r] # "ready" \/ main = "gone")

-----------------------------------------------------------------------------
(* What the connection is for the rest of the actuator.                    *)

Link == INSTANCE BrokerLink WITH
  Connections <- Threads,
  up          <- {t \in Threads : link[t] = "up"},
  readers     <- {t \in Threads : pc[t] \in Serving},
  stopped     <- destroyed,
  late        <- late # "none"

(***************************************************************************)
(* Dials, timers, pings and senders amount to BrokerLink: one reader at a  *)
(* time, a.conn cleared exactly when its reader ends or at Stop, and one   *)
(* connection at most that comes after Stop.                               *)
(***************************************************************************)
ImplementsLink == Link!Spec
==============================================================================
