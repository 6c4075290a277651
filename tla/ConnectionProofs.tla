--------------------------- MODULE ConnectionProofs ---------------------------
(***************************************************************************)
(* Proofs about Connection, for any number of threads and results and any  *)
(* bounds.                                                                 *)
(***************************************************************************)
EXTENDS Connection, TLAPS

-----------------------------------------------------------------------------
(* The inductive invariant.                                                *)

\* A thread that holds sendMu is sending a pong to its own connection.
HolderInv == holder \in Threads => pc[holder] = "pong" /\ target = holder

\* From Reset's first step on, the counter of attempts stays zero.
BackoffInv == conn # None /\ pc[conn] \in {"stop", "clear", "read", "pong"} => attempt = 0

\* After Stop a late connection is the end of the chain.
LateInv ==
  /\ main = "closing" => destroyed
  /\ \/ late = "none"
     \/ /\ late = "one" /\ main \in {"closing", "gone"}
        /\ \A t \in Threads : pc[t] \in Dormant \cup Serving

\* Where the pongs of t stand. They keep up with the pings read for as long as
\* a.conn, or the sender, still knows the connection and it works.
PongInv(t) ==
  /\ pc[t] \notin {"read", "pong"} => read[t] = 0 /\ pongs[t] = <<>>
  /\ Len(pongs[t]) <= read[t]
  /\ \A i \in 1..Len(pongs[t]) : pongs[t][i] = i
  /\ pc[t] = "pong" => Len(pongs[t]) < read[t]
  /\ link[t] = "up" /\ conn = t =>
       Len(pongs[t]) = IF pc[t] = "pong" THEN read[t] - 1 ELSE read[t]
  /\ link[t] = "up" /\ holder = t => Len(pongs[t]) = read[t] - 1

Chain == SingleChain /\ ConnIsServed /\ BackoffInv /\ HolderInv

IInv == TypeOK /\ Chain /\ LateInv /\ \A t \in Threads : PongInv(t)

-----------------------------------------------------------------------------
\* The initial states satisfy the invariant.
LEMMA InvInit == Init => IInv
<1> SUFFICES ASSUME Init PROVE IInv
  OBVIOUS
<1> USE ConnectionAssumption DEF Init
<1>1. pc \in [Threads -> Steps]
  BY DEF Steps, Dormant
<1>2. TypeOK
  <2>1. pongs \in [Threads -> Seq(1..MaxPings)]
    OBVIOUS
  <2>2. read \in [Threads -> 0..MaxPings] /\ pinged \in [Threads -> 0..MaxPings]
    OBVIOUS
  <2>3. attempt \in 0..AttemptCap
    OBVIOUS
  <2> QED
    BY <1>1, <2>1, <2>2, <2>3 DEF TypeOK
<1>3. SingleChain
  BY DEF SingleChain, Live, Dormant
<1>4. ConnIsServed /\ BackoffInv /\ HolderInv /\ LateInv
  BY DEF ConnIsServed, BackoffInv, HolderInv, LateInv
<1>5. ASSUME NEW t \in Threads PROVE PongInv(t)
  BY DEF PongInv
<1> QED
  BY <1>2, <1>3, <1>4, <1>5 DEF IInv, Chain

\* Stop() of a timer moves no thread but one whose timer has not fired.
LEMMA StopTimerMoves ==
  ASSUME NEW p \in [Threads -> Steps], timer \in Threads, StopTimer(p)
  PROVE  /\ pc' \in [Threads -> Steps]
         /\ \A u \in Threads : pc'[u] = p[u] \/ (p[u] = "pending" /\ pc'[u] = "stopped")
<1>1. CASE p[timer] = "pending"
  <2>1. pc' = [p EXCEPT ![timer] = "stopped"]
    BY <1>1 DEF StopTimer
  <2>2. "stopped" \in Steps
    BY DEF Steps, Dormant
  <2> QED
    BY <1>1, <2>1, <2>2
<1>2. CASE p[timer] # "pending"
  BY <1>2 DEF StopTimer
<1> QED
  BY <1>1, <1>2

\* What Reset, called by thread t, does to the threads.
LEMMA ResetMoves ==
  ASSUME TypeOK, NEW t \in Threads, Reset(t)
  PROVE  /\ pc' \in [Threads -> Steps]
         /\ pc[t] \in {"adopted", "stop", "clear"} /\ pc'[t] \in {"stop", "clear", "read"}
         /\ \A u \in Threads : u # t => pc'[u] = pc[u] \/ (pc[u] = "pending" /\ pc'[u] = "stopped")
<1>s. pc \in [Threads -> Steps] /\ {"stop", "clear", "read"} \subseteq Steps
  BY DEF TypeOK, Steps, Serving
<1>1. CASE ResetTests(t)
  BY <1>1, <1>s DEF ResetTests
<1>2. CASE ResetClears(t)
  BY <1>2, <1>s DEF ResetClears
<1>3. CASE ResetStops(t) /\ timer = None
  BY <1>3, <1>s DEF ResetStops, Panic
<1>4. CASE ResetStops(t) /\ timer # None
  <2>1. pc[t] = "stop" /\ StopTimer([pc EXCEPT ![t] = "clear"]) /\ timer \in Threads
    BY <1>4 DEF ResetStops, TypeOK
  <2>2. [pc EXCEPT ![t] = "clear"] \in [Threads -> Steps]
    BY <1>s
  <2>3. /\ pc' \in [Threads -> Steps]
        /\ \A u \in Threads : \/ pc'[u] = [pc EXCEPT ![t] = "clear"][u]
                              \/ [pc EXCEPT ![t] = "clear"][u] = "pending" /\ pc'[u] = "stopped"
    BY <2>1, <2>2, StopTimerMoves
  <2> QED
    BY <1>s, <2>1, <2>3
<1> QED
  BY <1>1, <1>2, <1>3, <1>4 DEF Reset

\* What Reset leaves of the rest.
LEMMA ResetKeeps ==
  ASSUME NEW t \in Threads, Reset(t)
  PROVE  /\ UNCHANGED <<conn, destroyed, closing, holder, target, result, link, pinged, read, pongs, network, late>>
         /\ \/ attempt' = 0
            \/ attempt' = attempt /\ pc[t] \in {"stop", "clear"}
         /\ timer' \in {timer, None}
         /\ \/ main' = main /\ fault' = fault
            \/ main' = "gone" /\ fault' = "reader" /\ timer = None /\ pc' = pc /\ pc[t] = "stop"
BY DEF Reset, ResetTests, ResetStops, ResetClears, Panic, sending, traffic, reconnect

\* What the steps of Stop do to the threads, and leave of the rest.
LEMMA StopMoves ==
  ASSUME TypeOK, Stop \/ DestroyStops \/ DestroyClears
  PROVE  /\ pc' \in [Threads -> Steps]
         /\ \A u \in Threads : pc'[u] = pc[u] \/ (pc[u] = "pending" /\ pc'[u] = "stopped")
<1>1. CASE DestroyStops /\ timer # None
  <2>1. timer \in Threads /\ StopTimer(pc) /\ pc \in [Threads -> Steps]
    BY <1>1 DEF DestroyStops, TypeOK
  <2> QED
    BY <2>1, StopTimerMoves
<1>2. CASE ~(DestroyStops /\ timer # None)
  BY <1>2 DEF Stop, DestroyStops, DestroyClears, Panic, TypeOK
<1> QED
  BY <1>1, <1>2

LEMMA StopKeeps ==
  ASSUME Stop \/ DestroyStops \/ DestroyClears
  PROVE  /\ UNCHANGED <<holder, target, result, link, pinged, read, pongs, network, late>>
         /\ attempt' \in {0, attempt} /\ timer' \in {timer, None}
         /\ \/ main' = "closing" /\ destroyed' = TRUE /\ closing' = conn /\ conn' = None /\ fault' = fault
            \/ main' \in {"stop", "clear", "gone"} /\ UNCHANGED <<destroyed, closing, conn>>
BY DEF Stop, DestroyStops, DestroyClears, Unlock, Panic, sending, traffic, reconnect

-----------------------------------------------------------------------------
(* Each part of the invariant is preserved.                                *)

\* Types. A pong carries the number of a ping, so it is read[s] that matters.
LEMMA TypeStep == ASSUME IInv, [Next]_vars PROVE TypeOK'
<1>0. TypeOK
  BY DEF IInv
<1>r. ASSUME NEW s \in Senders, Write(s), s \in Threads PROVE read[s] \in 1..MaxPings
  <2>1. pc[s] = "pong"
    BY <1>r DEF IInv, Chain, HolderInv, Write
  <2>2. Len(pongs[s]) \in Nat /\ Len(pongs[s]) < read[s] /\ read[s] \in 0..MaxPings
    BY <1>0, <1>r, <2>1 DEF IInv, PongInv, TypeOK
  <2> QED
    BY <2>2
<1> USE ConnectionAssumption DEF reconnect, sending, traffic, StartReturns
<1>s. Threads \subseteq Senders /\ "done" \in Steps /\ "dial" \in Steps /\ "failed" \in Steps
      /\ "opened" \in Steps /\ "adopted" \in Steps /\ "read" \in Steps /\ "pong" \in Steps
      /\ "schedule" \in Steps /\ "check" \in Steps /\ "pending" \in Steps
  BY DEF Steps, Dormant, Serving, Senders
<1>p. ASSUME NEW t \in Threads, NEW x \in Steps PROVE [pc EXCEPT ![t] = x] \in [Threads -> Steps]
  BY <1>0 DEF TypeOK
<1>1. ASSUME NEW t \in Threads, Connect(t) PROVE TypeOK'
  <2>1. CASE Check(t)
    <3>1. pc' \in [Threads -> Steps]
      BY <1>s, <1>p, <2>1 DEF Check
    <3>2. main' \in {"starting", "returned", "serving", "stop", "clear", "closing", "gone"}
      BY <1>0, <2>1 DEF Check, TypeOK
    <3>3. UNCHANGED <<conn, destroyed, timer, attempt, closing, holder, target, result, link, pinged, read, pongs, network, late, fault>>
      BY <2>1 DEF Check
    <3> QED
      BY <1>0, <3>1, <3>2, <3>3 DEF TypeOK
  <2>2. CASE DialFails(t)
    <3>1. pc' \in [Threads -> Steps]
      BY <1>s, <1>p, <2>2 DEF DialFails
    <3>2. UNCHANGED <<conn, destroyed, timer, attempt, main, closing, holder, target, result, link, pinged, read, pongs, network, late, fault>>
      BY <2>2 DEF DialFails
    <3> QED
      BY <1>0, <3>1, <3>2 DEF TypeOK
  <2>3. CASE DialOpens(t)
    <3>1. pc' \in [Threads -> Steps]
      BY <1>s, <1>p, <2>3 DEF DialOpens
    <3>2. link' \in [Threads -> {"none", "up", "stalled", "closed"}]
      BY <1>0, <2>3 DEF DialOpens, TypeOK
    <3>3. UNCHANGED <<conn, destroyed, timer, attempt, main, closing, holder, target, result, pinged, read, pongs, network, late, fault>>
      BY <2>3 DEF DialOpens
    <3> QED
      BY <1>0, <3>1, <3>2, <3>3 DEF TypeOK
  <2>4. CASE Adopt(t)
    <3>1. pc' \in [Threads -> Steps]
      BY <1>s, <1>p, <2>4 DEF Adopt
    <3>2. conn' \in Threads \cup {None} /\ late' \in {"none", "one", "many"}
      BY <1>0, <2>4 DEF Adopt, TypeOK
    <3>3. UNCHANGED <<destroyed, timer, attempt, main, closing, holder, target, result, link, pinged, read, pongs, network, fault>>
      BY <2>4 DEF Adopt
    <3> QED
      BY <1>0, <3>1, <3>2, <3>3 DEF TypeOK
  <2>5. CASE Reset(t)
    <3>1. pc' \in [Threads -> Steps]
      BY <1>0, <2>5, ResetMoves
    <3>2. /\ UNCHANGED <<conn, destroyed, closing, holder, target, result, link, pinged, read, pongs, network, late>>
          /\ attempt' \in {0, attempt} /\ timer' \in {timer, None}
          /\ main' \in {main, "gone"} /\ fault' \in {fault, "reader"}
      BY <2>5, ResetKeeps
    <3>3. 0 \in 0..AttemptCap
      OBVIOUS
    <3>4. /\ attempt' \in 0..AttemptCap /\ timer' \in Threads \cup {None}
          /\ main' \in {"starting", "returned", "serving", "stop", "clear", "closing", "gone"}
          /\ fault' \in {"none", "reader", "Stop"}
      BY <1>0, <3>2, <3>3 DEF TypeOK
    <3> QED
      BY <1>0, <3>1, <3>2, <3>4 DEF TypeOK
  <2> QED
    BY <1>1, <2>1, <2>2, <2>3, <2>4, <2>5 DEF Connect
<1>2. ASSUME NEW t \in Threads, ReadPing(t) PROVE TypeOK'
  <2>1. read' \in [Threads -> 0..MaxPings]
    <3>1. read[t] \in 0..MaxPings /\ pinged[t] \in 0..MaxPings /\ read[t] < pinged[t]
      BY <1>2, <1>0 DEF ReadPing, TypeOK
    <3>2. read[t] + 1 \in 0..MaxPings
      BY <3>1
    <3> QED
      BY <1>2, <1>0, <3>2 DEF ReadPing, TypeOK
  <2>2. pc' \in [Threads -> Steps]
    BY <1>s, <1>p, <1>2 DEF ReadPing
  <2>3. UNCHANGED <<conn, destroyed, timer, attempt, main, closing, holder, target, result, link, pinged, pongs, network, late, fault>>
    BY <1>2 DEF ReadPing
  <2> QED
    BY <1>0, <2>1, <2>2, <2>3 DEF TypeOK
<1>3. ASSUME NEW t \in Threads, ReadFails(t) PROVE TypeOK'
  <2>1. /\ pinged' = [pinged EXCEPT ![t] = 0]
        /\ read' = [read EXCEPT ![t] = 0]
        /\ pongs' = [pongs EXCEPT ![t] = <<>>]
    BY <1>3 DEF ReadFails, Forget
  <2>2. pinged' \in [Threads -> 0..MaxPings] /\ read' \in [Threads -> 0..MaxPings]
    <3>1. 0 \in 0..MaxPings
      OBVIOUS
    <3> QED
      BY <1>0, <2>1, <3>1 DEF TypeOK
  <2>3. pongs' \in [Threads -> Seq(1..MaxPings)]
    <3>1. << >> \in Seq(1..MaxPings)
      OBVIOUS
    <3> QED
      BY <1>0, <2>1, <3>1 DEF TypeOK
  <2>4. pc' \in [Threads -> Steps]
    BY <1>s, <1>p, <1>3 DEF ReadFails
  <2>5. main' \in {"starting", "returned", "serving", "stop", "clear", "closing", "gone"} /\ conn' = None
    BY <1>3, <1>0 DEF ReadFails, TypeOK
  <2>6. UNCHANGED <<destroyed, timer, attempt, closing, holder, target, result, link, network, late, fault>>
    BY <1>3 DEF ReadFails
  <2> QED
    BY <1>0, <2>2, <2>3, <2>4, <2>5, <2>6 DEF TypeOK
<1>4. ASSUME NEW t \in Threads, Reconnect(t) PROVE TypeOK'
  <2>1. CASE ScheduleReconnect(t)
    <3>1. pc' \in [Threads -> Steps]
      BY <1>s, <1>p, <2>1 DEF ScheduleReconnect
    <3>2. main' \in {"starting", "returned", "serving", "stop", "clear", "closing", "gone"}
      BY <1>0, <2>1 DEF ScheduleReconnect, TypeOK
    <3>3. UNCHANGED <<conn, destroyed, timer, attempt, closing, holder, target, result, link, pinged, read, pongs, network, late, fault>>
      BY <2>1 DEF ScheduleReconnect
    <3> QED
      BY <1>0, <3>1, <3>2, <3>3 DEF TypeOK
  <2>2. CASE Schedule(t)
    <3>1. attempt' \in 0..AttemptCap
      BY <1>0, <2>2 DEF Schedule, TypeOK
    <3>2. pc' \in [Threads -> Steps] /\ timer' \in Threads \cup {None}
      <4>1. PICK u \in Threads : pc' = [pc EXCEPT ![t] = "done", ![u] = "pending"] /\ timer' = u
        BY <2>2 DEF Schedule
      <4> QED
        BY <1>0, <1>s, <4>1 DEF TypeOK
    <3>3. main' \in {"starting", "returned", "serving", "stop", "clear", "closing", "gone"}
      BY <1>0, <2>2 DEF Schedule, TypeOK
    <3>4. UNCHANGED <<conn, destroyed, closing, holder, target, result, link, pinged, read, pongs, network, late, fault>>
      BY <2>2 DEF Schedule
    <3> QED
      BY <1>0, <3>1, <3>2, <3>3, <3>4 DEF TypeOK
  <2>3. CASE TimerFires(t)
    <3>1. pc' \in [Threads -> Steps]
      BY <1>s, <1>p, <2>3 DEF TimerFires
    <3>2. UNCHANGED <<conn, destroyed, timer, attempt, main, closing, holder, target, result, link, pinged, read, pongs, network, late, fault>>
      BY <2>3 DEF TimerFires
    <3> QED
      BY <1>0, <3>1, <3>2 DEF TypeOK
  <2> QED
    BY <1>4, <2>1, <2>2, <2>3 DEF Reconnect
<1>5. ASSUME NEW r \in Results, Produce(r) PROVE TypeOK'
  <2>1. result' \in [Results -> {"running", "ready", "delivered", "lost"}]
    BY <1>5, <1>0 DEF Produce, TypeOK
  <2>2. UNCHANGED <<pc, conn, destroyed, timer, attempt, main, closing, holder, target, link, pinged, read, pongs, network, late, fault>>
    BY <1>5 DEF Produce
  <2> QED
    BY <1>0, <2>1, <2>2 DEF TypeOK
<1>t. ASSUME NEW s \in Senders, NEW x \in {"delivered", "lost"}, Sent(s, x)
      PROVE  /\ pc' \in [Threads -> Steps]
             /\ result' \in [Results -> {"running", "ready", "delivered", "lost"}]
  <2>1. CASE s \in Threads
    <3>1. pc' = [pc EXCEPT ![s] = "read"] /\ result' = result
      BY <1>t, <2>1 DEF Sent
    <3> QED
      BY <1>0, <1>s, <1>p, <2>1, <3>1 DEF TypeOK
  <2>2. CASE s \notin Threads
    <3>1. result' = [result EXCEPT ![s] = x] /\ pc' = pc
      BY <1>t, <2>2 DEF Sent
    <3> QED
      BY <1>0, <3>1 DEF TypeOK
  <2> QED
    BY <2>1, <2>2
<1>6. ASSUME NEW s \in Senders, LockAndLook(s) PROVE TypeOK'
  <2>1. UNCHANGED <<conn, destroyed, timer, attempt, main, closing, link, pinged, read, pongs, network, late, fault>>
    BY <1>6 DEF LockAndLook
  <2>2. CASE conn = None
    <3>1. Sent(s, "lost") /\ holder' = holder /\ target' = target
      BY <1>6, <2>2 DEF LockAndLook
    <3>2. /\ pc' \in [Threads -> Steps]
          /\ result' \in [Results -> {"running", "ready", "delivered", "lost"}]
      BY <1>t, <3>1
    <3> QED
      BY <1>0, <2>1, <3>1, <3>2 DEF TypeOK
  <2>3. CASE conn # None
    <3>1. holder' = s /\ target' = conn /\ pc' = pc /\ result' = result
      BY <1>6, <2>3 DEF LockAndLook
    <3>2. conn \in Threads
      BY <1>0, <2>3 DEF TypeOK
    <3> QED
      BY <1>0, <2>1, <3>1, <3>2 DEF TypeOK
  <2> QED
    BY <2>2, <2>3
<1>7. ASSUME NEW s \in Senders, Write(s) PROVE TypeOK'
  <2>1. pongs' \in [Threads -> Seq(1..MaxPings)]
    <3>1. CASE s \in Threads
      <4>1. target \in Threads /\ read[s] \in 1..MaxPings
        BY <1>0, <1>7, <1>r, <3>1 DEF Write, TypeOK
      <4>2. Append(pongs[target], read[s]) \in Seq(1..MaxPings)
        BY <1>0, <4>1 DEF TypeOK
      <4>3. pongs' = [pongs EXCEPT ![target] = Append(pongs[target], read[s])]
        BY <1>7, <3>1 DEF Write
      <4> QED
        BY <1>0, <4>1, <4>2, <4>3 DEF TypeOK
    <3>2. CASE s \notin Threads
      <4>1. pongs' = pongs
        BY <1>7, <3>2 DEF Write
      <4> QED
        BY <1>0, <4>1 DEF TypeOK
    <3> QED
      BY <3>1, <3>2
  <2>2. pc' \in [Threads -> Steps] /\ result' \in [Results -> {"running", "ready", "delivered", "lost"}]
    BY <1>t, <1>7 DEF Write
  <2>3. holder' = None /\ target' = None /\ UNCHANGED <<conn, destroyed, timer, attempt, main, closing, link, pinged, read, network, late, fault>>
    BY <1>7 DEF Write
  <2> QED
    BY <1>0, <2>1, <2>2, <2>3 DEF TypeOK
<1>8. ASSUME NEW s \in Senders, WriteFails(s) PROVE TypeOK'
  <2>1. pc' \in [Threads -> Steps] /\ result' \in [Results -> {"running", "ready", "delivered", "lost"}]
    BY <1>t, <1>8 DEF WriteFails
  <2>2. link' \in [Threads -> {"none", "up", "stalled", "closed"}]
    BY <1>0, <1>8 DEF WriteFails, TypeOK
  <2>3. holder' = None /\ target' = None
        /\ UNCHANGED <<conn, destroyed, timer, attempt, main, closing, pinged, read, pongs, network, late, fault>>
    BY <1>8 DEF WriteFails
  <2> QED
    BY <1>0, <2>1, <2>2, <2>3 DEF TypeOK
<1>v. ASSUME NEW s \in Senders, WriteVanishes(s) PROVE TypeOK'
  <2>1. pc' \in [Threads -> Steps] /\ result' \in [Results -> {"running", "ready", "delivered", "lost"}]
    BY <1>t, <1>v DEF WriteVanishes
  <2>2. holder' = None /\ target' = None
        /\ UNCHANGED <<conn, destroyed, timer, attempt, main, closing, link, pinged, read, pongs, network, late, fault>>
    BY <1>v DEF WriteVanishes
  <2> QED
    BY <1>0, <2>1, <2>2 DEF TypeOK
<1>9. CASE Listen \/ DieWithoutStop \/ CloseConnection \/ MainReturns
  BY <1>9, <1>0 DEF Listen, DieWithoutStop, CloseConnection, MainReturns, TypeOK
<1>10. CASE Stop \/ DestroyStops \/ DestroyClears
  <2>1. pc' \in [Threads -> Steps]
    BY <1>0, <1>10, StopMoves
  <2>2. /\ UNCHANGED <<holder, target, result, link, pinged, read, pongs, network, late>>
        /\ attempt' \in {0, attempt} /\ timer' \in {timer, None} /\ conn' \in {conn, None}
        /\ main' \in {"closing", "stop", "clear", "gone"}
        /\ destroyed' \in {destroyed, TRUE} /\ closing' \in {closing, conn}
    BY <1>10, StopKeeps
  <2>3. fault' \in {fault, "Stop"}
    BY <1>10 DEF Stop, DestroyStops, DestroyClears, Unlock, Panic
  <2>4. 0 \in 0..AttemptCap
    OBVIOUS
  <2>5. /\ attempt' \in 0..AttemptCap /\ timer' \in Threads \cup {None}
        /\ conn' \in Threads \cup {None} /\ closing' \in Threads \cup {None}
        /\ main' \in {"starting", "returned", "serving", "stop", "clear", "closing", "gone"}
        /\ destroyed' \in BOOLEAN /\ fault' \in {"none", "reader", "Stop"}
    BY <1>0, <2>2, <2>3, <2>4 DEF TypeOK
  <2> QED
    BY <1>0, <2>1, <2>2, <2>5 DEF TypeOK
<1>11. CASE Environment
  <2>1. ASSUME NEW t \in Threads, BrokerPings(t) PROVE TypeOK'
    <3>1. pinged' \in [Threads -> 0..MaxPings]
      <4>1. pinged[t] \in 0..MaxPings /\ pinged[t] < MaxPings
        BY <2>1, <1>0 DEF BrokerPings, TypeOK
      <4>2. pinged[t] + 1 \in 0..MaxPings
        BY <4>1
      <4> QED
        BY <2>1, <1>0, <4>2 DEF BrokerPings, TypeOK
    <3> QED
      BY <2>1, <1>0, <3>1 DEF BrokerPings, TypeOK
  <2>2. ASSUME NEW t \in Threads, LinkBreaks(t) \/ KeepaliveGivesUp(t) PROVE TypeOK'
    <3>1. link' \in [Threads -> {"none", "up", "stalled", "closed"}]
      BY <2>2, <1>0 DEF LinkBreaks, KeepaliveGivesUp, TypeOK
    <3> QED
      BY <2>2, <1>0, <3>1 DEF LinkBreaks, KeepaliveGivesUp, TypeOK
  <2>3. CASE NetworkChanges
    BY <2>3, <1>0 DEF NetworkChanges, TypeOK
  <2> QED
    BY <1>11, <2>1, <2>2, <2>3 DEF Environment
<1>12. CASE UNCHANGED vars
  BY <1>12, <1>0 DEF vars, TypeOK
<1> QED
  BY <1>1, <1>2, <1>3, <1>4, <1>5, <1>6, <1>7, <1>8, <1>v, <1>9, <1>10, <1>11, <1>12
  DEF Next, Process, Thread, ReadLoop, Release

\* When one thread is under way the others are not.
LEMMA OnlyOne ==
  ASSUME TypeOK, Chain, NEW t \in Threads, pc[t] \notin Dormant
  PROVE  /\ \A u \in Threads : u # t => pc[u] \in Dormant
         /\ conn \in {None, t}
         /\ holder \in Threads => holder = t
         /\ timer \in Threads /\ timer # t => pc[timer] # "pending"
<1>1. \A u \in Threads : u # t => pc[u] \in Dormant
  BY DEF Chain, SingleChain, Live
<1>2. conn \in {None, t}
  BY <1>1 DEF Chain, ConnIsServed, TypeOK, Dormant, Serving
<1>3. holder \in Threads => holder = t
  BY <1>1 DEF Chain, HolderInv, Dormant
<1> QED
  BY <1>1, <1>2, <1>3 DEF Dormant

\* A step of thread t, where only its own pc changes, keeps the chain single.
LEMMA Moved ==
  ASSUME NEW t \in Threads, \A u \in Threads : u # t => pc'[u] \in Dormant
  PROVE  SingleChain'
BY DEF SingleChain, Live

\* connect: the thread is alone, and a.conn is its connection or none.
LEMMA ChainConnect ==
  ASSUME TypeOK, Chain, NEW t \in Threads, Connect(t)
  PROVE  Chain'
<1>0. pc[t] \in {"check", "dial", "opened", "adopted", "stop", "clear"}
  BY ResetMoves DEF Connect, Check, DialFails, DialOpens, Adopt
<1>1. pc[t] \notin Dormant
  BY <1>0 DEF Dormant
<1>2. /\ \A u \in Threads : u # t => pc[u] \in Dormant
      /\ conn \in {None, t}
      /\ holder \notin Threads
      /\ timer \in Threads /\ timer # t => pc[timer] # "pending"
  BY <1>0, <1>1, OnlyOne DEF Chain, HolderInv
<1>c. conn = t => pc[t] \in {"adopted", "stop", "clear"}
  BY <1>0, ConnectionAssumption DEF Chain, ConnIsServed, Serving
<1>3. holder' = holder
  BY ResetKeeps DEF Connect, Check, DialFails, DialOpens, Adopt, sending
<1>4. HolderInv'
  BY <1>2, <1>3 DEF HolderInv
<1>6. SingleChain'
  <2>1. CASE Reset(t)
    <3>1. \A u \in Threads : u # t => pc'[u] \in Dormant
      BY <1>2, <2>1, ResetMoves DEF Dormant
    <3> QED
      BY <3>1, Moved
  <2>2. CASE Check(t) \/ DialFails(t) \/ DialOpens(t) \/ Adopt(t)
    <3>1. \A u \in Threads : u # t => pc'[u] = pc[u]
      BY <2>2 DEF Check, DialFails, DialOpens, Adopt, TypeOK
    <3> QED
      BY <1>2, <3>1, Moved
  <2> QED
    BY <2>1, <2>2 DEF Connect
<1>7. ConnIsServed' /\ BackoffInv'
  <2>1. CASE Check(t) \/ DialFails(t) \/ DialOpens(t)
    <3>1. conn' = None
      BY <2>1, <1>2, <1>c DEF Check, DialFails, DialOpens
    <3> QED
      BY <3>1 DEF ConnIsServed, BackoffInv, Serving
  <2>2. CASE Adopt(t)
    <3>1. conn' = t /\ pc'[t] = "adopted"
      BY <2>2 DEF Adopt, TypeOK
    <3> QED
      BY <3>1 DEF ConnIsServed, BackoffInv, Serving
  <2>3. CASE Reset(t)
    <3>1. conn' = conn /\ (attempt' = 0 \/ (attempt' = attempt /\ pc[t] \in {"stop", "clear"}))
      BY <2>3, ResetKeeps
    <3>2. pc'[t] \in {"stop", "clear", "read"}
      BY <2>3, ResetMoves
    <3> QED
      BY <1>2, <3>1, <3>2 DEF ConnIsServed, BackoffInv, Chain, Serving
  <2> QED
    BY <2>1, <2>2, <2>3 DEF Connect
<1> QED
  BY <1>4, <1>6, <1>7 DEF Chain

\* readLoop: the same, and a.conn is cleared when the read fails.
LEMMA ChainReadLoop ==
  ASSUME TypeOK, Chain, NEW t \in Threads, ReadLoop(t)
  PROVE  Chain'
<1>0. pc[t] = "read"
  BY DEF ReadLoop, ReadPing, ReadFails
<1>1. pc[t] \notin Dormant
  BY <1>0 DEF Dormant
<1>2. /\ \A u \in Threads : u # t => pc[u] \in Dormant
      /\ conn \in {None, t}
      /\ holder \notin Threads
  BY <1>0, <1>1, OnlyOne DEF Chain, HolderInv
<1>3. holder' = holder /\ attempt' = attempt
  BY DEF ReadLoop, ReadPing, ReadFails, sending, reconnect
<1>4. HolderInv'
  BY <1>2, <1>3 DEF HolderInv
<1>5. \E x : pc' = [pc EXCEPT ![t] = x]
  BY DEF ReadLoop, ReadPing, ReadFails
<1>6. SingleChain'
  <2>1. \A u \in Threads : u # t => pc'[u] = pc[u]
    BY <1>5 DEF TypeOK
  <2> QED
    BY <1>2, <2>1, Moved
<1>7. ConnIsServed' /\ BackoffInv'
  <2>1. CASE ReadPing(t)
    <3>1. conn' = conn /\ pc'[t] = "pong"
      BY <2>1 DEF ReadPing, TypeOK
    <3>2. conn # None => attempt = 0
      BY <1>0, <1>2 DEF Chain, BackoffInv
    <3> QED
      BY <1>2, <1>3, <3>1, <3>2 DEF ConnIsServed, BackoffInv, Serving
  <2>2. CASE ReadFails(t)
    <3>1. conn' = None
      BY <2>2 DEF ReadFails
    <3> QED
      BY <3>1 DEF ConnIsServed, BackoffInv, Serving
  <2> QED
    BY <2>1, <2>2 DEF ReadLoop
<1> QED
  BY <1>4, <1>6, <1>7 DEF Chain

\* scheduleReconnect: the thread ends as it starts its successor.
LEMMA ChainReconnect ==
  ASSUME TypeOK, Chain, NEW t \in Threads, Reconnect(t)
  PROVE  Chain'
<1>0. pc[t] \in {"failed", "schedule", "pending"}
  BY DEF Reconnect, ScheduleReconnect, Schedule, TimerFires
<1>1. pc[t] \notin Dormant
  BY <1>0 DEF Dormant
<1>2. /\ \A u \in Threads : u # t => pc[u] \in Dormant
      /\ holder \notin Threads
  BY <1>0, <1>1, OnlyOne DEF Chain, HolderInv
<1>3. conn = None
  BY <1>0, <1>1, OnlyOne DEF Chain, ConnIsServed, Serving
<1>4. holder' = holder /\ conn' = conn
  BY DEF Reconnect, ScheduleReconnect, Schedule, TimerFires, sending
<1>5. HolderInv' /\ ConnIsServed' /\ BackoffInv'
  BY <1>2, <1>3, <1>4 DEF HolderInv, ConnIsServed, BackoffInv
<1>6. SingleChain'
  <2>1. CASE ScheduleReconnect(t) \/ TimerFires(t)
    <3>1. \E x : pc' = [pc EXCEPT ![t] = x]
      BY <2>1 DEF ScheduleReconnect, TimerFires
    <3>2. \A u \in Threads : u # t => pc'[u] = pc[u]
      BY <3>1 DEF TypeOK
    <3> QED
      BY <1>2, <3>2, Moved
  <2>2. CASE Schedule(t)
    <3>1. PICK u \in Threads \ {t} : pc' = [pc EXCEPT ![t] = "done", ![u] = "pending"]
      BY <2>2 DEF Schedule
    <3>2. \A v \in Threads : v # u => pc'[v] \in Dormant
      BY <1>2, <3>1 DEF TypeOK, Dormant
    <3> QED
      BY <3>2, Moved
  <2> QED
    BY <2>1, <2>2 DEF Reconnect
<1> QED
  BY <1>5, <1>6 DEF Chain

\* What the sender's steps do to the threads: a thread reads on, or takes sendMu.
LEMMA ChainSend ==
  ASSUME TypeOK, Chain, NEW s \in Senders, LockAndLook(s) \/ Release(s)
  PROVE  Chain'
<1>0. conn' = conn /\ attempt' = attempt
  BY DEF LockAndLook, Release, Write, WriteFails, WriteVanishes, reconnect
<1>1. ASSUME s \in Threads PROVE pc[s] = "pong"
  BY <1>1, ConnectionAssumption DEF LockAndLook, Wanting, Release, Write, WriteFails, WriteVanishes, Chain, HolderInv
<1>2. \/ pc' = pc
      \/ s \in Threads /\ pc' = [pc EXCEPT ![s] = "read"]
  BY DEF LockAndLook, Release, Write, WriteFails, WriteVanishes, Sent
<1>3. ASSUME NEW u \in Threads PROVE pc'[u] = pc[u] \/ (pc[u] = "pong" /\ pc'[u] = "read")
  <2>1. CASE s \in Threads /\ pc' = [pc EXCEPT ![s] = "read"]
    <3>1. pc[s] = "pong"
      BY <1>1, <2>1
    <3>2. pc'[u] = IF u = s THEN "read" ELSE pc[u]
      BY <2>1 DEF TypeOK
    <3> QED
      BY <3>1, <3>2
  <2> QED
    BY <1>2, <2>1
<1>4. SingleChain'
  <2>1. \A u \in Threads : Live(u)' => Live(u)
    BY <1>3 DEF Live, Dormant
  <2> QED
    BY <2>1 DEF Chain, SingleChain
<1>5. ConnIsServed'
  BY <1>0, <1>3 DEF Chain, ConnIsServed, TypeOK, Serving
<1>6. BackoffInv'
  BY <1>0, <1>3 DEF Chain, BackoffInv, TypeOK
<1>7. HolderInv'
  <2>1. CASE LockAndLook(s)
    <3>1. CASE conn = None
      <4>1. holder' = None
        BY <2>1, <3>1 DEF LockAndLook
      <4> QED
        BY <4>1, ConnectionAssumption DEF HolderInv
    <3>2. CASE conn # None
      <4>1. holder' = s /\ target' = conn /\ pc' = pc
        BY <2>1, <3>2 DEF LockAndLook
      <4>2. s \in Threads => conn = s
        BY <1>1, <3>2, OnlyOne DEF Dormant
      <4> QED
        BY <1>1, <4>1, <4>2 DEF HolderInv
    <3> QED
      BY <3>1, <3>2
  <2>2. CASE Release(s)
    <3>1. holder' = None
      BY <2>2 DEF Release, Write, WriteFails, WriteVanishes
    <3> QED
      BY <3>1, ConnectionAssumption DEF HolderInv
  <2> QED
    BY <2>1, <2>2
<1> QED
  BY <1>4, <1>5, <1>6, <1>7 DEF Chain

\* No step makes a second thread, or leaves a.conn to a dead one.
LEMMA ChainStep == ASSUME IInv, [Next]_vars PROVE Chain'
<1>0. TypeOK /\ Chain
  BY DEF IInv
<1>u. ASSUME UNCHANGED <<pc, conn, attempt, holder, target>> PROVE Chain'
  BY <1>u, <1>0 DEF Chain, SingleChain, ConnIsServed, BackoffInv, HolderInv, Live
<1>1. ASSUME NEW t \in Threads, Thread(t) PROVE Chain'
  BY <1>1, <1>0, ChainConnect, ChainReadLoop, ChainReconnect DEF Thread
<1>2. ASSUME NEW s \in Senders, LockAndLook(s) \/ Release(s) PROVE Chain'
  BY <1>2, <1>0, ChainSend
<1>3. ASSUME NEW r \in Results, Produce(r) PROVE Chain'
  BY <1>3, <1>u DEF Produce, reconnect
<1>4. CASE Listen \/ DieWithoutStop \/ CloseConnection \/ MainReturns
  BY <1>4, <1>u DEF Listen, DieWithoutStop, CloseConnection, MainReturns, reconnect, sending
<1>5. CASE Stop \/ DestroyStops \/ DestroyClears
  <2>1. conn' \in {conn, None} /\ attempt' \in {0, attempt} /\ holder' = holder /\ target' = target
    BY <1>5, StopKeeps
  <2>2. ASSUME NEW u \in Threads PROVE pc'[u] = pc[u] \/ (pc[u] = "pending" /\ pc'[u] = "stopped")
    BY <1>5, <1>0, StopMoves
  <2>3. SingleChain'
    BY <1>0, <2>2 DEF Chain, SingleChain, Live, Dormant
  <2>4. HolderInv'
    BY <1>0, <2>1, <2>2 DEF Chain, HolderInv
  <2>5. ConnIsServed' /\ BackoffInv'
    BY <1>0, <2>1, <2>2 DEF Chain, ConnIsServed, BackoffInv, Serving, TypeOK
  <2> QED
    BY <2>3, <2>4, <2>5 DEF Chain
<1>6. CASE Environment
  BY <1>6, <1>u DEF Environment, BrokerPings, LinkBreaks, KeepaliveGivesUp, NetworkChanges, reconnect, sending
<1>7. CASE UNCHANGED vars
  BY <1>7, <1>u DEF vars
<1> QED
  BY <1>1, <1>2, <1>3, <1>4, <1>5, <1>6, <1>7 DEF Next, Process

\* After Stop the only connection comes from a dial that was under way.
LEMMA LateStep == ASSUME IInv, [Next]_vars PROVE LateInv'
<1>0. TypeOK /\ Chain /\ LateInv
  BY DEF IInv
<1>u. ASSUME UNCHANGED <<pc, main, late, destroyed>> PROVE LateInv'
  BY <1>u, <1>0 DEF LateInv
<1>c. ASSUME late = "none", late' = "none", main' = "closing" => destroyed' PROVE LateInv'
  BY <1>c DEF LateInv
<1>d. CASE late = "none"
  <2>1. main = "closing" => destroyed
    BY <1>0 DEF LateInv
  <2>2. ASSUME NEW t \in Threads, Adopt(t) PROVE LateInv'
    <3>1. main' = main /\ destroyed' = destroyed
      BY <2>2 DEF Adopt
    <3>2. CASE main # "closing"
      BY <1>c, <1>d, <2>2, <3>1, <3>2 DEF Adopt
    <3>3. CASE main = "closing"
      <4>1. late' = "one"
        BY <1>d, <2>2, <3>3 DEF Adopt
      <4>2. pc[t] = "opened"
        BY <2>2 DEF Adopt
      <4>3. \A u \in Threads : u # t => pc[u] \in Dormant
        BY <1>0, <4>2, OnlyOne DEF Dormant
      <4>4. \A u \in Threads : pc'[u] = IF u = t THEN "adopted" ELSE pc[u]
        BY <1>0, <2>2 DEF Adopt, TypeOK
      <4>5. \A u \in Threads : pc'[u] \in Dormant \cup Serving
        BY <4>3, <4>4 DEF Serving
      <4> QED
        BY <2>1, <3>1, <3>3, <4>1, <4>5 DEF LateInv
    <3> QED
      BY <3>2, <3>3
  <2>3. ASSUME ~ \E t \in Threads : Adopt(t) PROVE LateInv'
    <3>1. late' = late
      BY <2>3, ResetKeeps, StopKeeps DEF Next, Process, Environment, Thread, Connect, ReadLoop,
        Reconnect, Release, Check, DialFails, DialOpens, ReadPing, ReadFails, ScheduleReconnect,
        Schedule, TimerFires, Produce, LockAndLook, Write, WriteFails, WriteVanishes, Listen,
        DieWithoutStop, CloseConnection, MainReturns, BrokerPings, LinkBreaks, KeepaliveGivesUp,
        NetworkChanges, vars
    <3>2. main' = "closing" => destroyed'
      <4>1. CASE Stop \/ DestroyStops \/ DestroyClears
        BY <4>1, StopKeeps
      <4>2. CASE ~(Stop \/ DestroyStops \/ DestroyClears)
        <5>1. destroyed' = destroyed
          BY <4>2, ResetKeeps DEF Next, Process, Environment, Thread, Connect, ReadLoop, Reconnect,
            Release, Check, DialFails, DialOpens, Adopt, ReadPing, ReadFails, ScheduleReconnect,
            Schedule, TimerFires, Produce, LockAndLook, Write, WriteFails, WriteVanishes, Listen,
            DieWithoutStop, CloseConnection, MainReturns, BrokerPings, LinkBreaks,
            KeepaliveGivesUp, NetworkChanges, vars
        <5>2. main' = "closing" => main = "closing"
          BY <4>2, ResetKeeps DEF Next, Process, Environment, Thread, Connect, ReadLoop, Reconnect,
            Release, Check, DialFails, DialOpens, Adopt, ReadPing, ReadFails, ScheduleReconnect,
            Schedule, TimerFires, Produce, LockAndLook, Write, WriteFails, WriteVanishes, Listen,
            DieWithoutStop, CloseConnection, MainReturns, BrokerPings, LinkBreaks,
            KeepaliveGivesUp, NetworkChanges, StartReturns, vars
        <5> QED
          BY <2>1, <5>1, <5>2
      <4> QED
        BY <4>1, <4>2
    <3> QED
      BY <1>c, <1>d, <3>1, <3>2
  <2> QED
    BY <2>2, <2>3
<1>e. CASE late = "one"
  <2>0. /\ main \in {"closing", "gone"}
        /\ main = "closing" => destroyed
        /\ \A t \in Threads : pc[t] \in Dormant \cup Serving
    BY <1>0, <1>e DEF LateInv
  <2>q. ASSUME main' \in {main, "gone"}, destroyed' = destroyed, late' = late,
               \A u \in Threads : pc'[u] \in Dormant \cup Serving
        PROVE  LateInv'
    BY <2>q, <2>0, <1>e DEF LateInv
  <2>1. ASSUME NEW t \in Threads, Thread(t), main # "gone" PROVE LateInv'
    <3>0. destroyed /\ pc[t] \in {"idle", "stopped", "done", "adopted", "stop", "clear", "read", "pong"}
      BY <2>0, <2>1 DEF Dormant, Serving
    <3>1. CASE Reset(t)
      <4>1. ASSUME NEW u \in Threads PROVE pc'[u] \in Dormant \cup Serving
        <5>1. pc'[t] \in Serving
          BY <1>0, <3>1, ResetMoves DEF Serving
        <5>2. u # t => pc'[u] = pc[u] \/ pc'[u] = "stopped"
          BY <1>0, <3>1, ResetMoves
        <5> QED
          BY <2>0, <5>1, <5>2 DEF Dormant
      <4> QED
        BY <2>q, <3>1, <4>1, ResetKeeps
    <3>2. CASE ReadPing(t) \/ ReadFails(t)
      <4>1. pc' = [pc EXCEPT ![t] = "pong"] \/ pc' = [pc EXCEPT ![t] = "done"]
        BY <3>0, <3>2 DEF ReadPing, ReadFails
      <4>2. \A u \in Threads : pc'[u] \in Dormant \cup Serving
        BY <1>0, <2>0, <4>1 DEF TypeOK, Dormant, Serving
      <4>3. main' = main
        BY <2>0, <3>2 DEF ReadPing, ReadFails, StartReturns
      <4> QED
        BY <2>q, <3>2, <4>2, <4>3 DEF ReadPing, ReadFails
    <3> QED
      BY <2>1, <3>0, <3>1, <3>2 DEF Thread, Connect, ReadLoop, Reconnect, Check, DialFails,
        DialOpens, Adopt, ScheduleReconnect, Schedule, TimerFires
  <2>2. ASSUME NEW s \in Senders, LockAndLook(s) \/ Release(s) PROVE LateInv'
    <3>1. \/ pc' = pc
          \/ s \in Threads /\ pc' = [pc EXCEPT ![s] = "read"]
      BY <2>2 DEF LockAndLook, Release, Write, WriteFails, WriteVanishes, Sent
    <3>2. \A u \in Threads : pc'[u] \in Dormant \cup Serving
      BY <1>0, <2>0, <3>1 DEF TypeOK, Serving
    <3> QED
      BY <2>q, <2>2, <3>2 DEF LockAndLook, Release, Write, WriteFails, WriteVanishes
  <2>3. ASSUME NEW r \in Results, Produce(r) PROVE LateInv'
    BY <2>3, <1>u DEF Produce
  <2>4. CASE Listen \/ DieWithoutStop \/ Stop \/ DestroyStops \/ DestroyClears
    BY <2>4, <2>0 DEF Listen, DieWithoutStop, Stop, DestroyStops, DestroyClears
  <2>5. CASE CloseConnection
    BY <2>5, <1>u DEF CloseConnection
  <2>6. CASE MainReturns
    <3>1. pc' = pc /\ destroyed' = destroyed /\ late' = late /\ main' = "gone"
      BY <2>6 DEF MainReturns
    <3> QED
      BY <2>0, <2>q, <3>1
  <2>7. CASE Environment
    BY <2>7, <1>u DEF Environment, BrokerPings, LinkBreaks, KeepaliveGivesUp, NetworkChanges
  <2>8. CASE UNCHANGED vars
    BY <2>8, <1>u DEF vars
  <2> QED
    BY <2>1, <2>2, <2>3, <2>4, <2>5, <2>6, <2>7, <2>8 DEF Next, Process
<1> QED
  BY <1>0, <1>d, <1>e DEF LateInv

\* A connection of which no ping is read yet has no pongs.
LEMMA PongIdle ==
  ASSUME NEW k \in Threads, pc'[k] # "pong", read'[k] = 0, pongs'[k] = <<>>, holder' # k
  PROVE  PongInv(k)'
BY DEF PongInv

\* A step that does not touch connection k.
LEMMA PongSame ==
  ASSUME NEW k \in Threads, PongInv(k),
         \/ pc'[k] = pc[k]
         \/ pc[k] \notin {"read", "pong"} /\ pc'[k] \notin {"read", "pong"},
         read'[k] = read[k], pongs'[k] = pongs[k],
         link'[k] = "up" => link[k] = "up",
         conn' = k => conn = k,
         holder' = k => holder = k
  PROVE  PongInv(k)'
<1>1. /\ pc'[k] \notin {"read", "pong"} => read'[k] = 0 /\ pongs'[k] = <<>>
      /\ Len(pongs'[k]) <= read'[k]
      /\ \A i \in 1..Len(pongs'[k]) : pongs'[k][i] = i
      /\ pc'[k] = "pong" => Len(pongs'[k]) < read'[k]
  BY DEF PongInv
<1>2. link'[k] = "up" /\ conn' = k =>
        Len(pongs'[k]) = IF pc'[k] = "pong" THEN read'[k] - 1 ELSE read'[k]
  BY DEF PongInv
<1>3. link'[k] = "up" /\ holder' = k => Len(pongs'[k]) = read'[k] - 1
  BY DEF PongInv
<1> QED
  BY <1>1, <1>2, <1>3 DEF PongInv

\* A step of thread t does not touch the connection of another thread.
LEMMA PongOther ==
  ASSUME TypeOK, NEW k \in Threads, PongInv(k), NEW t \in Threads, k # t, Thread(t)
  PROVE  PongInv(k)'
<1>1. \/ pc'[k] = pc[k]
      \/ pc[k] \notin {"read", "pong"} /\ pc'[k] \notin {"read", "pong"}
  <2>1. CASE Reset(t)
    <3>1. pc'[k] = pc[k] \/ (pc[k] = "pending" /\ pc'[k] = "stopped")
      BY <2>1, ResetMoves
    <3> QED
      BY <3>1
  <2>2. CASE Schedule(t)
    <3>1. PICK u \in Threads : pc[u] \in Dormant /\ pc' = [pc EXCEPT ![t] = "done", ![u] = "pending"]
      BY <2>2 DEF Schedule
    <3>2. pc'[k] = IF k = u THEN "pending" ELSE pc[k]
      BY <3>1 DEF TypeOK
    <3> QED
      BY <3>1, <3>2 DEF Dormant
  <2>3. CASE Check(t) \/ DialFails(t) \/ DialOpens(t) \/ Adopt(t)
    BY <2>3 DEF Check, DialFails, DialOpens, Adopt, TypeOK
  <2>4. CASE ReadPing(t) \/ ReadFails(t) \/ ScheduleReconnect(t) \/ TimerFires(t)
    BY <2>4 DEF ReadPing, ReadFails, ScheduleReconnect, TimerFires, TypeOK
  <2> QED
    BY <2>1, <2>2, <2>3, <2>4 DEF Thread, Connect, ReadLoop, Reconnect
<1>2. read'[k] = read[k] /\ pongs'[k] = pongs[k] /\ link'[k] = link[k]
      /\ (conn' = k => conn = k) /\ holder' = holder
  <2>1. CASE Connect(t)
    BY <2>1, ResetKeeps, ConnectionAssumption
    DEF Connect, Check, DialFails, DialOpens, Adopt, TypeOK, traffic, sending
  <2>2. CASE ReadLoop(t)
    BY <2>2, ConnectionAssumption DEF ReadLoop, ReadPing, ReadFails, Forget, TypeOK, sending
  <2>3. CASE Reconnect(t)
    BY <2>3 DEF Reconnect, ScheduleReconnect, Schedule, TimerFires, traffic, sending
  <2> QED
    BY <2>1, <2>2, <2>3 DEF Thread
<1> QED
  BY <1>1, <1>2, PongSame

\* readLoop reads a ping of its own connection and owes the pong.
LEMMA PongReadPing ==
  ASSUME TypeOK, HolderInv, NEW k \in Threads, PongInv(k), ReadPing(k)
  PROVE  PongInv(k)'
<1>1. pc'[k] = "pong" /\ read'[k] = read[k] + 1
  BY DEF ReadPing, TypeOK
<1>2. pongs' = pongs /\ link' = link /\ conn' = conn /\ holder' # k
  BY DEF ReadPing, HolderInv, sending
<1>3. /\ Len(pongs[k]) <= read[k]
      /\ \A i \in 1..Len(pongs[k]) : pongs[k][i] = i
      /\ link[k] = "up" /\ conn = k => Len(pongs[k]) = read[k]
  BY DEF PongInv, ReadPing
<1>4. read[k] \in Nat /\ Len(pongs[k]) \in Nat
  BY DEF TypeOK
<1>5. Len(pongs[k]) < read[k] + 1 /\ Len(pongs[k]) <= read[k] + 1 /\ (read[k] + 1) - 1 = read[k]
  BY <1>3, <1>4
<1> QED
  BY <1>1, <1>2, <1>3, <1>5 DEF PongInv

\* A thread steps on its own connection.
LEMMA PongOwn ==
  ASSUME TypeOK, Chain, NEW k \in Threads, PongInv(k), Thread(k)
  PROVE  PongInv(k)'
<1>0. HolderInv
  BY DEF Chain
<1>1. CASE Connect(k)
  <2>1. pc[k] \notin {"read", "pong"} /\ pc[k] # "pending" /\ read' = read /\ pongs' = pongs /\ holder' = holder
    BY <1>1, ResetMoves, ResetKeeps DEF Connect, Check, DialFails, DialOpens, Adopt, traffic, sending
  <2>2. read[k] = 0 /\ pongs[k] = <<>> /\ holder # k
    BY <1>0, <2>1 DEF PongInv, HolderInv
  <2>3. pc'[k] # "pong"
    <3>1. CASE Reset(k)
      <4>1. pc'[k] \in {"stop", "clear", "read"}
        BY <3>1, ResetMoves
      <4> QED
        BY <4>1
    <3> QED
      BY <1>1, <3>1 DEF Connect, Check, DialFails, DialOpens, Adopt, TypeOK
  <2> QED
    BY <2>1, <2>2, <2>3, PongIdle
<1>2. CASE ReadPing(k)
  BY <1>0, <1>2, PongReadPing
<1>3. CASE ReadFails(k)
  <2>1. pc'[k] \in {"done", "failed"} /\ read'[k] = 0 /\ pongs'[k] = <<>>
    BY <1>3 DEF ReadFails, Forget, TypeOK
  <2>2. holder' # k
    BY <1>0, <1>3 DEF ReadFails, HolderInv, sending
  <2> QED
    BY <2>1, <2>2, PongIdle
<1>4. CASE Reconnect(k)
  <2>1. pc[k] \notin {"read", "pong"} /\ read' = read /\ pongs' = pongs /\ link' = link
        /\ conn' = conn /\ holder' = holder
    BY <1>4 DEF Reconnect, ScheduleReconnect, Schedule, TimerFires, traffic, sending
  <2>2. pc'[k] \notin {"read", "pong"}
    BY <1>4 DEF Reconnect, ScheduleReconnect, Schedule, TimerFires, TypeOK
  <2> QED
    BY <2>1, <2>2, PongSame
<1> QED
  BY <1>1, <1>2, <1>3, <1>4 DEF Thread, ReadLoop

\* A sender takes the lock, writes, or fails to.
LEMMA PongLock ==
  ASSUME TypeOK, Chain, NEW k \in Threads, PongInv(k), NEW s \in Senders, LockAndLook(s)
  PROVE  PongInv(k)'
<1>1. pongs' = pongs /\ read' = read /\ link' = link /\ conn' = conn /\ holder = None
  BY DEF LockAndLook, traffic
<1>2. CASE conn = None
  <2>1. holder' = holder
    BY <1>2 DEF LockAndLook
  <2>2. CASE s = k
    <3>1. pc[k] = "pong" /\ pc'[k] = "read"
      BY <1>2, <2>2 DEF LockAndLook, Wanting, Sent, TypeOK
    <3>2. conn' # k /\ holder' # k
      BY <1>1, <1>2, <2>1, ConnectionAssumption
    <3>3. Len(pongs[k]) <= read[k] /\ \A i \in 1..Len(pongs[k]) : pongs[k][i] = i
      BY DEF PongInv
    <3> QED
      BY <1>1, <3>1, <3>2, <3>3 DEF PongInv
  <2>3. CASE s # k
    <3>1. pc'[k] = pc[k]
      BY <1>2, <2>3 DEF LockAndLook, Sent, TypeOK
    <3> QED
      BY <1>1, <2>1, <3>1, PongSame
  <2> QED
    BY <2>2, <2>3
<1>3. CASE conn # None
  <2>1. pc' = pc /\ holder' = s
    BY <1>3 DEF LockAndLook
  <2>2. CASE s = k
    <3>1. pc[k] = "pong"
      BY <2>2 DEF LockAndLook, Wanting
    <3>2. conn = k
      <4>1. pc[k] \notin Dormant
        BY <3>1 DEF Dormant
      <4> QED
        BY <1>3, <4>1, OnlyOne
    <3>3. /\ Len(pongs[k]) <= read[k] /\ Len(pongs[k]) < read[k]
          /\ \A i \in 1..Len(pongs[k]) : pongs[k][i] = i
          /\ link[k] = "up" => Len(pongs[k]) = read[k] - 1
      BY <3>1, <3>2 DEF PongInv
    <3> QED
      BY <1>1, <2>1, <3>1, <3>3 DEF PongInv
  <2>3. CASE s # k
    BY <1>1, <2>1, <2>3, PongSame
  <2> QED
    BY <2>2, <2>3
<1> QED
  BY <1>2, <1>3

LEMMA PongWrite ==
  ASSUME TypeOK, Chain, NEW k \in Threads, PongInv(k), NEW s \in Senders, Write(s)
  PROVE  PongInv(k)'
<1>1. read' = read /\ link' = link /\ conn' = conn /\ holder = s /\ holder' = None
  BY DEF Write
<1>2. CASE s = k
  <2>1. pc[k] = "pong" /\ target = k
    BY <1>1, <1>2 DEF Chain, HolderInv
  <2>2. link[k] = "up" /\ pc' = [pc EXCEPT ![k] = "read"] /\ pongs' = [pongs EXCEPT ![k] = Append(pongs[k], read[k])]
    BY <1>2, <2>1 DEF Write, Sent
  <2>3. pc'[k] = "read" /\ pongs'[k] = Append(pongs[k], read[k])
    BY <2>2 DEF TypeOK
  <2>4. Len(pongs[k]) = read[k] - 1 /\ \A i \in 1..Len(pongs[k]) : pongs[k][i] = i
    BY <1>1, <1>2, <2>2 DEF PongInv
  <2>5. pongs[k] \in Seq(1..MaxPings) /\ read[k] \in Nat /\ Len(pongs[k]) \in Nat
    BY DEF TypeOK
  <2>6. Len(pongs'[k]) = read[k]
    BY <2>3, <2>4, <2>5
  <2>7. ASSUME NEW i \in 1..Len(pongs'[k]) PROVE pongs'[k][i] = i
    <3>1. CASE i = read[k]
      <4>1. i = Len(pongs[k]) + 1
        BY <2>4, <2>5, <3>1
      <4> QED
        BY <2>3, <2>5, <3>1, <4>1
    <3>2. CASE i # read[k]
      <4>1. i \in 1..Len(pongs[k])
        BY <2>4, <2>5, <2>6, <3>2
      <4>2. pongs'[k][i] = pongs[k][i]
        BY <2>3, <2>5, <4>1
      <4> QED
        BY <2>4, <4>1, <4>2
    <3> QED
      BY <3>1, <3>2
  <2>8. holder' # k
    BY <1>1, ConnectionAssumption
  <2> QED
    BY <1>1, <2>3, <2>5, <2>6, <2>7, <2>8 DEF PongInv
<1>3. CASE s # k
  <2>1. pc'[k] = pc[k]
    BY <1>3 DEF Write, Sent, TypeOK
  <2>2. pongs'[k] = pongs[k]
    <3>1. CASE s \in Threads
      <4>1. target = s
        BY <1>1, <3>1 DEF Chain, HolderInv
      <4> QED
        BY <1>3, <3>1, <4>1 DEF Write, TypeOK
    <3>2. CASE s \notin Threads
      BY <3>2 DEF Write
    <3> QED
      BY <3>1, <3>2
  <2>3. holder' # k
    BY <1>1, ConnectionAssumption
  <2> QED
    BY <1>1, <2>1, <2>2, <2>3, PongSame
<1> QED
  BY <1>2, <1>3

LEMMA PongWriteFails ==
  ASSUME TypeOK, Chain, NEW k \in Threads, PongInv(k), NEW s \in Senders, WriteFails(s)
  PROVE  PongInv(k)'
<1>1. read' = read /\ pongs' = pongs /\ conn' = conn /\ holder = s /\ holder' = None
      /\ link' = [link EXCEPT ![target] = "closed"]
  BY DEF WriteFails, traffic
<1>2. holder' # k
  BY <1>1, ConnectionAssumption
<1>3. link'[k] = "up" => link[k] = "up" /\ k # target
  BY <1>1 DEF TypeOK
<1>4. CASE s = k
  <2>1. pc[k] = "pong" /\ target = k
    BY <1>1, <1>4 DEF Chain, HolderInv
  <2>2. pc'[k] = "read"
    BY <1>4 DEF WriteFails, Sent, TypeOK
  <2>3. Len(pongs[k]) <= read[k] /\ \A i \in 1..Len(pongs[k]) : pongs[k][i] = i
    BY DEF PongInv
  <2> QED
    BY <1>1, <1>2, <1>3, <2>1, <2>2, <2>3 DEF PongInv
<1>5. CASE s # k
  <2>1. pc'[k] = pc[k]
    BY <1>5 DEF WriteFails, Sent, TypeOK
  <2> QED
    BY <1>1, <1>2, <1>3, <2>1, PongSame
<1> QED
  BY <1>4, <1>5

LEMMA PongWriteVanishes ==
  ASSUME TypeOK, Chain, NEW k \in Threads, PongInv(k), NEW s \in Senders, WriteVanishes(s)
  PROVE  PongInv(k)'
<1>1. read' = read /\ pongs' = pongs /\ conn' = conn /\ link' = link /\ holder = s /\ holder' = None
  BY DEF WriteVanishes, traffic
<1>2. holder' # k
  BY <1>1, ConnectionAssumption
<1>3. CASE s = k
  <2>1. pc[k] = "pong" /\ link[k] # "up"
    BY <1>1, <1>3 DEF Chain, HolderInv, WriteVanishes
  <2>2. pc'[k] = "read"
    BY <1>3 DEF WriteVanishes, Sent, TypeOK
  <2>3. Len(pongs[k]) <= read[k] /\ \A i \in 1..Len(pongs[k]) : pongs[k][i] = i
    BY DEF PongInv
  <2> QED
    BY <1>1, <1>2, <2>1, <2>2, <2>3 DEF PongInv
<1>4. CASE s # k
  <2>1. pc'[k] = pc[k]
    BY <1>4 DEF WriteVanishes, Sent, TypeOK
  <2> QED
    BY <1>1, <1>2, <2>1, PongSame
<1> QED
  BY <1>3, <1>4

\* The pongs of connection k.
LEMMA PongStep == ASSUME IInv, [Next]_vars, NEW k \in Threads PROVE PongInv(k)'
<1>0. TypeOK /\ Chain /\ PongInv(k)
  BY DEF IInv
<1>1. ASSUME NEW t \in Threads, Thread(t) PROVE PongInv(k)'
  BY <1>0, <1>1, PongOwn, PongOther
<1>2. ASSUME NEW s \in Senders, LockAndLook(s) \/ Release(s) PROVE PongInv(k)'
  BY <1>0, <1>2, PongLock, PongWrite, PongWriteFails, PongWriteVanishes DEF Release
<1>3. CASE Stop \/ DestroyStops \/ DestroyClears
  <2>1. read' = read /\ pongs' = pongs /\ link' = link /\ conn' \in {conn, None} /\ holder' = holder
    BY <1>3, StopKeeps
  <2>2. pc'[k] = pc[k] \/ (pc[k] = "pending" /\ pc'[k] = "stopped")
    BY <1>0, <1>3, StopMoves
  <2>3. conn' = k => conn = k
    BY <2>1, ConnectionAssumption
  <2> QED
    BY <1>0, <2>1, <2>2, <2>3, PongSame
<1>4. CASE CloseConnection
  <2>1. pc' = pc /\ read' = read /\ pongs' = pongs /\ conn' = conn /\ holder' = holder
    BY <1>4 DEF CloseConnection, traffic, sending
  <2>2. link'[k] = "up" => link[k] = "up"
    BY <1>0, <1>4 DEF CloseConnection, TypeOK
  <2> QED
    BY <1>0, <2>1, <2>2, PongSame
<1>5. ASSUME \/ Listen \/ DieWithoutStop \/ MainReturns \/ NetworkChanges \/ UNCHANGED vars
             \/ \E r \in Results : Produce(r)
             \/ \E t \in Threads : BrokerPings(t)
      PROVE  PongInv(k)'
  <2>1. pc' = pc /\ read' = read /\ pongs' = pongs /\ link' = link /\ conn' = conn /\ holder' = holder
    BY <1>5 DEF Listen, DieWithoutStop, MainReturns, NetworkChanges, Produce, BrokerPings,
      traffic, sending, vars
  <2> QED
    BY <1>0, <2>1, PongSame
<1>6. ASSUME NEW t \in Threads, LinkBreaks(t) \/ KeepaliveGivesUp(t) PROVE PongInv(k)'
  <2>1. pc' = pc /\ read' = read /\ pongs' = pongs /\ conn' = conn /\ holder' = holder
    BY <1>6 DEF LinkBreaks, KeepaliveGivesUp, traffic, sending
  <2>2. link'[k] = "up" => link[k] = "up"
    BY <1>0, <1>6 DEF LinkBreaks, KeepaliveGivesUp, TypeOK
  <2> QED
    BY <1>0, <2>1, <2>2, PongSame
<1> QED
  BY <1>1, <1>2, <1>3, <1>4, <1>5, <1>6 DEF Next, Process, Environment

-----------------------------------------------------------------------------
(* The theorems.                                                           *)

\* Every reachable state satisfies the inductive invariant.
THEOREM Invariance == Spec => []IInv
<1>1. IInv /\ [Next]_vars => IInv'
  BY TypeStep, ChainStep, LateStep, PongStep DEF IInv
<1> QED
  BY <1>1, InvInit, PTL DEF Spec

\* The variables of the connection keep their types.
THEOREM TypeCorrect == Spec => []TypeOK
<1>1. IInv => TypeOK
  BY DEF IInv
<1> QED
  BY <1>1, Invariance, PTL

\* Failing dials, lost connections, timers and Stop never make two calls of
\* connect at a time (scheduleReconnect has no guard of its own against it).
THEOREM OneChain == Spec => []SingleChain
<1>1. IInv => SingleChain
  BY DEF IInv, Chain
<1> QED
  BY <1>1, Invariance, PTL

\* a.conn names a connection that its readLoop serves, or none.
THEOREM Served == Spec => []ConnIsServed
<1>1. IInv => ConnIsServed
  BY DEF IInv, Chain
<1> QED
  BY <1>1, Invariance, PTL

\* The attempt counter is zero while a connection is served.
THEOREM BackoffReset == Spec => []ServedMeansBackoffReset
<1>1. IInv => ServedMeansBackoffReset
  BY DEF IInv, Chain, BackoffInv, SingleChain, Live, Dormant, ServedMeansBackoffReset, Serving, TypeOK
<1> QED
  BY <1>1, Invariance, PTL

\* At most one dial that was under way connects after Stop.
THEOREM LateConnection == Spec => []OneConnectionAfterStop
<1>1. IInv => OneConnectionAfterStop
  BY DEF IInv, LateInv, OneConnectionAfterStop
<1> QED
  BY <1>1, Invariance, PTL

\* The pongs of a connection answer its pings in order, without gaps.
THEOREM PongOrder == Spec => []PongsInOrder
<1>1. IInv => PongsInOrder
  BY DEF IInv, PongInv, PongsInOrder
<1> QED
  BY <1>1, Invariance, PTL

-----------------------------------------------------------------------------
(* A nil timer.                                                            *)

\* Only Stop sets a.destroyed, and main does nothing but close after it.
DestroyedInv == destroyed => main \in {"closing", "gone"}

LEMMA DestroyedStep == DestroyedInv /\ [Next]_vars => DestroyedInv'
<1> SUFFICES ASSUME DestroyedInv, [Next]_vars PROVE DestroyedInv'
  OBVIOUS
<1> USE DEF DestroyedInv
<1>1. ASSUME NEW t \in Threads, Connect(t) PROVE DestroyedInv'
  BY <1>1, ResetKeeps DEF Connect, Check, DialFails, DialOpens, Adopt, StartReturns
<1>2. ASSUME NEW t \in Threads, ReadLoop(t) \/ Reconnect(t) PROVE DestroyedInv'
  BY <1>2 DEF ReadLoop, ReadPing, ReadFails, Reconnect, ScheduleReconnect, Schedule, TimerFires, StartReturns
<1>3. ASSUME NEW s, LockAndLook(s) \/ Release(s) \/ Produce(s) PROVE DestroyedInv'
  BY <1>3 DEF LockAndLook, Release, Write, WriteFails, WriteVanishes, Produce
<1>4. CASE Listen \/ DieWithoutStop \/ CloseConnection \/ MainReturns
  BY <1>4 DEF Listen, DieWithoutStop, CloseConnection, MainReturns
<1>s. CASE Stop \/ DestroyStops \/ DestroyClears
  BY <1>s DEF Stop, DestroyStops, DestroyClears, Unlock, Panic
<1>5. CASE Environment
  BY <1>5 DEF Environment, BrokerPings, LinkBreaks, KeepaliveGivesUp, NetworkChanges
<1>6. CASE UNCHANGED vars
  BY <1>6 DEF vars
<1> QED
  BY <1>1, <1>2, <1>3, <1>4, <1>s, <1>5, <1>6 DEF Next, Process, Thread

\* Only Stop takes r.timer from a thread that has found it, or a.conn from a
\* thread that serves it.
FaultInv ==
  /\ fault # "none" => main = "gone"
  /\ fault = "reader" => destroyed /\ \E t \in Threads : pc[t] = "stop"
  /\ fault = "Stop" => ~destroyed /\ conn # None
  /\ \A t \in Threads : pc[t] \in Serving => conn = t \/ destroyed
  /\ \A t \in Threads : pc[t] = "stop" /\ timer = None => destroyed
  /\ main = "stop" /\ timer = None => conn # None

LEMMA FaultReset ==
  ASSUME IInv, DestroyedInv, FaultInv, NEW t \in Threads, Reset(t), main # "gone"
  PROVE  FaultInv'
<1>0. TypeOK /\ Chain
  BY DEF IInv
<1>1. /\ UNCHANGED <<conn, destroyed>> /\ timer' \in {timer, None}
      /\ \/ main' = main /\ fault' = fault
         \/ main' = "gone" /\ fault' = "reader" /\ timer = None /\ pc' = pc /\ pc[t] = "stop"
  BY ResetKeeps
<1>2. /\ pc[t] \in {"adopted", "stop", "clear"} /\ pc'[t] \in {"stop", "clear", "read"}
      /\ \A u \in Threads : u # t => pc'[u] = pc[u] \/ (pc[u] = "pending" /\ pc'[u] = "stopped")
  BY <1>0, ResetMoves
<1>3. conn = t \/ destroyed
  BY <1>2 DEF FaultInv, Serving
<1>4. \A u \in Threads : pc'[u] \in Serving => u = t
  <2>1. \A u \in Threads : u # t => pc[u] \in Dormant
    BY <1>0, <1>2, OnlyOne DEF Dormant
  <2> QED
    BY <1>2, <2>1 DEF Dormant, Serving
<1>5. fault = "none"
  BY <1>0 DEF FaultInv, TypeOK
<1>6. pc'[t] = "stop" /\ timer' = None => destroyed
  <2>1. CASE ResetTests(t)
    BY <1>0, <2>1 DEF ResetTests, TypeOK
  <2>2. CASE ResetStops(t)
    BY <1>0, <2>2 DEF ResetStops, FaultInv, reconnect
  <2>3. CASE ResetClears(t)
    BY <1>0, <2>3 DEF ResetClears, TypeOK
  <2> QED
    BY <2>1, <2>2, <2>3 DEF Reset
<1>7. main' = "stop" => conn # None
  <2>1. main' = "stop" => ~destroyed
    BY <1>1 DEF DestroyedInv
  <2> QED
    BY <1>3, <2>1, ConnectionAssumption
<1>8. pc'[t] = "stop" => \E u \in Threads : pc'[u] = "stop"
  OBVIOUS
<1>9. \A u \in Threads : pc'[u] = "stop" => u = t
  BY <1>4 DEF Serving
<1>10. fault' # "none" => main' = "gone" /\ destroyed /\ pc'[t] = "stop" /\ fault' = "reader"
  BY <1>1, <1>5 DEF FaultInv
<1> QED
  BY <1>1, <1>3, <1>4, <1>6, <1>7, <1>9, <1>10 DEF FaultInv

LEMMA FaultStop ==
  ASSUME IInv, DestroyedInv, FaultInv, Stop \/ DestroyStops \/ DestroyClears
  PROVE  FaultInv'
<1>0. TypeOK
  BY DEF IInv
<1>1. \A u \in Threads : pc'[u] = pc[u] \/ (pc[u] = "pending" /\ pc'[u] = "stopped")
  BY <1>0, StopMoves
<1>2. main \in {"serving", "stop", "clear"}
  BY DEF Stop, DestroyStops, DestroyClears
<1>3. fault = "none" /\ ~destroyed
  BY <1>0, <1>2 DEF FaultInv, DestroyedInv, TypeOK
<1>4. \A u \in Threads : pc'[u] \in Serving => pc[u] \in Serving /\ pc'[u] = pc[u]
  BY <1>1 DEF Serving
<1>5. CASE destroyed' = TRUE
  BY <1>3, <1>5, StopKeeps DEF FaultInv
<1>6. CASE UNCHANGED <<conn, destroyed>> /\ timer' = timer /\ destroyed' # TRUE
  <2>1. main' = "stop" => timer # None
    BY <1>6 DEF Stop, Unlock, DestroyStops, DestroyClears, Panic
  <2>2. fault' = "none" \/ (fault' = "Stop" /\ main' = "gone" /\ conn # None)
    BY <1>3, <1>6 DEF FaultInv, Stop, DestroyStops, DestroyClears, Unlock, Panic
  <2>3. \A u \in Threads : pc'[u] = "stop" => pc[u] = "stop"
    BY <1>1
  <2> QED
    BY <1>3, <1>4, <1>6, <2>1, <2>2, <2>3 DEF FaultInv
<1> QED
  <2>1. destroyed' = TRUE \/ (UNCHANGED <<conn, destroyed, timer>>)
    BY DEF Stop, DestroyStops, DestroyClears, Unlock, Panic, reconnect
  <2> QED
    BY <1>3, <1>5, <1>6, <2>1

\* Any other step: a.conn changes with the thread that serves it, not while
\* Stop holds a.mu, and r.timer is not cleared.
LEMMA FaultElse ==
  ASSUME TypeOK, FaultInv, main # "gone", main' # "stop" \/ main = "stop",
         UNCHANGED <<fault, destroyed>>, timer' = None => timer = None,
         \/ conn' = conn /\ \A t \in Threads : pc'[t] \in Serving => pc[t] \in Serving
         \/ ~Locked /\ \A t \in Threads : pc'[t] \in Serving => conn' = t,
         \A t \in Threads : pc'[t] = "stop" => pc[t] = "stop"
  PROVE  FaultInv'
<1>1. fault = "none"
  BY DEF FaultInv
<1>2. \A t \in Threads : pc'[t] \in Serving => conn' = t \/ destroyed'
  BY DEF FaultInv
<1>3. main' = "stop" /\ timer' = None => conn' # None
  BY DEF FaultInv, Locked
<1> QED
  BY <1>1, <1>2, <1>3 DEF FaultInv

LEMMA FaultThread ==
  ASSUME IInv, FaultInv, NEW t \in Threads, Thread(t), ~Reset(t), main # "gone"
  PROVE  FaultInv'
<1>0. TypeOK /\ Chain
  BY DEF IInv
<1>1. (main' # "stop" \/ main = "stop") /\ UNCHANGED <<fault, destroyed>>
  BY DEF Thread, Connect, Check, DialFails, DialOpens, Adopt, ReadLoop, ReadPing, ReadFails,
    Reconnect, ScheduleReconnect, Schedule, TimerFires, StartReturns
<1>2. CASE Check(t) \/ DialFails(t) \/ DialOpens(t) \/ ReadPing(t) \/ ScheduleReconnect(t) \/ TimerFires(t)
  <2>1. timer' = timer /\ conn' = conn
    BY <1>2 DEF Check, DialFails, DialOpens, ReadPing, ScheduleReconnect, TimerFires, reconnect
  <2>2. ASSUME NEW u \in Threads
        PROVE  (pc'[u] \in Serving => pc[u] \in Serving) /\ (pc'[u] = "stop" => pc[u] = "stop")
    BY <1>0, <1>2 DEF Check, DialFails, DialOpens, ReadPing, ScheduleReconnect, TimerFires, TypeOK, Serving
  <2> QED
    BY <1>0, <1>1, <2>1, <2>2, FaultElse
<1>3. CASE Adopt(t) \/ ReadFails(t)
  <2>1. timer' = timer /\ ~Locked
    BY <1>3 DEF Adopt, ReadFails, reconnect
  <2>2. \A u \in Threads : u # t => pc[u] \in Dormant /\ pc'[u] = pc[u]
    <3>1. pc[t] \notin Dormant
      BY <1>3 DEF Adopt, ReadFails, Dormant
    <3> QED
      BY <1>0, <1>3, <3>1, OnlyOne DEF Adopt, ReadFails, TypeOK
  <2>3. pc'[t] \in Serving => conn' = t
    BY <1>0, <1>3 DEF Adopt, ReadFails, TypeOK, Serving
  <2>4. pc'[t] # "stop"
    BY <1>0, <1>3 DEF Adopt, ReadFails, TypeOK
  <2>5. \A u \in Threads : (pc'[u] \in Serving => conn' = u) /\ (pc'[u] = "stop" => pc[u] = "stop")
    BY <2>2, <2>3, <2>4 DEF Dormant, Serving
  <2> QED
    BY <1>0, <1>1, <2>1, <2>5, FaultElse
<1>4. CASE Schedule(t)
  <2>1. PICK u \in Threads : timer' = u /\ pc' = [pc EXCEPT ![t] = "done", ![u] = "pending"]
    BY <1>4 DEF Schedule
  <2>2. ASSUME NEW v \in Threads
        PROVE  (pc'[v] \in Serving => pc[v] \in Serving) /\ (pc'[v] = "stop" => pc[v] = "stop")
    BY <1>0, <2>1 DEF TypeOK, Serving
  <2>3. timer' # None /\ conn' = conn
    BY <1>4, <2>1, ConnectionAssumption DEF Schedule
  <2> QED
    BY <1>0, <1>1, <2>2, <2>3, FaultElse
<1> QED
  BY <1>2, <1>3, <1>4 DEF Thread, Connect, ReadLoop, Reconnect

LEMMA FaultStep == IInv /\ DestroyedInv /\ FaultInv /\ [Next]_vars => FaultInv'
<1> SUFFICES ASSUME IInv, DestroyedInv, FaultInv, [Next]_vars PROVE FaultInv'
  OBVIOUS
<1>0. TypeOK /\ Chain
  BY DEF IInv
<1>1. ASSUME NEW t \in Threads, Thread(t), main # "gone" PROVE FaultInv'
  BY <1>1, FaultReset, FaultThread
<1>2. ASSUME NEW s \in Senders, LockAndLook(s) \/ Release(s), main # "gone" PROVE FaultInv'
  <2>1. UNCHANGED <<main, fault, destroyed, timer, conn>>
    BY <1>2 DEF LockAndLook, Release, Write, WriteFails, WriteVanishes, reconnect
  <2>2. pc' = pc \/ (s \in Threads /\ pc[s] = "pong" /\ pc' = [pc EXCEPT ![s] = "read"])
    BY <1>0, <1>2 DEF LockAndLook, Wanting, Release, Write, WriteFails, WriteVanishes, Sent, Chain, HolderInv
  <2>3. ASSUME NEW u \in Threads
        PROVE  (pc'[u] \in Serving => pc[u] \in Serving) /\ (pc'[u] = "stop" => pc[u] = "stop")
    BY <1>0, <2>2 DEF TypeOK, Serving
  <2> QED
    BY <1>0, <1>2, <2>1, <2>3, FaultElse
<1>3. CASE Stop \/ DestroyStops \/ DestroyClears
  BY <1>3, FaultStop
<1>4. ASSUME main # "gone",
             \/ Listen \/ DieWithoutStop \/ CloseConnection \/ MainReturns \/ Environment
             \/ \E r \in Results : Produce(r)
      PROVE  FaultInv'
  <2>1. UNCHANGED <<pc, fault, destroyed, timer, conn>> /\ (main' # "stop" \/ main = "stop")
    BY <1>4 DEF Listen, DieWithoutStop, CloseConnection, MainReturns, Environment, BrokerPings,
      LinkBreaks, KeepaliveGivesUp, NetworkChanges, Produce, reconnect
  <2> QED
    BY <1>0, <1>4, <2>1, FaultElse
<1>5. CASE UNCHANGED vars
  BY <1>5 DEF FaultInv, vars
<1> QED
  BY <1>1, <1>2, <1>3, <1>4, <1>5 DEF Next, Process

LEMMA FaultInit == Init => DestroyedInv /\ FaultInv
BY ConnectionAssumption DEF Init, DestroyedInv, FaultInv, Serving

\* A reader finds its timer gone only after the critical section of Stop, and
\* Stop only while the reader of a.conn is resetting the backoff.
THEOREM NilTimer == Spec => []NilTimerNeedsStopWhileAdopting
<1>1. Spec => [](DestroyedInv /\ FaultInv)
  BY Invariance, FaultInit, DestroyedStep, FaultStep, PTL DEF Spec
<1>2. FaultInv => NilTimerNeedsStopWhileAdopting
  BY DEF FaultInv, NilTimerNeedsStopWhileAdopting
<1> QED
  BY <1>1, <1>2, PTL

-----------------------------------------------------------------------------
(* Connection implements BrokerLink.                                       *)

\* A step that moves none of what BrokerLink shows is a stutter there.
LEMMA LinkStutters ==
  ASSUME conn' = conn, destroyed' = destroyed, late' = late,
         \A t \in Threads : link'[t] = "up" <=> link[t] = "up",
         \A t \in Threads : pc'[t] \in Serving <=> pc[t] \in Serving
  PROVE  UNCHANGED Link!vars
<1>1. {t \in Threads : link[t] = "up"}' = {t \in Threads : link[t] = "up"}
  OBVIOUS
<1>2. {t \in Threads : pc[t] \in Serving}' = {t \in Threads : pc[t] \in Serving}
  BY DEF Serving
<1>3. (late # "none")' = (late # "none")
  OBVIOUS
<1> QED
  BY <1>1, <1>2, <1>3, Zenon DEF Link!vars

\* A thread that dials has no other connection beside its own.
LEMMA DialerIsAlone ==
  ASSUME TypeOK, Chain, NEW t \in Threads, pc[t] \in {"dial", "opened"}
  PROVE  conn = None /\ {u \in Threads : pc[u] \in Serving} = {}
<1>1. \A u \in Threads : u # t => pc[u] \in Dormant
  BY OnlyOne DEF Dormant
<1>2. conn \notin Threads
  BY <1>1, ConnectionAssumption DEF Chain, ConnIsServed, Dormant, Serving, TypeOK
<1> QED
  BY <1>1, <1>2 DEF TypeOK, Dormant, Serving

LEMMA LinkConnect ==
  ASSUME IInv, DestroyedInv, NEW t \in Threads, Connect(t), main # "gone"
  PROVE  [Link!Next]_(Link!vars)
<1>0. TypeOK /\ Chain /\ LateInv
  BY DEF IInv
<1>m. ASSUME NEW x \in Steps, pc' = [pc EXCEPT ![t] = x], NEW u \in Threads
      PROVE  pc'[u] = IF u = t THEN x ELSE pc[u]
  BY <1>0, <1>m DEF TypeOK
<1>1. CASE Check(t)
  <2>1. \A u \in Threads : pc'[u] \in Serving <=> pc[u] \in Serving
    BY <1>0, <1>1 DEF Check, TypeOK, Serving
  <2> QED
    BY <1>1, <2>1, LinkStutters DEF Check
<1>2. CASE DialFails(t)
  <2>1. \A u \in Threads : pc'[u] \in Serving <=> pc[u] \in Serving
    BY <1>0, <1>2 DEF DialFails, TypeOK, Serving
  <2> QED
    BY <1>2, <2>1, LinkStutters DEF DialFails
<1>3. CASE DialOpens(t)
  <2>1. conn = None /\ {u \in Threads : pc[u] \in Serving} = {}
    BY <1>0, <1>3, DialerIsAlone DEF DialOpens
  <2>2. \A u \in Threads : pc'[u] \in Serving <=> pc[u] \in Serving
    BY <1>0, <1>3 DEF DialOpens, TypeOK, Serving
  <2>3. {u \in Threads : pc[u] \in Serving}' = {u \in Threads : pc[u] \in Serving}
    BY <2>2 DEF Serving
  <2>4. {u \in Threads : link[u] = "up"}' = {u \in Threads : link[u] = "up"} \cup {t}
    BY <1>0, <1>3 DEF DialOpens, TypeOK
  <2>5. conn' = conn /\ destroyed' = destroyed /\ late' = late
    BY <1>3 DEF DialOpens
  <2>6. Link!Dial(t)
    BY <2>1, <2>3, <2>4, <2>5 DEF Link!Dial
  <2> QED
    BY <2>6 DEF Link!Next
<1>4. CASE Adopt(t)
  <2>1. conn = None /\ {u \in Threads : pc[u] \in Serving} = {}
    BY <1>0, <1>4, DialerIsAlone DEF Adopt
  <2>2. \A u \in Threads : pc'[u] = IF u = t THEN "adopted" ELSE pc[u]
    BY <1>0, <1>4 DEF Adopt, TypeOK
  <2>3. {u \in Threads : pc[u] \in Serving}' = {t}
    BY <2>1, <2>2 DEF Serving
  <2>4. conn' = t /\ destroyed' = destroyed /\ link' = link
    BY <1>4 DEF Adopt
  <2>5. late = "none"
    BY <1>0, <1>4 DEF LateInv, Adopt, Dormant, Serving
  <2>6. (late' # "none") = destroyed
    <3>1. CASE destroyed
      <4>1. main = "closing"
        BY <3>1 DEF DestroyedInv
      <4>2. late' = "one"
        BY <1>4, <2>5, <4>1 DEF Adopt
      <4> QED
        BY <3>1, <4>2
    <3>2. CASE ~destroyed
      <4>1. main # "closing"
        BY <1>0, <3>2 DEF LateInv
      <4>2. late' = "none" /\ destroyed = FALSE
        BY <1>0, <1>4, <2>5, <3>2, <4>1 DEF Adopt, TypeOK
      <4> QED
        BY <4>2
    <3> QED
      BY <3>1, <3>2
  <2>7. (late # "none") = FALSE
    BY <2>5
  <2>8. Link!Adopt(t)
    BY <2>1, <2>3, <2>4, <2>6, <2>7, Zenon DEF Link!Adopt
  <2> QED
    BY <2>8 DEF Link!Next
<1>5. CASE Reset(t)
  <2>1. \A u \in Threads : pc'[u] \in Serving <=> pc[u] \in Serving
    BY <1>0, <1>5, ResetMoves DEF Serving
  <2> QED
    BY <1>5, <2>1, LinkStutters, ResetKeeps
<1> QED
  BY <1>1, <1>2, <1>3, <1>4, <1>5 DEF Connect

LEMMA LinkThread ==
  ASSUME IInv, NEW t \in Threads, ReadLoop(t) \/ Reconnect(t), main # "gone"
  PROVE  [Link!Next]_(Link!vars)
<1>0. TypeOK /\ Chain
  BY DEF IInv
<1>1. CASE ReadPing(t)
  <2>1. \A u \in Threads : pc'[u] \in Serving <=> pc[u] \in Serving
    BY <1>0, <1>1 DEF ReadPing, TypeOK, Serving
  <2> QED
    BY <1>1, <2>1, LinkStutters DEF ReadPing
<1>2. CASE ReadFails(t)
  <2>1. \E x \in {"done", "failed"} : \A u \in Threads : pc'[u] = IF u = t THEN x ELSE pc[u]
    BY <1>0, <1>2 DEF ReadFails, TypeOK
  <2>2. {u \in Threads : pc[u] \in Serving}'
          = {u \in Threads : pc[u] \in Serving} \ {t}
    BY <2>1 DEF Serving
  <2>3. t \in {u \in Threads : pc[u] \in Serving}
    BY <1>2 DEF ReadFails, Serving
  <2>4. conn' = None /\ destroyed' = destroyed /\ late' = late /\ link' = link /\ link[t] = "closed"
    BY <1>2 DEF ReadFails
  <2>5. t \notin {u \in Threads : link[u] = "up"}
    BY <2>4
  <2>6. Link!Lose(t)
    BY <2>2, <2>3, <2>4, <2>5 DEF Link!Lose
  <2> QED
    BY <2>6 DEF Link!Next
<1>3. CASE ScheduleReconnect(t)
  <2>1. \A u \in Threads : pc'[u] \in Serving <=> pc[u] \in Serving
    BY <1>0, <1>3 DEF ScheduleReconnect, TypeOK, Serving
  <2> QED
    BY <1>3, <2>1, LinkStutters DEF ScheduleReconnect
<1>4. CASE Schedule(t)
  <2>1. PICK v \in Threads \ {t} : pc[v] \in Dormant /\ pc' = [pc EXCEPT ![t] = "done", ![v] = "pending"]
    BY <1>4 DEF Schedule
  <2>2. \A u \in Threads : pc'[u] = IF u = t THEN "done" ELSE IF u = v THEN "pending" ELSE pc[u]
    BY <1>0, <2>1 DEF TypeOK
  <2>3. pc[t] = "schedule"
    BY <1>4 DEF Schedule
  <2>4. ASSUME NEW u \in Threads PROVE pc'[u] \in Serving <=> pc[u] \in Serving
    <3>1. CASE u = t
      BY <2>2, <2>3, <3>1 DEF Serving
    <3>2. CASE u = v /\ u # t
      <4>1. pc[v] \in {"idle", "stopped", "done"} /\ pc'[u] = "pending"
        BY <2>1, <2>2, <3>2 DEF Dormant
      <4> QED
        BY <3>2, <4>1 DEF Serving
    <3>3. CASE u # v /\ u # t
      BY <2>2, <3>3 DEF Serving
    <3> QED
      BY <3>1, <3>2, <3>3
  <2> QED
    BY <1>4, <2>4, LinkStutters DEF Schedule
<1>5. CASE TimerFires(t)
  <2>1. \A u \in Threads : pc'[u] \in Serving <=> pc[u] \in Serving
    BY <1>0, <1>5 DEF TimerFires, TypeOK, Serving
  <2> QED
    BY <1>5, <2>1, LinkStutters DEF TimerFires, reconnect
<1> QED
  BY <1>1, <1>2, <1>3, <1>4, <1>5 DEF ReadLoop, Reconnect

LEMMA LinkSend ==
  ASSUME IInv, NEW s \in Senders, LockAndLook(s) \/ Release(s)
  PROVE  UNCHANGED Link!vars
<1>0. TypeOK /\ Chain
  BY DEF IInv
<1>1. pc' = pc \/ (s \in Threads /\ pc[s] = "pong" /\ pc' = [pc EXCEPT ![s] = "read"])
  <2>1. CASE LockAndLook(s)
    BY <2>1 DEF LockAndLook, Sent, Wanting
  <2>2. CASE Release(s)
    <3>1. holder = s
      BY <2>2 DEF Release, Write, WriteFails, WriteVanishes
    <3>2. s \in Threads => pc[s] = "pong"
      BY <1>0, <3>1 DEF Chain, HolderInv
    <3> QED
      BY <2>2, <3>2 DEF Release, Write, WriteFails, WriteVanishes, Sent
  <2> QED
    BY <2>1, <2>2
<1>2. \A u \in Threads : pc'[u] \in Serving <=> pc[u] \in Serving
  BY <1>0, <1>1 DEF TypeOK, Serving
<1>3. \A u \in Threads : link'[u] = "up" <=> link[u] = "up"
  <2>1. CASE LockAndLook(s) \/ Write(s) \/ WriteVanishes(s)
    BY <2>1 DEF LockAndLook, Write, WriteVanishes
  <2>2. CASE WriteFails(s)
    <3>1. link[target] # "up" /\ link' = [link EXCEPT ![target] = "closed"]
      BY <2>2 DEF WriteFails
    <3> QED
      BY <1>0, <3>1 DEF TypeOK
  <2> QED
    BY <2>1, <2>2 DEF Release
<1>4. conn' = conn /\ destroyed' = destroyed /\ late' = late
  BY DEF LockAndLook, Release, Write, WriteFails, WriteVanishes
<1> QED
  BY <1>2, <1>3, <1>4, LinkStutters

\* A link that goes down, or one that was down already.
LEMMA LinkDown ==
  ASSUME TypeOK, NEW t \in Threads, NEW x \in {"stalled", "closed"},
         link' = [link EXCEPT ![t] = x],
         UNCHANGED <<pc, conn, destroyed, late>>
  PROVE  [Link!Next]_(Link!vars)
<1>0. {u \in Threads : pc[u] \in Serving}' = {u \in Threads : pc[u] \in Serving}
  OBVIOUS
<1>1. \A u \in Threads : link'[u] = IF u = t THEN x ELSE link[u]
  BY DEF TypeOK
<1>2. {u \in Threads : link[u] = "up"}' = {u \in Threads : link[u] = "up"} \ {t}
  BY <1>1
<1>3. CASE link[t] = "up"
  <2>1. t \in {u \in Threads : link[u] = "up"}
    BY <1>3
  <2>2. Link!Break(t)
    BY <1>0, <1>2, <2>1 DEF Link!Break
  <2> QED
    BY <2>2 DEF Link!Next
<1>4. CASE link[t] # "up"
  BY <1>1, <1>4, LinkStutters
<1> QED
  BY <1>3, <1>4

\* Stop takes effect where it unlocks a.mu.
LEMMA LinkStop ==
  ASSUME IInv, DestroyedInv, Stop \/ DestroyStops \/ DestroyClears
  PROVE  [Link!Next]_(Link!vars)
<1>0. TypeOK
  BY DEF IInv
<1>1. link' = link /\ late' = late
  BY StopKeeps
<1>2. \A u \in Threads : pc'[u] \in Serving <=> pc[u] \in Serving
  BY <1>0, StopMoves DEF Serving
<1>3. CASE conn' = conn /\ destroyed' = destroyed
  BY <1>1, <1>2, <1>3, LinkStutters
<1>4. CASE conn' = None /\ destroyed' = TRUE
  <2>1. destroyed = FALSE
    BY <1>0 DEF DestroyedInv, Stop, DestroyStops, DestroyClears, TypeOK
  <2>2. {u \in Threads : pc[u] \in Serving}' = {u \in Threads : pc[u] \in Serving}
    BY <1>2
  <2>3. Link!Stop
    BY <1>1, <1>4, <2>1, <2>2 DEF Link!Stop
  <2> QED
    BY <2>3 DEF Link!Next
<1> QED
  BY <1>3, <1>4, StopKeeps

LEMMA LinkStep == IInv /\ DestroyedInv /\ [Next]_vars => [Link!Next]_(Link!vars)
<1> SUFFICES ASSUME IInv, DestroyedInv, [Next]_vars PROVE [Link!Next]_(Link!vars)
  OBVIOUS
<1>0. TypeOK
  BY DEF IInv
<1>s. ASSUME UNCHANGED <<pc, conn, destroyed, link, late>> PROVE [Link!Next]_(Link!vars)
  BY <1>s, LinkStutters
<1>1. ASSUME NEW t \in Threads, Thread(t), main # "gone" PROVE [Link!Next]_(Link!vars)
  BY <1>1, LinkConnect, LinkThread DEF Thread
<1>2. ASSUME NEW s \in Senders, LockAndLook(s) \/ Release(s) PROVE [Link!Next]_(Link!vars)
  BY <1>2, LinkSend
<1>3. ASSUME NEW r \in Results, Produce(r) PROVE [Link!Next]_(Link!vars)
  BY <1>3, <1>s DEF Produce
<1>4. CASE Stop \/ DestroyStops \/ DestroyClears
  BY <1>4, LinkStop
<1>5. CASE CloseConnection
  <2>1. closing \in Threads /\ link' = [link EXCEPT ![closing] = "closed"] /\ UNCHANGED <<pc, conn, destroyed, late>>
    BY <1>0, <1>5 DEF CloseConnection, TypeOK
  <2> QED
    BY <1>0, <2>1, LinkDown
<1>6. CASE Listen \/ DieWithoutStop \/ MainReturns
  BY <1>6, <1>s DEF Listen, DieWithoutStop, MainReturns
<1>7. ASSUME NEW t \in Threads, LinkBreaks(t) \/ KeepaliveGivesUp(t) PROVE [Link!Next]_(Link!vars)
  <2>1. \E x \in {"stalled", "closed"} : link' = [link EXCEPT ![t] = x]
    BY <1>7 DEF LinkBreaks, KeepaliveGivesUp
  <2>2. UNCHANGED <<pc, conn, destroyed, late>>
    BY <1>7 DEF LinkBreaks, KeepaliveGivesUp
  <2> QED
    BY <1>0, <2>1, <2>2, LinkDown
<1>8. ASSUME NEW t \in Threads, BrokerPings(t) PROVE [Link!Next]_(Link!vars)
  BY <1>8, <1>s DEF BrokerPings
<1>9. CASE NetworkChanges \/ UNCHANGED vars
  BY <1>9, <1>s DEF NetworkChanges, vars
<1> QED
  BY <1>1, <1>2, <1>3, <1>4, <1>5, <1>6, <1>7, <1>8, <1>9 DEF Next, Process, Environment

LEMMA LinkInit == Init => Link!Init /\ DestroyedInv
<1> SUFFICES ASSUME Init PROVE Link!Init /\ DestroyedInv
  OBVIOUS
<1>1. {t \in Threads : link[t] = "up"} = {}
  BY DEF Init
<1>2. {t \in Threads : pc[t] \in Serving} = {}
  BY DEF Init, Serving
<1>3. conn = None /\ destroyed = FALSE /\ (late # "none") = FALSE
  BY DEF Init
<1>4. DestroyedInv
  BY <1>3 DEF DestroyedInv
<1> QED
  BY <1>1, <1>2, <1>3, <1>4, Zenon DEF Link!Init

\* Every behaviour of Connection is one of BrokerLink: what Dispatch relies on.
THEOREM LinkImplemented == Spec => ImplementsLink
<1>1. Spec => []DestroyedInv
  BY LinkInit, DestroyedStep, PTL DEF Spec
<1> QED
  BY <1>1, LinkInit, LinkStep, Invariance, PTL DEF Spec, ImplementsLink, Link!Spec
===============================================================================
