----------------------------- MODULE DispatchProofs -----------------------------
(***************************************************************************)
(* Proofs about Dispatch, for any number of messages, ids and connections. *)
(***************************************************************************)
EXTENDS Dispatch, TLAPS

-----------------------------------------------------------------------------
(* The inductive invariant.                                                *)

\* How far the handling of d has come.
ProgressInv(d) ==
  /\ pc[d] # "none" => message[d] \in Messages
  /\ pc[d] \in {"none", "handle", "post"} => child[d] = "none" /\ answer[d] = "none"
  /\ child[d] \in {"running", "exited"} => answer[d] = "none"
  /\ child[d] # "none" => Kind(d) = "exec" /\ Id(d) \in Ids
  /\ pc[d] = "register" => child[d] # "none"

\* An answer that got ready on the connection of now is written to it.
SendInv ==
  /\ holder # None => answer[holder] = "ready"
  /\ steady # {} => conn \in up
  /\ holder \in steady => target = conn
  /\ LastingConnectionDelivers

\* Another command was read with the id of d.
Twin(d) ==
  \E e \in Deliveries \ {d} : pc[e] # "none" /\ Kind(e) = "exec" /\ Id(e) = Id(d)

\* A running child that handleExec is done with is in activeCommands.
ActiveInv ==
  /\ ~stopped => \A d \in Deliveries :
       Launched(d) /\ child[d] = "running" => active[Id(d)] = d \/ Twin(d)
  /\ stopped => \A d \in launched : child[d] = "running" => d \in killed \/ Twin(d)
  /\ launched # {} => stopped
  /\ \A d \in launched : pc[d] = "done"

IInv ==
  /\ TypeOK
  /\ \A d \in Deliveries : ProgressInv(d)
  /\ SendInv
  /\ ActiveInv

-----------------------------------------------------------------------------
\* The initial states satisfy the invariant.
LEMMA InvInit == Init => IInv
<1> SUFFICES ASSUME Init PROVE IInv
  OBVIOUS
<1>1. TypeOK
  BY DEF Init, Link!Init, TypeOK
<1>2. ASSUME NEW d \in Deliveries PROVE ProgressInv(d)
  BY DEF Init, ProgressInv
<1>3. SendInv
  BY DEF Init, SendInv, LastingConnectionDelivers
<1>4. ActiveInv
  BY DEF Init, Link!Init, ActiveInv, Launched
<1> QED
  BY <1>1, <1>2, <1>3, <1>4 DEF IInv

\* What a step of the link leaves alone.
LEMMA LinkTypes ==
  ASSUME TypeOK, LinkMoves \/ Link!Stop
  PROVE  /\ conn' \in Connections \cup {None}
         /\ up' \subseteq Connections
         /\ readers' \subseteq Connections
         /\ stopped' \in BOOLEAN /\ late' \in BOOLEAN
<1>1. CASE LinkMoves
  <2>1. PICK c \in Connections : Link!Dial(c) \/ Link!Adopt(c) \/ Link!Break(c) \/ Link!Lose(c)
    BY <1>1 DEF LinkMoves
  <2> QED
    BY <2>1 DEF TypeOK, Link!Dial, Link!Adopt, Link!Break, Link!Lose
<1>2. CASE Link!Stop
  BY <1>2 DEF TypeOK, Link!Stop
<1> QED
  BY <1>1, <1>2

-----------------------------------------------------------------------------
(* Each part of the invariant is preserved.                                *)

LEMMA TypeStep == ASSUME TypeOK, [Next]_vars PROVE TypeOK'
<1> USE DEF linkVars, sending, commands
<1>p. ASSUME NEW d \in Deliveries, NEW x, NEW y \in {"handle", "register", "post", "done"}, Go(d, x, y)
      PROVE  pc' \in [Deliveries -> {"none", "handle", "register", "post", "done"}]
  BY <1>p DEF Go, TypeOK
<1>r. ASSUME NEW d \in Deliveries, Ready(d)
      PROVE  /\ answer' \in [Deliveries -> {"none", "ready", "received", "lost"}]
             /\ steady' \subseteq Deliveries
  BY <1>r DEF Ready, TypeOK
<1>l. ASSUME UNCHANGED linkVars
      PROVE  /\ conn' \in Connections \cup {None}
             /\ up' \subseteq Connections
             /\ readers' \subseteq Connections
             /\ stopped' \in BOOLEAN /\ late' \in BOOLEAN
  BY <1>l DEF TypeOK
<1>1. CASE LinkMoves
  <2>1. steady' \subseteq Deliveries
    BY <1>1 DEF LinkMoves, TypeOK
  <2>2. UNCHANGED <<config, message, pc, child, active, killed, launched, answer, holder, target>>
    BY <1>1 DEF LinkMoves
  <2> QED
    BY <1>1, <2>1, <2>2, LinkTypes DEF TypeOK
<1>2. CASE Stop
  <2>1. Link!Stop /\ killed' \subseteq Deliveries /\ steady' \subseteq Deliveries /\ launched' \subseteq Deliveries
    BY <1>2 DEF Stop
  <2>2. active' \in [Ids -> Deliveries \cup {None}]
    BY <1>2 DEF Stop
  <2>3. UNCHANGED <<config, message, pc, child, answer, holder, target>>
    BY <1>2 DEF Stop
  <2> QED
    BY <2>1, <2>2, <2>3, LinkTypes DEF TypeOK
<1>3. ASSUME NEW d \in Deliveries, Deliver(d) PROVE TypeOK'
  <2>1. message' \in [Deliveries -> Messages \cup {None}]
    BY <1>3 DEF Deliver, TypeOK
  <2>2. pc' \in [Deliveries -> {"none", "handle", "register", "post", "done"}]
    BY <1>3 DEF Deliver, TypeOK
  <2>3. UNCHANGED <<linkVars, config, child, active, killed, launched, answer, holder, target, steady>>
    BY <1>3 DEF Deliver
  <2> QED
    BY <1>l, <2>1, <2>2, <2>3 DEF TypeOK
<1>4. ASSUME NEW d \in Deliveries, HandleAtOnce(d) PROVE TypeOK'
  <2>1. UNCHANGED <<linkVars, config, message, child, active, killed, launched, holder, target>>
    BY <1>4 DEF HandleAtOnce
  <2>2. Go(d, "handle", "done") /\ Ready(d)
    BY <1>4 DEF HandleAtOnce
  <2> QED
    BY <1>l, <1>p, <1>r, <2>1, <2>2 DEF TypeOK
<1>5. ASSUME NEW d \in Deliveries, Launch(d) PROVE TypeOK'
  <2>1. UNCHANGED <<linkVars, config, message, killed, launched, holder, target>>
    BY <1>5 DEF Launch
  <2>2. child' \in [Deliveries -> {"none", "running", "exited", "over"}]
    BY <1>5 DEF Launch, TypeOK
  <2>3. active' \in [Ids -> Deliveries \cup {None}]
    BY <1>5 DEF Launch, TypeOK
  <2>4. /\ answer' \in [Deliveries -> {"none", "ready", "received", "lost"}]
        /\ steady' \subseteq Deliveries
    BY <1>5, <1>r DEF Launch, TypeOK
  <2>5. Go(d, "handle", "register")
    BY <1>5 DEF Launch
  <2> QED
    BY <1>l, <1>p, <2>1, <2>2, <2>3, <2>4, <2>5 DEF TypeOK
<1>6. ASSUME NEW d \in Deliveries, Register(d) PROVE TypeOK'
  <2>1. UNCHANGED <<linkVars, config, message, child, killed, launched, answer, holder, target, steady>>
    BY <1>6 DEF Register
  <2>2. active' \in [Ids -> Deliveries \cup {None}]
    BY <1>6 DEF Register, TypeOK
  <2>3. Go(d, "register", "done")
    BY <1>6 DEF Register
  <2> QED
    BY <1>l, <1>p, <2>1, <2>2, <2>3 DEF TypeOK
<1>7. ASSUME NEW d \in Deliveries, ChildEnds(d) PROVE TypeOK'
  <2>1. UNCHANGED <<linkVars, config, message, pc, active, killed, launched, answer, holder, target, steady>>
    BY <1>7 DEF ChildEnds
  <2>2. child' \in [Deliveries -> {"none", "running", "exited", "over"}]
    BY <1>7 DEF ChildEnds, TypeOK
  <2> QED
    BY <1>l, <2>1, <2>2 DEF TypeOK
<1>8. ASSUME NEW d \in Deliveries, Finish(d) PROVE TypeOK'
  <2>1. UNCHANGED <<linkVars, config, message, pc, killed, launched, holder, target>>
    BY <1>8 DEF Finish
  <2>2. child' \in [Deliveries -> {"none", "running", "exited", "over"}]
    BY <1>8 DEF Finish, TypeOK
  <2>3. active' \in [Ids -> Deliveries \cup {None}] /\ Ready(d)
    BY <1>8 DEF Finish, TypeOK
  <2> QED
    BY <1>l, <1>r, <2>1, <2>2, <2>3 DEF TypeOK
<1>9. ASSUME NEW d \in Deliveries, HandleWake(d) \/ WakeEnds(d) PROVE TypeOK'
  <2>1. UNCHANGED <<linkVars, config, message, child, active, killed, launched, answer, holder, target, steady>>
    BY <1>9 DEF HandleWake, WakeEnds
  <2>2. pc' \in [Deliveries -> {"none", "handle", "register", "post", "done"}]
    BY <1>9 DEF HandleWake, WakeEnds, Go, TypeOK
  <2> QED
    BY <1>l, <2>1, <2>2 DEF TypeOK
<1>10. ASSUME NEW d \in Deliveries, Look(d) PROVE TypeOK'
  <2>1. UNCHANGED <<linkVars, config, message, pc, child, active, killed, launched, steady>>
    BY <1>10 DEF Look
  <2>2. /\ answer' \in [Deliveries -> {"none", "ready", "received", "lost"}]
        /\ \/ holder' \in Deliveries /\ target' \in Connections
           \/ holder' = None /\ target' = None
    BY <1>10 DEF Look, TypeOK
  <2> QED
    BY <1>l, <2>1, <2>2 DEF TypeOK
<1>11. ASSUME NEW d \in Deliveries, Write(d) PROVE TypeOK'
  <2>1. UNCHANGED <<linkVars, config, message, pc, child, active, killed, launched, steady>>
    BY <1>11 DEF Write
  <2>2. answer' \in [Deliveries -> {"none", "ready", "received", "lost"}] /\ holder' = None /\ target' = None
    BY <1>11 DEF Write, TypeOK
  <2> QED
    BY <1>l, <2>1, <2>2 DEF TypeOK
<1>12. CASE UNCHANGED vars
  BY <1>12 DEF vars, TypeOK
<1> QED
  BY <1>1, <1>2, <1>3, <1>4, <1>5, <1>6, <1>7, <1>8, <1>9, <1>10, <1>11, <1>12 DEF Next, Handler

\* The handling of each message proceeds as ProgressInv says.
LEMMA ProgressStep ==
  ASSUME TypeOK, SendInv, \A d \in Deliveries : ProgressInv(d), [Next]_vars, NEW k \in Deliveries
  PROVE  ProgressInv(k)'
<1> USE DEF linkVars, sending, commands
<1>0. ProgressInv(k)
  OBVIOUS
<1>m. ASSUME NEW d \in Deliveries, message[d] \in Messages, Kind(d) = "exec" PROVE Id(d) \in Ids
  BY <1>m DEF Messages, Kind, Id
<1>1. CASE LinkMoves \/ Stop \/ UNCHANGED vars
  <2>1. UNCHANGED <<message, pc, child, answer>>
    BY <1>1 DEF LinkMoves, Stop, vars
  <2> QED
    BY <1>0, <2>1 DEF ProgressInv, Kind, Id
<1>2. ASSUME NEW d \in Deliveries, Deliver(d) PROVE ProgressInv(k)'
  <2>1. UNCHANGED <<child, answer>> /\ pc[d] = "none" /\ pc' = [pc EXCEPT ![d] = "handle"]
    BY <1>2 DEF Deliver
  <2>2. PICK m \in Messages : message' = [message EXCEPT ![d] = m]
    BY <1>2 DEF Deliver
  <2>3. ProgressInv(d)
    OBVIOUS
  <2>4. pc'[k] = (IF k = d THEN "handle" ELSE pc[k]) /\ message'[k] = (IF k = d THEN m ELSE message[k])
    BY <2>1, <2>2 DEF TypeOK
  <2>5. CASE k = d
    BY <2>1, <2>3, <2>4, <2>5 DEF ProgressInv
  <2>6. CASE k # d
    BY <1>0, <2>1, <2>4, <2>6 DEF ProgressInv, Kind, Id
  <2> QED
    BY <2>5, <2>6
<1>3. ASSUME NEW d \in Deliveries, HandleAtOnce(d) PROVE ProgressInv(k)'
  <2>1. UNCHANGED <<message, child>> /\ pc[d] = "handle"
    BY <1>3 DEF HandleAtOnce, Go
  <2>2. pc'[k] = (IF k = d THEN "done" ELSE pc[k]) /\ answer'[k] = (IF k = d THEN "ready" ELSE answer[k])
    BY <1>3 DEF HandleAtOnce, Go, Ready, TypeOK
  <2> QED
    BY <1>0, <2>1, <2>2 DEF ProgressInv, Kind, Id
<1>4. ASSUME NEW d \in Deliveries, Launch(d) PROVE ProgressInv(k)'
  <2>1. UNCHANGED message /\ pc[d] = "handle" /\ Kind(d) = "exec" /\ Kind(d)' = "exec"
    BY <1>4 DEF Launch, Go, Kind
  <2>2. pc'[k] = (IF k = d THEN "register" ELSE pc[k])
    BY <1>4 DEF Launch, Go, TypeOK
  <2>3. \/ child' = [child EXCEPT ![d] = "running"] /\ UNCHANGED answer
        \/ child' = [child EXCEPT ![d] = "over"] /\ answer' = [answer EXCEPT ![d] = "ready"]
    BY <1>4 DEF Launch, Ready
  <2>4. \/ child'[k] = (IF k = d THEN "running" ELSE child[k]) /\ UNCHANGED answer
        \/ child'[k] = (IF k = d THEN "over" ELSE child[k]) /\ answer'[k] = (IF k = d THEN "ready" ELSE answer[k])
    BY <2>3 DEF TypeOK
  <2>5. CASE k = d
    <3>1. Kind(k) = "exec" /\ Id(k) \in Ids
      BY <1>0, <1>m, <2>1, <2>5 DEF ProgressInv
    <3>2. (Kind(k) = "exec" /\ Id(k) \in Ids)'
      BY <2>1, <3>1 DEF Kind, Id
    <3>3. message'[k] \in Messages
      BY <1>0, <2>1, <2>5 DEF ProgressInv
    <3> QED
      BY <1>0, <2>1, <2>2, <2>4, <2>5, <3>2, <3>3 DEF ProgressInv
  <2>6. CASE k # d
    BY <1>0, <2>1, <2>2, <2>4, <2>6 DEF ProgressInv, Kind, Id
  <2> QED
    BY <2>5, <2>6
<1>5. ASSUME NEW d \in Deliveries, Register(d) PROVE ProgressInv(k)'
  <2>1. UNCHANGED <<message, child, answer>> /\ pc[d] = "register"
    BY <1>5 DEF Register, Go
  <2>2. pc'[k] = (IF k = d THEN "done" ELSE pc[k])
    BY <1>5 DEF Register, Go, TypeOK
  <2> QED
    BY <1>0, <2>1, <2>2 DEF ProgressInv, Kind, Id
<1>6. ASSUME NEW d \in Deliveries, ChildEnds(d) PROVE ProgressInv(k)'
  <2>1. UNCHANGED <<message, pc, answer>> /\ child[d] = "running"
    BY <1>6 DEF ChildEnds
  <2>2. child'[k] = (IF k = d THEN "exited" ELSE child[k])
    BY <1>6 DEF ChildEnds, TypeOK
  <2> QED
    BY <1>0, <2>1, <2>2 DEF ProgressInv, Kind, Id
<1>7. ASSUME NEW d \in Deliveries, Finish(d) PROVE ProgressInv(k)'
  <2>1. UNCHANGED <<message, pc>> /\ child[d] = "exited"
    BY <1>7 DEF Finish
  <2>2. child'[k] = (IF k = d THEN "over" ELSE child[k]) /\ answer'[k] = (IF k = d THEN "ready" ELSE answer[k])
    BY <1>7 DEF Finish, Ready, TypeOK
  <2> QED
    BY <1>0, <2>1, <2>2 DEF ProgressInv, Kind, Id
<1>8. ASSUME NEW d \in Deliveries, HandleWake(d) \/ WakeEnds(d) PROVE ProgressInv(k)'
  <2>1. UNCHANGED <<message, child, answer>> /\ pc[d] \in {"handle", "post"}
    BY <1>8 DEF HandleWake, WakeEnds, Go
  <2>2. pc'[k] = pc[k] \/ (k = d /\ pc'[k] \in {"post", "done"})
    BY <1>8 DEF HandleWake, WakeEnds, Go, TypeOK
  <2> QED
    BY <1>0, <2>1, <2>2 DEF ProgressInv, Kind, Id
<1>9. ASSUME NEW d \in Deliveries, Look(d) \/ Write(d) PROVE ProgressInv(k)'
  <2>1. UNCHANGED <<message, pc, child>>
    BY <1>9 DEF Look, Write
  <2>2. answer[d] = "ready"
    BY <1>9, DispatchAssumption DEF Look, Write, SendInv
  <2>3. answer'[k] = answer[k] \/ k = d
    BY <1>9 DEF Look, Write, TypeOK
  <2> QED
    BY <1>0, <2>1, <2>2, <2>3 DEF ProgressInv, Kind, Id
<1> QED
  BY <1>1, <1>2, <1>3, <1>4, <1>5, <1>6, <1>7, <1>8, <1>9 DEF Next, Handler

\* An answer that gets ready does so on the connection of now, and no sender
\* holds sendMu for it yet.
LEMMA SendReady ==
  ASSUME TypeOK, SendInv, NEW d \in Deliveries, Ready(d), answer[d] = "none",
         UNCHANGED <<linkVars, holder, target>>
  PROVE  SendInv'
<1> USE DEF linkVars
<1>1. holder # d
  BY DispatchAssumption DEF SendInv
<1>2. \A e \in Deliveries : answer'[e] = (IF e = d THEN "ready" ELSE answer[e])
  BY DEF Ready, TypeOK
<1>3. steady' = steady \/ (conn \in up /\ steady' = steady \cup {d})
  BY DEF Ready
<1>4. (holder # None => answer[holder] = "ready")'
  BY <1>1, <1>2 DEF SendInv, TypeOK
<1>5. (steady # {} => conn \in up)'
  BY <1>3 DEF SendInv
<1>6. (holder \in steady => target = conn)'
  BY <1>1, <1>3 DEF SendInv
<1>7. LastingConnectionDelivers'
  <2> SUFFICES ASSUME NEW e \in steady' PROVE answer'[e] # "lost"
    BY DEF LastingConnectionDelivers
  <2>1. e = d \/ e \in steady
    BY <1>3
  <2>2. e \in Deliveries
    BY <2>1 DEF TypeOK
  <2> QED
    BY <1>2, <2>1, <2>2 DEF SendInv, LastingConnectionDelivers
<1> QED
  BY <1>4, <1>5, <1>6, <1>7 DEF SendInv

\* The invariant of the senders is preserved.
LEMMA SendStep ==
  ASSUME TypeOK, SendInv, \A d \in Deliveries : ProgressInv(d), [Next]_vars
  PROVE  SendInv'
<1> USE DEF linkVars, sending, commands
<1>u. ASSUME UNCHANGED <<linkVars, sending>> PROVE SendInv'
  BY <1>u DEF SendInv, LastingConnectionDelivers
<1>1. CASE LinkMoves
  <2>1. UNCHANGED <<answer, holder, target>>
    BY <1>1 DEF LinkMoves
  <2>2. steady' = {} \/ (steady' = steady /\ conn' = conn /\ conn' \in up')
    BY <1>1 DEF LinkMoves
  <2> QED
    BY <2>1, <2>2 DEF SendInv, LastingConnectionDelivers
<1>2. CASE Stop
  <2>1. UNCHANGED <<answer, holder, target>> /\ steady' = {}
    BY <1>2 DEF Stop
  <2> QED
    BY <2>1 DEF SendInv, LastingConnectionDelivers
<1>3. ASSUME NEW d \in Deliveries, Deliver(d) \/ Register(d) \/ ChildEnds(d) \/ HandleWake(d) \/ WakeEnds(d)
      PROVE  SendInv'
  <2>1. UNCHANGED <<linkVars, sending>>
    BY <1>3 DEF Deliver, Register, ChildEnds, HandleWake, WakeEnds
  <2> QED
    BY <1>u, <2>1
<1>4. ASSUME NEW d \in Deliveries, HandleAtOnce(d) PROVE SendInv'
  <2>1. Ready(d) /\ UNCHANGED <<linkVars, holder, target>>
    BY <1>4 DEF HandleAtOnce
  <2>2. answer[d] = "none"
    BY <1>4 DEF HandleAtOnce, Go, ProgressInv
  <2> QED
    BY <2>1, <2>2, SendReady
<1>5. ASSUME NEW d \in Deliveries, Launch(d) PROVE SendInv'
  <2>1. UNCHANGED <<linkVars, holder, target>>
    BY <1>5 DEF Launch
  <2>2. UNCHANGED <<answer, steady>> \/ Ready(d)
    BY <1>5 DEF Launch
  <2>3. answer[d] = "none"
    BY <1>5 DEF Launch, Go, ProgressInv
  <2> QED
    BY <1>u, <2>1, <2>2, <2>3, SendReady
<1>6. ASSUME NEW d \in Deliveries, Finish(d) PROVE SendInv'
  <2>1. Ready(d) /\ UNCHANGED <<linkVars, holder, target>>
    BY <1>6 DEF Finish
  <2>2. answer[d] = "none"
    BY <1>6 DEF Finish, ProgressInv
  <2> QED
    BY <2>1, <2>2, SendReady
<1>7. ASSUME NEW d \in Deliveries, Look(d) PROVE SendInv'
  <2>1. UNCHANGED <<linkVars, steady>> /\ answer[d] = "ready" /\ holder = None
    BY <1>7 DEF Look
  <2>2. \/ conn = None /\ answer' = [answer EXCEPT ![d] = "lost"] /\ UNCHANGED <<holder, target>>
        \/ holder' = d /\ target' = conn /\ UNCHANGED answer
    BY <1>7 DEF Look
  <2>3. CASE conn = None /\ answer' = [answer EXCEPT ![d] = "lost"] /\ UNCHANGED <<holder, target>>
    <3>1. steady = {}
      BY <2>3, DispatchAssumption DEF SendInv, TypeOK
    <3> QED
      BY <2>1, <2>3, <3>1 DEF SendInv, LastingConnectionDelivers
  <2>4. CASE holder' = d /\ target' = conn /\ UNCHANGED answer
    BY <2>1, <2>4 DEF SendInv, LastingConnectionDelivers
  <2> QED
    BY <2>2, <2>3, <2>4
<1>8. ASSUME NEW d \in Deliveries, Write(d) PROVE SendInv'
  <2>1. UNCHANGED <<linkVars, steady>> /\ holder = d /\ holder' = None /\ target' = None
    BY <1>8 DEF Write
  <2>2. \A e \in Deliveries :
          answer'[e] = (IF e = d THEN IF target \in up THEN "received" ELSE "lost" ELSE answer[e])
    BY <1>8 DEF Write, TypeOK
  <2>3. None \notin steady
    BY DispatchAssumption DEF TypeOK
  <2>4. LastingConnectionDelivers'
    <3> SUFFICES ASSUME NEW e \in steady PROVE answer'[e] # "lost"
      BY <2>1 DEF LastingConnectionDelivers
    <3>1. e \in Deliveries /\ answer[e] # "lost"
      BY DEF SendInv, LastingConnectionDelivers, TypeOK
    <3>2. e = d => target \in up
      BY <2>1 DEF SendInv
    <3> QED
      BY <2>2, <3>1, <3>2
  <2> QED
    BY <2>1, <2>3, <2>4 DEF SendInv
<1>9. CASE UNCHANGED vars
  BY <1>u, <1>9 DEF vars
<1> QED
  BY <1>1, <1>2, <1>3, <1>4, <1>5, <1>6, <1>7, <1>8, <1>9 DEF Next, Handler

\* A message that was read stays what it is.
LEMMA TwinStays ==
  ASSUME TypeOK, NEW d \in Deliveries, Twin(d), pc[d] # "none", [Next]_vars
  PROVE  Twin(d)'
<1> USE DEF linkVars, sending, commands
<1>1. PICK e \in Deliveries \ {d} : pc[e] # "none" /\ Kind(e) = "exec" /\ Id(e) = Id(d)
  BY DEF Twin
<1>2. ASSUME NEW f \in Deliveries, pc[f] # "none" PROVE pc'[f] # "none" /\ message'[f] = message[f]
  <2>1. CASE LinkMoves \/ Stop \/ UNCHANGED vars
    BY <1>2, <2>1 DEF LinkMoves, Stop, vars
  <2>2. ASSUME NEW k \in Deliveries, Deliver(k) PROVE pc'[f] # "none" /\ message'[f] = message[f]
    <3>1. f # k
      BY <1>2, <2>2 DEF Deliver
    <3> QED
      BY <1>2, <2>2, <3>1 DEF Deliver, TypeOK
  <2>3. ASSUME NEW k \in Deliveries, Handler(k) PROVE pc'[f] # "none" /\ message'[f] = message[f]
    <3>1. UNCHANGED message
      BY <2>3 DEF Handler, HandleAtOnce, Launch, Register, Finish, HandleWake, WakeEnds
    <3>2. pc' = pc \/ \E to \in {"register", "post", "done"} : pc' = [pc EXCEPT ![k] = to]
      BY <2>3 DEF Handler, HandleAtOnce, Launch, Register, Finish, HandleWake, WakeEnds, Go
    <3> QED
      BY <1>2, <3>1, <3>2 DEF TypeOK
  <2>4. ASSUME NEW k \in Deliveries, ChildEnds(k) \/ Look(k) \/ Write(k)
        PROVE  pc'[f] # "none" /\ message'[f] = message[f]
    BY <1>2, <2>4 DEF ChildEnds, Look, Write
  <2> QED
    BY <2>1, <2>2, <2>3, <2>4 DEF Next
<1> QED
  BY <1>1, <1>2 DEF Twin, Kind, Id

\* What handleExec is done with stays so, and gets no new child.
LEMMA DoneStays ==
  ASSUME TypeOK, NEW k \in Deliveries, pc[k] = "done", [Next]_vars
  PROVE  pc'[k] = "done" /\ (child'[k] = "running" => child[k] = "running")
<1> USE DEF linkVars, sending, commands
<1>1. CASE LinkMoves \/ Stop \/ UNCHANGED vars
  BY <1>1 DEF LinkMoves, Stop, vars
<1>2. ASSUME NEW d \in Deliveries,
             Deliver(d) \/ HandleAtOnce(d) \/ Register(d) \/ HandleWake(d) \/ WakeEnds(d)
      PROVE  pc'[k] = "done" /\ child' = child
  <2>1. child' = child /\ pc[d] # "done"
    BY <1>2 DEF Deliver, HandleAtOnce, Register, HandleWake, WakeEnds, Go
  <2>2. \E to : pc' = [pc EXCEPT ![d] = to]
    BY <1>2 DEF Deliver, HandleAtOnce, Register, HandleWake, WakeEnds, Go
  <2> QED
    BY <2>1, <2>2
<1>3. ASSUME NEW d \in Deliveries, Launch(d)
      PROVE  pc'[k] = "done" /\ child'[k] = child[k]
  <2>1. pc[d] # "done" /\ pc' = [pc EXCEPT ![d] = "register"]
    BY <1>3 DEF Launch, Go
  <2>2. \E v : child' = [child EXCEPT ![d] = v]
    BY <1>3 DEF Launch
  <2> QED
    BY <2>1, <2>2
<1>4. ASSUME NEW d \in Deliveries, ChildEnds(d) \/ Finish(d)
      PROVE  pc' = pc /\ (child'[k] = "running" => child[k] = "running")
  BY <1>4 DEF ChildEnds, Finish, TypeOK
<1>5. ASSUME NEW d \in Deliveries, Look(d) \/ Write(d) PROVE UNCHANGED <<pc, child>>
  BY <1>5 DEF Look, Write
<1> QED
  BY <1>1, <1>2, <1>3, <1>4, <1>5 DEF Next, Handler

\* While no Stop came, a step of a delivery leaves in activeCommands what must
\* be there, or what replaces it shows that the id was used twice.
LEMMA KeptActive ==
  ASSUME TypeOK, \A d \in Deliveries : ProgressInv(d), ActiveInv, ~stopped, [Next]_vars, ~Stop,
         NEW k \in Deliveries, Launched(k)', child'[k] = "running"
  PROVE  (active[Id(k)] = k \/ Twin(k))'
<1> USE DEF linkVars, sending, commands
<1>0. ProgressInv(k) /\ pc'[k] = "done"
  BY DEF Launched
<1>b. ASSUME Launched(k), child[k] = "running", Id(k)' = Id(k), active'[Id(k)] = active[Id(k)]
      PROVE  (active[Id(k)] = k \/ Twin(k))'
  <2>1. active[Id(k)] = k \/ Twin(k)
    BY <1>b DEF ActiveInv
  <2>2. Twin(k) => Twin(k)'
    BY <1>b, TwinStays DEF Launched
  <2> QED
    BY <1>b, <2>1, <2>2
<1>t. ASSUME NEW d \in Deliveries, d # k, pc'[d] # "none", Kind(d)' = "exec", Id(d)' = Id(k)'
      PROVE  Twin(k)'
  BY <1>t DEF Twin
<1>1. CASE LinkMoves \/ UNCHANGED vars
  <2>1. UNCHANGED <<message, pc, child, active>>
    BY <1>1 DEF LinkMoves, vars
  <2> QED
    BY <1>b, <2>1 DEF Launched, Id
<1>2. ASSUME NEW d \in Deliveries, Deliver(d) PROVE (active[Id(k)] = k \/ Twin(k))'
  <2>1. UNCHANGED <<child, active>> /\ pc' = [pc EXCEPT ![d] = "handle"]
    BY <1>2 DEF Deliver
  <2>2. k # d
    BY <1>0, <2>1 DEF TypeOK
  <2>3. message'[k] = message[k] /\ pc'[k] = pc[k]
    BY <1>2, <2>1, <2>2 DEF Deliver
  <2> QED
    BY <1>b, <2>1, <2>3 DEF Launched, Id
<1>3. ASSUME NEW d \in Deliveries, HandleAtOnce(d) \/ HandleWake(d) \/ WakeEnds(d)
      PROVE  (active[Id(k)] = k \/ Twin(k))'
  <2>1. UNCHANGED <<message, child, active>> /\ pc[d] \in {"handle", "post"}
    BY <1>3 DEF HandleAtOnce, HandleWake, WakeEnds, Go
  <2>2. \E to : pc' = [pc EXCEPT ![d] = to]
    BY <1>3 DEF HandleAtOnce, HandleWake, WakeEnds, Go
  <2>3. k # d
    BY <1>0, <2>1 DEF ProgressInv
  <2>4. pc'[k] = pc[k]
    BY <2>2, <2>3
  <2> QED
    BY <1>b, <2>1, <2>4 DEF Launched, Id
<1>4. ASSUME NEW d \in Deliveries, Launch(d) PROVE (active[Id(k)] = k \/ Twin(k))'
  <2>1. UNCHANGED message /\ pc' = [pc EXCEPT ![d] = "register"] /\ Kind(d)' = "exec"
    BY <1>4 DEF Launch, Go, Kind
  <2>2. k # d
    BY <1>0, <2>1 DEF TypeOK
  <2>3. pc'[d] # "none" /\ pc'[k] = pc[k]
    BY <2>1, <2>2 DEF TypeOK
  <2>4. child'[k] = child[k]
    BY <1>4, <2>2 DEF Launch, TypeOK
  <2>5. active' = active \/ active' = [active EXCEPT ![Id(d)] = None]
    BY <1>4 DEF Launch
  <2>6. CASE Id(k) = Id(d)
    <3>1. Id(d)' = Id(k)'
      BY <2>1, <2>6 DEF Id
    <3> QED
      BY <1>t, <2>1, <2>2, <2>3, <3>1
  <2>7. CASE Id(k) # Id(d)
    <3>1. Id(k) \in Ids
      BY <1>0, <2>4 DEF ProgressInv
    <3>2. active'[Id(k)] = active[Id(k)]
      BY <2>5, <2>7, <3>1 DEF TypeOK
    <3> QED
      BY <1>b, <2>1, <2>3, <2>4, <3>2 DEF Launched, Id
  <2> QED
    BY <2>6, <2>7
<1>5. ASSUME NEW d \in Deliveries, Register(d) PROVE (active[Id(k)] = k \/ Twin(k))'
  <2>1. UNCHANGED <<message, child>> /\ pc[d] = "register" /\ pc' = [pc EXCEPT ![d] = "done"]
    BY <1>5 DEF Register, Go
  <2>2. active' = [active EXCEPT ![Id(d)] = d]
    BY <1>5 DEF Register
  <2>3. Kind(d) = "exec" /\ Id(d) \in Ids
    BY <2>1 DEF ProgressInv
  <2>4. CASE k = d
    BY <2>1, <2>2, <2>3, <2>4 DEF TypeOK, Id
  <2>5. CASE k # d /\ Id(k) = Id(d)
    <3>1. pc'[d] # "none"
      BY <2>1 DEF TypeOK
    <3> QED
      BY <1>t, <2>1, <2>3, <2>5, <3>1 DEF Id, Kind
  <2>6. CASE k # d /\ Id(k) # Id(d)
    <3>1. active'[Id(k)] = active[Id(k)] /\ pc'[k] = pc[k]
      BY <2>1, <2>2, <2>6
    <3> QED
      BY <1>b, <2>1, <3>1 DEF Launched, Id
  <2> QED
    BY <2>4, <2>5, <2>6
<1>6. ASSUME NEW d \in Deliveries, ChildEnds(d) PROVE (active[Id(k)] = k \/ Twin(k))'
  <2>1. UNCHANGED <<message, pc, active>> /\ child' = [child EXCEPT ![d] = "exited"]
    BY <1>6 DEF ChildEnds
  <2>2. child[k] = "running"
    BY <2>1 DEF TypeOK
  <2> QED
    BY <1>b, <2>1, <2>2 DEF Launched, Id
<1>7. ASSUME NEW d \in Deliveries, Finish(d) PROVE (active[Id(k)] = k \/ Twin(k))'
  <2>1. UNCHANGED <<message, pc>> /\ child[d] = "exited" /\ child' = [child EXCEPT ![d] = "over"]
    BY <1>7 DEF Finish
  <2>2. active' = [active EXCEPT ![Id(d)] = None]
    BY <1>7 DEF Finish
  <2>3. k # d /\ child[k] = "running"
    BY <2>1 DEF TypeOK
  <2>4. Kind(d) = "exec" /\ pc[d] # "none"
    BY <2>1 DEF ProgressInv
  <2>5. CASE Id(k) = Id(d)
    BY <1>t, <2>1, <2>3, <2>4, <2>5 DEF Id, Kind
  <2>6. CASE Id(k) # Id(d)
    <3>1. active'[Id(k)] = active[Id(k)]
      BY <2>2, <2>6
    <3> QED
      BY <1>b, <2>1, <2>3, <3>1 DEF Launched, Id
  <2> QED
    BY <2>5, <2>6
<1>8. ASSUME NEW d \in Deliveries, Look(d) \/ Write(d) PROVE (active[Id(k)] = k \/ Twin(k))'
  <2>1. UNCHANGED <<message, pc, child, active>>
    BY <1>8 DEF Look, Write
  <2> QED
    BY <1>b, <2>1 DEF Launched, Id
<1> QED
  BY <1>1, <1>2, <1>3, <1>4, <1>5, <1>6, <1>7, <1>8 DEF Next, Handler

\* The invariant of activeCommands is preserved.
LEMMA ActiveStep ==
  ASSUME TypeOK, \A d \in Deliveries : ProgressInv(d), ActiveInv, [Next]_vars
  PROVE  ActiveInv'
<1> USE DEF linkVars, sending, commands
<1>1. CASE Stop
  <2>1. ~stopped /\ stopped' /\ UNCHANGED <<message, pc, child>>
    BY <1>1 DEF Stop, Link!Stop
  <2>2. /\ killed' = {d \in Deliveries : child[d] = "running" /\ \E i \in Ids : active[i] = d}
        /\ launched' = {d \in Deliveries : Launched(d)}
    BY <1>1 DEF Stop
  <2>3. ASSUME NEW d \in launched', child'[d] = "running" PROVE (d \in killed \/ Twin(d))'
    <3>1. d \in Deliveries /\ Launched(d) /\ child[d] = "running"
      BY <2>1, <2>2, <2>3
    <3>2. active[Id(d)] = d \/ Twin(d)
      BY <2>1, <3>1 DEF ActiveInv
    <3>3. Id(d) \in Ids
      BY <3>1 DEF ProgressInv
    <3>4. Twin(d) => Twin(d)'
      BY <3>1, TwinStays DEF Launched
    <3> QED
      BY <2>2, <3>1, <3>2, <3>3, <3>4
  <2>4. \A d \in launched' : pc'[d] = "done"
    BY <2>1, <2>2 DEF Launched
  <2> QED
    BY <2>1, <2>3, <2>4 DEF ActiveInv
<1>2. CASE ~Stop
  <2>1. UNCHANGED <<stopped, killed, launched>>
    <3>1. CASE LinkMoves
      BY <3>1 DEF LinkMoves, Link!Dial, Link!Adopt, Link!Break, Link!Lose
    <3>2. ASSUME NEW d \in Deliveries, Deliver(d) \/ Handler(d) \/ ChildEnds(d) \/ Look(d) \/ Write(d)
          PROVE  UNCHANGED <<stopped, killed, launched>>
      BY <3>2 DEF Deliver, Handler, HandleAtOnce, Launch, Register, Finish, HandleWake, WakeEnds,
                  ChildEnds, Look, Write
    <3>3. CASE UNCHANGED vars
      BY <3>3 DEF vars
    <3> QED
      BY <1>2, <3>1, <3>2, <3>3 DEF Next
  <2>2. ASSUME ~stopped', NEW k \in Deliveries, Launched(k)', child'[k] = "running"
        PROVE  (active[Id(k)] = k \/ Twin(k))'
    BY <1>2, <2>1, <2>2, KeptActive
  <2>3. ASSUME NEW d \in launched'
        PROVE  pc'[d] = "done" /\ (stopped' /\ child'[d] = "running" => (d \in killed \/ Twin(d))')
    <3>1. d \in launched /\ d \in Deliveries /\ pc[d] = "done"
      BY <2>1, <2>3 DEF ActiveInv, TypeOK
    <3>2. pc'[d] = "done" /\ (child'[d] = "running" => child[d] = "running")
      BY <3>1, DoneStays
    <3>3. Twin(d) => Twin(d)'
      BY <3>1, TwinStays
    <3> QED
      BY <2>1, <3>1, <3>2, <3>3 DEF ActiveInv
  <2> QED
    BY <2>1, <2>2, <2>3 DEF ActiveInv
<1> QED
  BY <1>1, <1>2

-----------------------------------------------------------------------------
(* The theorems.                                                           *)

\* The invariant holds in every reachable state.
LEMMA Invariance == Spec => []IInv
<1>1. IInv /\ [Next]_vars => IInv'
  <2> SUFFICES ASSUME IInv, [Next]_vars PROVE IInv'
    OBVIOUS
  <2>1. TypeOK'
    BY TypeStep DEF IInv
  <2>2. \A d \in Deliveries : ProgressInv(d)'
    BY ProgressStep DEF IInv
  <2>3. SendInv'
    BY SendStep DEF IInv
  <2>4. ActiveInv'
    BY ActiveStep DEF IInv
  <2> QED
    BY <2>1, <2>2, <2>3, <2>4 DEF IInv
<1> QED
  BY <1>1, InvInit, PTL DEF Spec

\* The fields of Actuator and the goroutines of its handlers have the values
\* their types and code allow.
THEOREM TypeCorrect == Spec => []TypeOK
<1>1. IInv => TypeOK
  BY DEF IInv
<1> QED
  BY <1>1, Invariance, PTL

\* However many answers wait for sendMu, none that got ready on a connection
\* that still lasts was lost.
THEOREM LastingDelivers == Spec => []LastingConnectionDelivers
<1>1. IInv => LastingConnectionDelivers
  BY DEF IInv, SendInv
<1> QED
  BY <1>1, Invariance, PTL

\* Stop killed every child of a command that handleExec was done with, unless
\* its id was used twice.
THEOREM StopKillsTheUnique == Spec => []StopMissesOnlyDuplicates
<1>1. IInv => StopMissesOnlyDuplicates
  BY DEF IInv, ActiveInv, Twin, StopMissesOnlyDuplicates
<1> QED
  BY <1>1, Invariance, PTL
================================================================================
