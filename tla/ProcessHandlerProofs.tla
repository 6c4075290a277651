-------------------------- MODULE ProcessHandlerProofs --------------------------
(***************************************************************************)
(* Proofs about ProcessHandler, for any number of sessions and requests    *)
(* and any length of a send-keys request.                                  *)
(***************************************************************************)
EXTENDS ProcessHandler, SequenceTheorems, FiniteSetTheorems, TLAPS

Steps == {"idle", "find", "test", "load", "write", "act", "info", "output",
          "list", "listing", "panic", "done"}
Lives == {"absent", "added", "open", "failed", "running", "zombie", "reaped"}

-----------------------------------------------------------------------------
(* The inductive invariant.                                                *)

Action(r) == ask[r].action
Target(r) == ask[r].session

\* Where a handler can stand, given what it was asked for.
PathInv(r) ==
  /\ pc[r] # "idle" => ask[r] \in Request
  /\ pc[r] # "done" => reply[r] = "none"
  /\ pc[r] = "idle" => dead[r] = {}
  /\ pc[r] \in {"idle", "find"} =>
       count[r] = 0 /\ seen[r] = None /\ \A s \in Sessions : shown[r][s] = "none"
  /\ pc[r] = "find" => Action(r) \in Commands \cup {"poll", "log"}
  /\ pc[r] \in {"test", "load", "write"} =>
       Action(r) \in {"write", "send-keys"} /\ count[r] < KeysOf(r)
  /\ pc[r] = "panic" =>
       \/ Action(r) \in {"write", "send-keys"} /\ count[r] < KeysOf(r)
       \/ Action(r) = "log" /\ ask[r].crossed
  /\ pc[r] = "act" => Action(r) \in {"resize", "kill"}
  /\ pc[r] \in {"list", "listing"} => Action(r) = "list"
  /\ pc[r] = "info" /\ Action(r) = "poll" => seen[r] = None
  /\ pc[r] = "output" =>
       /\ Action(r) \in {"poll", "log"}
       /\ Action(r) = "poll" => shown[r][Target(r)] # "none"

\* A handler that carries a command out, or has done so.
Obeys(r) ==
  \/ pc[r] \in {"test", "load", "write", "act"}
  \/ pc[r] # "idle" /\ Action(r) \in Commands /\ (pc[r] \in {"info", "panic"} \/ reply[r] = "ok")

\* What a handler knows of exits is so.
ExitInv(r) ==
  /\ Obeys(r) => Target(r) \notin dead[r]
  /\ pc[r] = "load" => record[Target(r)].stdin \/ record[Target(r)].exited
  /\ pc[r] = "panic" /\ Action(r) # "log" => record[Target(r)].exited
  /\ \A s \in Sessions : shown[r][s] = "exited" => record[s].exited
  /\ \A s \in dead[r] : record[s].exited /\ shown[r][s] # "alive"

\* What a poll has shown is complete.
PollInv(r) ==
  pc[r] = "done" /\ Action(r) = "poll" /\ reply[r] = "ok" =>
    /\ seen[r] \in 0..MaxOutput
    /\ shown[r][Target(r)] = "exited" => seen[r] >= owed[Target(r)]

IInv ==
  /\ TypeOK
  /\ \A r \in Requests : PathInv(r) /\ ExitInv(r) /\ PollInv(r)
  /\ \A s \in Sessions : owed[s] <= output[s]
  /\ victim # None => pc[victim] = "panic"

-----------------------------------------------------------------------------
(* Types.                                                                  *)

\* The step of a handler leaves pc and reply what they are.
LEMMA HandlerTypes ==
  ASSUME TypeOK, NEW r \in Requests, NEW from
  PROVE  /\ \A to \in Steps : Go(r, from, to) => pc' \in [Requests -> Steps]
         /\ \A answer \in {"ok", "error"} :
              Finish(r, from, answer) => pc' \in [Requests -> Steps]
                                         /\ reply' \in [Requests -> {"none", "ok", "error"}]
<1>1. \A to \in Steps : Go(r, from, to) => pc' \in [Requests -> Steps]
  BY DEF TypeOK, Go, Steps
<1>2. ASSUME NEW answer \in {"ok", "error"}, Finish(r, from, answer)
      PROVE  reply' \in [Requests -> {"none", "ok", "error"}]
  BY <1>2 DEF TypeOK, Finish
<1> QED
  BY <1>1, <1>2 DEF Finish, Steps

\* The steps of the command of a session keep the types.
LEMMA SessionTypes ==
  ASSUME TypeOK, NEW s \in Sessions,
         AddSession(s) \/ Executor(s) \/ MarkExited(s) \/ ChildReads(s) \/ ChildExits(s) \/ AppendOutput(s)
  PROVE  TypeOK'
<1> USE HandlerAssumption DEF requestVars
<1>l. ASSUME NEW from, NEW to \in Lives, Life!Move(s, from, to) PROVE child' \in [Sessions -> Lives]
  BY <1>l DEF Life!Move, TypeOK, Lives
<1>1. ASSUME UNCHANGED <<aside, owed>>,
             Life!AddSession(s) \/ Life!Start(s) \/ Life!StartFails(s) \/ Life!ChildExits(s) \/ Life!Reap(s)
      PROVE  TypeOK'
  <2>1. UNCHANGED <<terminals, record>> /\ \E from : \E to \in Lives : Life!Move(s, from, to)
    BY <1>1 DEF Life!AddSession, Life!Start, Life!StartFails, Life!ChildExits, Life!Reap, Lives
  <2>2. child' \in [Sessions -> Lives]
    BY <1>l, <2>1
  <2> QED
    BY <1>1, <2>1, <2>2 DEF aside, TypeOK, Lives
<1>2. ASSUME UNCHANGED <<aside, owed>>, Life!OpenStdin(s) PROVE TypeOK'
  <2>1. UNCHANGED <<terminals, output, unread, requestVars, victim, typed, owed, dead>>
    BY <1>2 DEF Life!OpenStdin, aside
  <2>2. child' \in [Sessions -> Lives]
    BY <1>2, <1>l DEF Life!OpenStdin, Lives
  <2>3. record' \in [Sessions -> [pid : BOOLEAN, stdin : BOOLEAN, exited : BOOLEAN]]
    <3> DEFINE new == [record[s] EXCEPT !.stdin = TRUE]
    <3>1. record[s] \in [pid : BOOLEAN, stdin : BOOLEAN, exited : BOOLEAN]
      BY DEF TypeOK
    <3>2. new \in [pid : BOOLEAN, stdin : BOOLEAN, exited : BOOLEAN]
      BY <3>1
    <3>3. record' = [record EXCEPT ![s] = new]
      BY <1>2 DEF Life!OpenStdin
    <3> HIDE DEF new
    <3> QED
      BY <3>2, <3>3 DEF TypeOK
  <2> QED
    BY <2>1, <2>2, <2>3 DEF TypeOK, Lives
<1>3. ASSUME UNCHANGED <<aside, owed>>, Life!Publish(s) PROVE TypeOK'
  <2>1. UNCHANGED <<terminals, child, output, unread, requestVars, victim, typed, owed, dead>>
    BY <1>3 DEF Life!Publish, aside
  <2>2. record' \in [Sessions -> [pid : BOOLEAN, stdin : BOOLEAN, exited : BOOLEAN]]
    <3> DEFINE new == [record[s] EXCEPT !.pid = TRUE, !.stdin = @ \/ s \in terminals]
    <3>1. record[s] \in [pid : BOOLEAN, stdin : BOOLEAN, exited : BOOLEAN]
      BY DEF TypeOK
    <3>2. new \in [pid : BOOLEAN, stdin : BOOLEAN, exited : BOOLEAN]
      BY <3>1
    <3>3. record' = [record EXCEPT ![s] = new]
      BY <1>3 DEF Life!Publish
    <3> HIDE DEF new
    <3> QED
      BY <3>2, <3>3 DEF TypeOK
  <2> QED
    BY <2>1, <2>2 DEF TypeOK
<1>4. ASSUME MarkExited(s) PROVE TypeOK'
  <2>1. UNCHANGED <<terminals, child, output, unread, requestVars, victim, typed, dead>>
    BY <1>4 DEF MarkExited, Life!MarkExited, aside
  <2>2. record' \in [Sessions -> [pid : BOOLEAN, stdin : BOOLEAN, exited : BOOLEAN]]
    <3> DEFINE new == [record[s] EXCEPT !.exited = TRUE, !.stdin = FALSE]
    <3>1. record[s] \in [pid : BOOLEAN, stdin : BOOLEAN, exited : BOOLEAN]
      BY DEF TypeOK
    <3>2. new \in [pid : BOOLEAN, stdin : BOOLEAN, exited : BOOLEAN]
      BY <3>1
    <3>3. record' = [record EXCEPT ![s] = new]
      BY <1>4 DEF MarkExited, Life!MarkExited
    <3> HIDE DEF new
    <3> QED
      BY <3>2, <3>3 DEF TypeOK
  <2>3. owed' \in [Sessions -> 0..MaxOutput]
    BY <1>4 DEF MarkExited, TypeOK
  <2> QED
    BY <2>1, <2>2, <2>3 DEF TypeOK
<1>5. ASSUME ChildReads(s) PROVE TypeOK'
  <2>1. UNCHANGED <<terminals, child, record, output, requestVars, victim, typed, owed, dead>>
    BY <1>5 DEF ChildReads
  <2>2. unread' \in [Sessions -> 0..PipeSize]
    BY <1>5 DEF ChildReads, TypeOK
  <2> QED
    BY <2>1, <2>2 DEF TypeOK
<1>6. ASSUME AppendOutput(s) PROVE TypeOK'
  <2>1. UNCHANGED <<terminals, child, record, unread, requestVars, victim, typed, owed, dead>>
    BY <1>6 DEF AppendOutput
  <2>2. output' \in [Sessions -> 0..MaxOutput]
    BY <1>6 DEF AppendOutput, TypeOK
  <2> QED
    BY <2>1, <2>2 DEF TypeOK
<1> QED
  BY <1>1, <1>2, <1>3, <1>4, <1>5, <1>6 DEF Executor, AddSession, Advance, ChildExits, Life!Advance

\* So do the steps of a request.
LEMMA RequestTypes ==
  ASSUME TypeOK, NEW r \in Requests, PathInv(r), Arrive(r) \/ Handler(r) \/ WriteBreaks(r)
  PROVE  TypeOK'
<1> USE HandlerAssumption DEF sessionVars
<1>k. KeysOf(r) \in 1..Keys
  BY DEF KeysOf
<1>1. ASSUME Arrive(r) PROVE TypeOK'
  <2>1. UNCHANGED <<sessionVars, count, todo, shown, seen, victim, typed, owed>>
    BY <1>1 DEF Arrive
  <2>2. PICK a \in Request :
          /\ ask' = [ask EXCEPT ![r] = a]
          /\ \/ Finish(r, "idle", "error")
             \/ (Go(r, "idle", "list") \/ Go(r, "idle", "find")) /\ UNCHANGED reply
    BY <1>1 DEF Arrive
  <2>3. ask' \in [Requests -> Request \cup {None}]
    BY <2>2 DEF TypeOK
  <2>4. pc' \in [Requests -> Steps] /\ reply' \in [Requests -> {"none", "ok", "error"}]
    BY <2>2, HandlerTypes DEF Steps, TypeOK
  <2>5. dead' \in [Requests -> SUBSET Sessions]
    BY <1>1 DEF Arrive, TypeOK
  <2> QED
    BY <2>1, <2>3, <2>4, <2>5 DEF TypeOK, Steps
<1>2. ASSUME Find(r) \/ TestStdin(r) \/ WriteFails(r) \/ WriteBreaks(r) \/ Resize(r) \/ Kill(r) PROVE TypeOK'
  <2>1. UNCHANGED <<sessionVars, ask, count, todo, shown, seen, victim, typed, owed, dead>>
    BY <1>2 DEF Find, TestStdin, WriteFails, WriteBreaks, Resize, Kill
  <2>2. \E from : \/ Finish(r, from, "error")
                  \/ \E to \in Steps : Go(r, from, to) /\ UNCHANGED reply
    BY <1>2 DEF Find, First, TestStdin, WriteFails, WriteBreaks, Resize, Kill, Steps
  <2>3. pc' \in [Requests -> Steps] /\ reply' \in [Requests -> {"none", "ok", "error"}]
    BY <2>2, HandlerTypes DEF TypeOK
  <2> QED
    BY <2>1, <2>3 DEF TypeOK, Steps
<1>3. ASSUME LoadStdin(r) PROVE TypeOK'
  <2>1. UNCHANGED <<sessionVars, ask, count, todo, shown, seen, typed, owed, dead>>
    BY <1>3 DEF LoadStdin
  <2>2. \/ Finish(r, "load", "error")
        \/ (Go(r, "load", "write") \/ Go(r, "load", "panic")) /\ UNCHANGED reply
    BY <1>3 DEF LoadStdin, Panic
  <2>3. pc' \in [Requests -> Steps] /\ reply' \in [Requests -> {"none", "ok", "error"}]
    BY <2>2, HandlerTypes DEF TypeOK, Steps
  <2>4. victim' \in Requests \cup {None}
    BY <1>3 DEF LoadStdin, Panic, TypeOK
  <2> QED
    BY <2>1, <2>3, <2>4 DEF TypeOK, Steps
<1>4. ASSUME Write(r) PROVE TypeOK'
  <2> DEFINE s == Target(r)
  <2>1. UNCHANGED <<terminals, child, record, output, ask, todo, reply, shown, seen, victim, owed, dead>>
    BY <1>4 DEF Write
  <2>2. pc[r] = "write" /\ (Go(r, "write", "info") \/ Go(r, "write", "test"))
    BY <1>4 DEF Write, Go
  <2>3. count[r] \in 0..Keys /\ count[r] < KeysOf(r) /\ ask[r] \in Request
    BY <2>2 DEF PathInv, TypeOK
  <2>4. s \in Sessions /\ count[r] + 1 \in 1..Keys
    BY <1>k, <2>3 DEF Target, Request
  <2>5. pc' \in [Requests -> Steps]
    BY <2>2, HandlerTypes DEF Steps
  <2>6. count' = [count EXCEPT ![r] = @ + 1]
    BY <1>4 DEF Write
  <2>7. count' \in [Requests -> 0..Keys]
    BY <2>4, <2>6 DEF TypeOK
  <2>8. unread[s] < PipeSize /\ unread' = [unread EXCEPT ![s] = @ + 1]
    BY <1>4 DEF Write, Target
  <2>9. unread' \in [Sessions -> 0..PipeSize]
    BY <2>4, <2>8 DEF TypeOK
  <2>10. typed' = [typed EXCEPT ![s] = Append(@, <<r, count[r] + 1>>)]
    BY <1>4 DEF Write, Target
  <2>11. typed[s] \in Seq(Requests \X (1..Keys)) /\ <<r, count[r] + 1>> \in Requests \X (1..Keys)
    BY <2>4 DEF TypeOK
  <2>12. Append(typed[s], <<r, count[r] + 1>>) \in Seq(Requests \X (1..Keys))
    BY <2>11
  <2>13. typed' \in [Sessions -> Seq(Requests \X (1..Keys))]
    BY <2>10, <2>12 DEF TypeOK
  <2> HIDE DEF s
  <2> QED
    BY <2>1, <2>5, <2>7, <2>9, <2>13 DEF TypeOK, Steps
<1>5. ASSUME Inform(r) PROVE TypeOK'
  <2>1. UNCHANGED <<sessionVars, ask, count, todo, seen, victim, typed, owed, dead>>
    BY <1>5 DEF Inform
  <2>2. Finish(r, "info", "ok") \/ (Go(r, "info", "output") /\ UNCHANGED reply)
    BY <1>5 DEF Inform
  <2>3. pc' \in [Requests -> Steps] /\ reply' \in [Requests -> {"none", "ok", "error"}]
    BY <2>2, HandlerTypes DEF TypeOK, Steps
  <2>4. shown' \in [Requests -> [Sessions -> {"none", "alive", "exited"}]]
    BY <1>5 DEF Inform, Status, TypeOK
  <2> QED
    BY <2>1, <2>3, <2>4 DEF TypeOK, Steps
<1>6. ASSUME ReadOutput(r) PROVE TypeOK'
  <2>1. UNCHANGED <<sessionVars, ask, count, todo, shown, typed, owed, dead>>
    BY <1>6 DEF ReadOutput
  <2>2. \/ Finish(r, "output", "ok")
        \/ (Go(r, "output", "info") \/ Go(r, "output", "panic")) /\ UNCHANGED reply
    BY <1>6 DEF ReadOutput, Panic
  <2>3. pc' \in [Requests -> Steps] /\ reply' \in [Requests -> {"none", "ok", "error"}]
    BY <2>2, HandlerTypes DEF TypeOK, Steps
  <2>4. ask[r] \in Request
    BY <2>2 DEF Finish, Go, PathInv
  <2>5. output[ask[r].session] \in 0..MaxOutput
    BY <2>4 DEF Request, TypeOK
  <2>6. seen' \in [Requests -> 0..MaxOutput \cup {None}]
    BY <1>6, <2>5 DEF ReadOutput, TypeOK
  <2>7. victim' \in Requests \cup {None}
    BY <1>6 DEF ReadOutput, Panic, TypeOK
  <2> QED
    BY <2>1, <2>3, <2>6, <2>7 DEF TypeOK, Steps
<1>7. ASSUME ListSessions(r) PROVE TypeOK'
  <2>1. UNCHANGED <<sessionVars, ask, count, reply, shown, seen, victim, typed, owed, dead>>
    BY <1>7 DEF ListSessions
  <2>2. pc' \in [Requests -> Steps]
    BY <1>7, HandlerTypes DEF ListSessions, Steps
  <2>3. todo' \in [Requests -> SUBSET Sessions]
    BY <1>7 DEF ListSessions, TypeOK
  <2> QED
    BY <2>1, <2>2, <2>3 DEF TypeOK, Steps
<1>8. ASSUME DescribeNext(r) PROVE TypeOK'
  <2>1. UNCHANGED <<sessionVars, pc, ask, count, reply, seen, victim, typed, owed, dead>>
    BY <1>8 DEF DescribeNext
  <2>2. PICK s \in todo[r] : /\ todo' = [todo EXCEPT ![r] = @ \ {s}]
                             /\ shown' = [shown EXCEPT ![r][s] = Status(s)]
    BY <1>8 DEF DescribeNext
  <2>3. todo' \in [Requests -> SUBSET Sessions]
    BY <2>2 DEF TypeOK
  <2>4. shown' \in [Requests -> [Sessions -> {"none", "alive", "exited"}]]
    BY <2>2 DEF Status, TypeOK
  <2> QED
    BY <2>1, <2>3, <2>4 DEF TypeOK
<1>9. ASSUME ListEnds(r) PROVE TypeOK'
  <2>1. UNCHANGED <<sessionVars, ask, count, todo, shown, seen, victim, typed, owed, dead>>
    BY <1>9 DEF ListEnds
  <2>2. pc' \in [Requests -> Steps] /\ reply' \in [Requests -> {"none", "ok", "error"}]
    BY <1>9, HandlerTypes DEF ListEnds
  <2> QED
    BY <2>1, <2>2 DEF TypeOK, Steps
<1> QED
  BY <1>1, <1>2, <1>3, <1>4, <1>5, <1>6, <1>7, <1>8, <1>9 DEF Handler

-----------------------------------------------------------------------------
(* What the steps of a session do to its requests.                         *)

\* An exit is recorded once and for all, with the output of then; until then
\* the input of a session does not go away.
LEMMA SessionFacts ==
  ASSUME TypeOK, NEW s \in Sessions,
         AddSession(s) \/ Executor(s) \/ MarkExited(s) \/ ChildReads(s) \/ ChildExits(s) \/ AppendOutput(s)
  PROVE  /\ UNCHANGED <<requestVars, victim, dead>>
         /\ \A t \in Sessions :
              /\ record[t].exited => record'[t].exited /\ owed'[t] = owed[t]
              /\ record[t].stdin => record'[t].stdin \/ record'[t].exited
              /\ output[t] <= output'[t]
              /\ owed'[t] = owed[t] \/ owed'[t] = output[t]
<1> DEFINE Facts ==
      \A t \in Sessions :
        /\ record[t].exited => record'[t].exited /\ owed'[t] = owed[t]
        /\ record[t].stdin => record'[t].stdin \/ record'[t].exited
        /\ output[t] <= output'[t]
        /\ owed'[t] = owed[t] \/ owed'[t] = output[t]
<1>t. \A t \in Sessions : output[t] \in Nat
  BY HandlerAssumption DEF TypeOK
<1>1. UNCHANGED <<requestVars, victim, dead>>
  BY DEF AddSession, Executor, Advance, MarkExited, ChildReads, ChildExits, AppendOutput, aside
<1> USE DEF aside
<1>2. ASSUME \/ ChildReads(s)
             \/ /\ UNCHANGED <<aside, owed>>
                /\ Life!AddSession(s) \/ Life!Start(s) \/ Life!StartFails(s) \/ Life!ChildExits(s) \/ Life!Reap(s)
      PROVE  Facts
  <2>1. UNCHANGED <<record, output, owed>>
    BY <1>2 DEF Life!AddSession, Life!Start, Life!StartFails, Life!ChildExits, Life!Reap, ChildReads
  <2> QED
    BY <1>t, <2>1
<1>3. ASSUME UNCHANGED <<aside, owed>>, Life!OpenStdin(s) PROVE Facts
  <2>1. UNCHANGED <<output, owed>>
    BY <1>3
  <2>2. record' = [record EXCEPT ![s].stdin = TRUE]
    BY <1>3 DEF Life!OpenStdin
  <2>3. \A t \in Sessions : (record[t].exited => record'[t].exited) /\ (record[t].stdin => record'[t].stdin)
    BY <2>2 DEF TypeOK
  <2> QED
    BY <1>t, <2>1, <2>3
<1>4. ASSUME UNCHANGED <<aside, owed>>, Life!Publish(s) PROVE Facts
  <2>1. UNCHANGED <<output, owed>>
    BY <1>4
  <2>2. record' = [record EXCEPT ![s].pid = TRUE, ![s].stdin = @ \/ s \in terminals]
    BY <1>4 DEF Life!Publish
  <2>3. \A t \in Sessions : (record[t].exited => record'[t].exited) /\ (record[t].stdin => record'[t].stdin)
    BY <2>2 DEF TypeOK
  <2> QED
    BY <1>t, <2>1, <2>3
<1>5. ASSUME MarkExited(s) PROVE Facts
  <2>1. UNCHANGED output /\ ~record[s].exited
    BY <1>5 DEF MarkExited, Life!MarkExited
  <2>2. record' = [record EXCEPT ![s].exited = TRUE, ![s].stdin = FALSE]
    BY <1>5 DEF MarkExited, Life!MarkExited
  <2>3. owed' = [owed EXCEPT ![s] = output[s]]
    BY <1>5 DEF MarkExited, Life!MarkExited
  <2>4. record'[s].exited /\ owed'[s] = output[s]
    BY <2>2, <2>3 DEF TypeOK
  <2>5. \A t \in Sessions \ {s} : record'[t] = record[t] /\ owed'[t] = owed[t]
    BY <2>2, <2>3 DEF TypeOK
  <2> QED
    BY <1>t, <2>1, <2>4, <2>5
<1>6. ASSUME AppendOutput(s) PROVE Facts
  <2>1. UNCHANGED <<record, owed>>
    BY <1>6 DEF AppendOutput
  <2>2. output' = [output EXCEPT ![s] = @ + 1]
    BY <1>6 DEF AppendOutput
  <2>3. \A t \in Sessions : output[t] <= output'[t]
    BY <1>t, <2>2 DEF TypeOK
  <2> QED
    BY <2>1, <2>3
<1> QED
  BY <1>1, <1>2, <1>3, <1>4, <1>5, <1>6 DEF Executor, AddSession, Advance, ChildExits, Life!Advance

\* Such a step keeps the invariant.
LEMMA SessionStep ==
  ASSUME IInv, NEW s \in Sessions,
         AddSession(s) \/ Executor(s) \/ MarkExited(s) \/ ChildReads(s) \/ ChildExits(s) \/ AppendOutput(s)
  PROVE  IInv'
<1>1. TypeOK'
  BY SessionTypes DEF IInv
<1>2. UNCHANGED <<pc, ask, count, reply, shown, seen, victim, dead>>
  BY SessionFacts DEF IInv, requestVars
<1>3. \A t \in Sessions :
        /\ record[t].exited => record'[t].exited /\ owed'[t] = owed[t]
        /\ record[t].stdin => record'[t].stdin \/ record'[t].exited
        /\ output[t] <= output'[t]
        /\ owed'[t] = owed[t] \/ owed'[t] = output[t]
  BY SessionFacts DEF IInv
<1>4. ASSUME NEW r \in Requests PROVE (PathInv(r) /\ ExitInv(r) /\ PollInv(r))'
  <2>1. PathInv(r)'
    BY <1>2 DEF IInv, PathInv, Action, Target, KeysOf
  <2>2. ASSUME pc[r] # "idle" PROVE Target(r) \in Sessions
    BY <2>2 DEF IInv, PathInv, Target, Request
  <2>3. ExitInv(r)'
    <3>1. ExitInv(r) /\ dead[r] \subseteq Sessions
      BY DEF IInv, TypeOK
    <3>2. (Obeys(r) => Target(r) \notin dead[r])'
      BY <1>2, <3>1 DEF ExitInv, Obeys, Action, Target
    <3>3. (pc[r] = "load" => record[Target(r)].stdin \/ record[Target(r)].exited)'
      BY <1>2, <1>3, <2>2, <3>1 DEF ExitInv, Target
    <3>4. (pc[r] = "panic" /\ Action(r) # "log" => record[Target(r)].exited)'
      BY <1>2, <1>3, <2>2, <3>1 DEF ExitInv, Target, Action
    <3>5. (\A t \in Sessions : shown[r][t] = "exited" => record[t].exited)'
      BY <1>2, <1>3, <3>1 DEF ExitInv
    <3>6. (\A t \in dead[r] : record[t].exited /\ shown[r][t] # "alive")'
      BY <1>2, <1>3, <3>1 DEF ExitInv
    <3> QED
      BY <3>2, <3>3, <3>4, <3>5, <3>6 DEF ExitInv
  <2>4. PollInv(r)'
    <3> SUFFICES ASSUME pc[r] = "done", Action(r) = "poll", reply[r] = "ok"
                 PROVE  /\ seen[r] \in 0..MaxOutput
                        /\ shown[r][Target(r)] = "exited" => seen[r] >= owed'[Target(r)]
      BY <1>2 DEF PollInv, Action, Target
    <3>1. PollInv(r) /\ ExitInv(r)
      BY DEF IInv
    <3> QED
      BY <1>3, <2>2, <3>1 DEF PollInv, ExitInv
  <2> QED
    BY <2>1, <2>3, <2>4
<1>5. \A t \in Sessions : owed'[t] <= output'[t]
  <2> SUFFICES ASSUME NEW t \in Sessions PROVE owed'[t] <= output'[t]
    OBVIOUS
  <2>1. owed[t] \in Nat /\ output[t] \in Nat /\ output'[t] \in Nat /\ owed[t] <= output[t]
    BY <1>1, HandlerAssumption DEF IInv, TypeOK
  <2> QED
    BY <1>3, <2>1
<1>6. (victim # None => pc[victim] = "panic")'
  BY <1>2 DEF IInv
<1> QED
  BY <1>1, <1>4, <1>5, <1>6 DEF IInv

-----------------------------------------------------------------------------
(* What the handler of a request does to the others.                       *)

\* The step of r leaves the other requests alone, and of the sessions what
\* the invariant is about.
Frame(r) ==
  /\ UNCHANGED <<record, output, owed>>
  /\ \A k \in Requests \ {r} :
       /\ pc'[k] = pc[k] /\ ask'[k] = ask[k] /\ count'[k] = count[k] /\ reply'[k] = reply[k]
       /\ shown'[k] = shown[k] /\ seen'[k] = seen[k] /\ dead'[k] = dead[k]

\* Every step of a handler is of that kind.
LEMMA FrameStep ==
  ASSUME TypeOK, NEW r \in Requests, Arrive(r) \/ Handler(r) \/ WriteBreaks(r)
  PROVE  Frame(r)
<1> USE DEF sessionVars
<1>g. ASSUME NEW from, NEW to, Go(r, from, to) PROVE \A k \in Requests \ {r} : pc'[k] = pc[k]
  BY <1>g DEF Go, TypeOK
<1>f. ASSUME NEW from, NEW answer, Finish(r, from, answer)
      PROVE  \A k \in Requests \ {r} : pc'[k] = pc[k] /\ reply'[k] = reply[k]
  BY <1>f DEF Finish, Go, TypeOK
<1>1. ASSUME Arrive(r) PROVE Frame(r)
  <2>1. UNCHANGED <<record, output, owed, count, shown, seen>>
    BY <1>1 DEF Arrive
  <2>2. PICK a \in Request :
          /\ ask' = [ask EXCEPT ![r] = a]
          /\ \/ Finish(r, "idle", "error")
             \/ (Go(r, "idle", "list") \/ Go(r, "idle", "find")) /\ UNCHANGED reply
    BY <1>1 DEF Arrive
  <2>3. \A k \in Requests \ {r} : pc'[k] = pc[k] /\ reply'[k] = reply[k]
    BY <1>f, <1>g, <2>2
  <2>4. \A k \in Requests \ {r} : ask'[k] = ask[k]
    BY <2>2 DEF TypeOK
  <2>5. \A k \in Requests \ {r} : dead'[k] = dead[k]
    BY <1>1 DEF Arrive, TypeOK
  <2> QED
    BY <2>1, <2>3, <2>4, <2>5 DEF Frame
<1>2. ASSUME \/ Find(r) \/ TestStdin(r) \/ LoadStdin(r) \/ WriteFails(r) \/ WriteBreaks(r) \/ Resize(r)
             \/ Kill(r) \/ ListEnds(r) \/ ListSessions(r)
      PROVE  Frame(r)
  <2>1. UNCHANGED <<record, output, owed, ask, count, shown, seen, dead>>
    BY <1>2 DEF Find, TestStdin, LoadStdin, WriteFails, WriteBreaks, Resize, Kill, ListEnds, ListSessions
  <2>2. \/ \E from : \E answer : Finish(r, from, answer)
        \/ \E from : \E to : Go(r, from, to) /\ UNCHANGED reply
    BY <1>2 DEF Find, TestStdin, LoadStdin, Panic, WriteFails, WriteBreaks, Resize, Kill, ListEnds, ListSessions
  <2>3. \A k \in Requests \ {r} : pc'[k] = pc[k] /\ reply'[k] = reply[k]
    BY <1>f, <1>g, <2>2
  <2> QED
    BY <2>1, <2>3 DEF Frame
<1>3. ASSUME Write(r) PROVE Frame(r)
  <2>1. UNCHANGED <<record, output, owed, ask, reply, shown, seen, dead>>
    BY <1>3 DEF Write
  <2>2. \A k \in Requests \ {r} : pc'[k] = pc[k]
    BY <1>3, <1>g DEF Write
  <2>3. \A k \in Requests \ {r} : count'[k] = count[k]
    BY <1>3 DEF Write, TypeOK
  <2> QED
    BY <2>1, <2>2, <2>3 DEF Frame
<1>4. ASSUME Inform(r) PROVE Frame(r)
  <2>1. UNCHANGED <<record, output, owed, ask, count, seen, dead>>
    BY <1>4 DEF Inform
  <2>2. Finish(r, "info", "ok") \/ (Go(r, "info", "output") /\ UNCHANGED reply)
    BY <1>4 DEF Inform
  <2>3. \A k \in Requests \ {r} : pc'[k] = pc[k] /\ reply'[k] = reply[k]
    BY <1>f, <1>g, <2>2
  <2>4. \A k \in Requests \ {r} : shown'[k] = shown[k]
    BY <1>4 DEF Inform, TypeOK
  <2> QED
    BY <2>1, <2>3, <2>4 DEF Frame
<1>5. ASSUME ReadOutput(r) PROVE Frame(r)
  <2>1. UNCHANGED <<record, output, owed, ask, count, shown, dead>>
    BY <1>5 DEF ReadOutput
  <2>2. \/ Finish(r, "output", "ok")
        \/ (Go(r, "output", "info") \/ Go(r, "output", "panic")) /\ UNCHANGED reply
    BY <1>5 DEF ReadOutput, Panic
  <2>3. \A k \in Requests \ {r} : pc'[k] = pc[k] /\ reply'[k] = reply[k]
    BY <1>f, <1>g, <2>2
  <2>4. \A k \in Requests \ {r} : seen'[k] = seen[k]
    BY <1>5 DEF ReadOutput, TypeOK
  <2> QED
    BY <2>1, <2>3, <2>4 DEF Frame
<1>6. ASSUME DescribeNext(r) PROVE Frame(r)
  <2>1. UNCHANGED <<record, output, owed, pc, ask, count, reply, seen, dead>>
    BY <1>6 DEF DescribeNext
  <2>2. \A k \in Requests \ {r} : shown'[k] = shown[k]
    BY <1>6 DEF DescribeNext, TypeOK
  <2> QED
    BY <2>1, <2>2 DEF Frame
<1> QED
  BY <1>1, <1>2, <1>3, <1>4, <1>5, <1>6 DEF Handler

\* The invariants of the others are preserved.
LEMMA OthersStep ==
  ASSUME NEW r \in Requests, Frame(r), NEW k \in Requests \ {r}, PathInv(k), ExitInv(k), PollInv(k)
  PROVE  (PathInv(k) /\ ExitInv(k) /\ PollInv(k))'
<1>1. /\ pc'[k] = pc[k] /\ ask'[k] = ask[k] /\ count'[k] = count[k] /\ reply'[k] = reply[k]
      /\ shown'[k] = shown[k] /\ seen'[k] = seen[k] /\ dead'[k] = dead[k]
  BY DEF Frame
<1>2. UNCHANGED <<record, output, owed>>
  BY DEF Frame
<1>3. PathInv(k)'
  BY <1>1 DEF PathInv, Action, Target, KeysOf
<1>4. ExitInv(k)'
  BY <1>1, <1>2 DEF ExitInv, Obeys, Action, Target
<1>5. PollInv(k)'
  BY <1>1, <1>2 DEF PollInv, Action, Target
<1> QED
  BY <1>3, <1>4, <1>5

-----------------------------------------------------------------------------
(* What it does to its own.                                                *)

\* Where a step of a handler leads.
LEMMA Leads ==
  ASSUME TypeOK, NEW r \in Requests, NEW from
  PROVE  /\ \A to : Go(r, from, to) => pc[r] = from /\ pc'[r] = to
         /\ \A answer : Finish(r, from, answer) => pc[r] = from /\ pc'[r] = "done" /\ reply'[r] = answer
  BY DEF TypeOK, Go, Finish

\* A step that ends a command or a list, or an error, shows nothing new.
LEMMA EndStep ==
  ASSUME NEW r \in Requests, PathInv(r), ExitInv(r),
         UNCHANGED <<record, output, owed, ask, count, shown, seen, dead>>,
         pc[r] # "idle", pc'[r] = "done", reply'[r] = "error" \/ Action(r) = "list"
  PROVE  (PathInv(r) /\ ExitInv(r) /\ PollInv(r))'
<1>1. PathInv(r)'
  BY DEF PathInv, Action, Target, KeysOf
<1>2. ExitInv(r)'
  BY DEF ExitInv, Obeys, Action, Target, Commands
<1>3. PollInv(r)'
  BY DEF PollInv, Action, Target
<1> QED
  BY <1>1, <1>2, <1>3

\* Nor does one that carries a command on.
LEMMA CommandStep ==
  ASSUME NEW r \in Requests, PathInv(r), ExitInv(r), Obeys(r),
         UNCHANGED <<record, output, owed, ask, count, shown, seen, dead, reply>>,
         Action(r) \in Commands,
         \/ pc[r] = "test" /\ pc'[r] = "load" /\ record[Target(r)].stdin
         \/ pc[r] = "load" /\ pc'[r] = "write"
         \/ pc[r] = "load" /\ pc'[r] = "panic" /\ ~record[Target(r)].stdin
         \/ pc[r] = "act" /\ pc'[r] = "info"
  PROVE  (PathInv(r) /\ ExitInv(r) /\ PollInv(r))'
<1>1. PathInv(r)'
  BY DEF PathInv, Action, Target, KeysOf
<1>2. ExitInv(r)'
  <2>1. (Obeys(r) => Target(r) \notin dead[r])'
    BY DEF ExitInv, Target
  <2>2. (pc[r] = "load" => record[Target(r)].stdin \/ record[Target(r)].exited)'
    BY DEF Target
  <2>3. (pc[r] = "panic" /\ Action(r) # "log" => record[Target(r)].exited)'
    BY DEF ExitInv, Target
  <2>4. (\A s \in Sessions : shown[r][s] = "exited" => record[s].exited)'
    BY DEF ExitInv
  <2>5. (\A s \in dead[r] : record[s].exited /\ shown[r][s] # "alive")'
    BY DEF ExitInv
  <2> QED
    BY <2>1, <2>2, <2>3, <2>4, <2>5 DEF ExitInv
<1>3. PollInv(r)'
  BY DEF PollInv
<1> QED
  BY <1>1, <1>2, <1>3

\* Each step of a handler preserves the invariants of its request.
LEMMA OwnStep ==
  ASSUME TypeOK, NEW r \in Requests, PathInv(r), ExitInv(r), \A s \in Sessions : owed[s] <= output[s],
         Arrive(r) \/ Handler(r) \/ WriteBreaks(r)
  PROVE  (PathInv(r) /\ ExitInv(r) /\ PollInv(r))'
<1> USE HandlerAssumption DEF sessionVars
<1> DEFINE Goal == (PathInv(r) /\ ExitInv(r) /\ PollInv(r))'
<1>d. dead[r] \subseteq Sessions
  BY DEF TypeOK
<1>1. ASSUME Arrive(r) PROVE Goal
  <2>1. UNCHANGED <<record, output, owed, count, shown, seen>> /\ pc[r] = "idle"
    BY <1>1 DEF Arrive
  <2>2. PICK a \in Request :
          /\ ask' = [ask EXCEPT ![r] = a]
          /\ IF a.action = "malformed"
               THEN Finish(r, "idle", "error")
               ELSE /\ Go(r, "idle", IF a.action = "list" THEN "list" ELSE "find")
                    /\ UNCHANGED reply
    BY <1>1 DEF Arrive
  <2>3. Action(r)' = a.action /\ ask'[r] \in Request
    BY <2>2 DEF Action, TypeOK
  <2>4. \/ a.action = "malformed" /\ pc'[r] = "done" /\ reply'[r] = "error"
        \/ a.action = "list" /\ pc'[r] = "list" /\ reply'[r] = reply[r]
        \/ a.action \notin {"malformed", "list"} /\ pc'[r] = "find" /\ reply'[r] = reply[r]
    BY <2>2, Leads
  <2>5. dead'[r] = {s \in Sessions : record[s].exited}
    BY <1>1 DEF Arrive, TypeOK
  <2>6. a.action \in Commands \cup Queries \cup {"malformed"}
    BY DEF Request
  <2>7. count[r] = 0 /\ seen[r] = None /\ (\A s \in Sessions : shown[r][s] = "none") /\ reply[r] = "none"
    BY <2>1 DEF PathInv
  <2>8. PathInv(r)'
    BY <2>1, <2>3, <2>4, <2>6, <2>7 DEF PathInv, Queries
  <2>9. ~Obeys(r)'
    BY <2>4, <2>7 DEF Obeys
  <2>10. ExitInv(r)'
    BY <2>1, <2>4, <2>5, <2>7, <2>9 DEF ExitInv
  <2>11. PollInv(r)'
    BY <2>4 DEF PollInv
  <2> QED
    BY <2>8, <2>10, <2>11
<1>2. ASSUME WriteFails(r) \/ WriteBreaks(r) \/ ListEnds(r) PROVE Goal
  <2>1. UNCHANGED <<record, output, owed, ask, count, shown, seen, dead>>
    BY <1>2 DEF WriteFails, WriteBreaks, ListEnds
  <2>2. Finish(r, "write", "error") \/ Finish(r, "listing", "ok")
    BY <1>2 DEF WriteFails, WriteBreaks, ListEnds
  <2>3. /\ pc[r] \in {"write", "listing"} /\ pc'[r] = "done"
        /\ pc[r] = "listing" \/ reply'[r] = "error"
    BY <2>2, Leads
  <2>4. pc[r] = "listing" => Action(r) = "list"
    BY DEF PathInv
  <2> QED
    BY <2>1, <2>3, <2>4, EndStep
<1>3. ASSUME Find(r) PROVE Goal
  <2>1. UNCHANGED <<record, output, owed, ask, count, shown, seen, dead>>
    BY <1>3 DEF Find
  <2>2. CASE Refused(r)
    <3>1. Finish(r, "find", "error")
      BY <1>3, <2>2 DEF Find
    <3>2. pc[r] = "find" /\ pc'[r] = "done" /\ reply'[r] = "error"
      BY <3>1, Leads
    <3> QED
      BY <2>1, <3>2, EndStep
  <2>3. CASE ~Refused(r)
    <3>1. pc[r] = "find" /\ pc'[r] = First(Action(r)) /\ UNCHANGED reply
      BY <1>3, <2>3, Leads DEF Find, Action
    <3>2. Action(r) \in Commands \cup {"poll", "log"} /\ Target(r) \in Sessions /\ reply[r] = "none"
      BY <3>1 DEF PathInv, Target, Request
    <3>3. \/ Action(r) = "poll" /\ pc'[r] = "info"
          \/ Action(r) = "log" /\ pc'[r] = "output"
          \/ Action(r) \in {"write", "send-keys"} /\ pc'[r] = "test"
          \/ Action(r) \in {"resize", "kill"} /\ pc'[r] = "act"
      BY <3>1, <3>2 DEF First, Commands
    <3>4. KeysOf(r) > 0
      BY DEF KeysOf
    <3>5. PathInv(r)'
      BY <2>1, <3>1, <3>2, <3>3, <3>4 DEF PathInv, Action, Target, KeysOf
    <3>6. Action(r) \in Commands => Target(r) \notin dead[r]
      BY <2>3 DEF Refused, Action, Target, ExitInv
    <3>7. Obeys(r)' => Action(r) \in Commands
      BY <2>1, <3>3 DEF Obeys, Action, Commands
    <3>8. ExitInv(r)'
      <4>1. (Obeys(r) => Target(r) \notin dead[r])'
        BY <2>1, <3>6, <3>7 DEF Target
      <4> QED
        BY <2>1, <3>3, <4>1 DEF ExitInv
    <3>9. PollInv(r)'
      BY <3>3 DEF PollInv
    <3> QED
      BY <3>5, <3>8, <3>9
  <2> QED
    BY <2>2, <2>3
<1>4. ASSUME TestStdin(r) PROVE Goal
  <2>1. UNCHANGED <<record, output, owed, ask, count, shown, seen, dead>>
    BY <1>4 DEF TestStdin
  <2>2. \/ Finish(r, "test", "error")
        \/ record[Target(r)].stdin /\ Go(r, "test", "load") /\ UNCHANGED reply
    BY <1>4 DEF TestStdin, Target
  <2>3. pc[r] = "test" /\ Obeys(r) /\ Action(r) \in Commands
    BY <2>2, Leads DEF Obeys, PathInv, Commands
  <2>4. CASE Finish(r, "test", "error")
    BY <2>1, <2>3, <2>4, EndStep, Leads
  <2>5. CASE record[Target(r)].stdin /\ Go(r, "test", "load") /\ UNCHANGED reply
    BY <2>1, <2>3, <2>5, CommandStep, Leads
  <2> QED
    BY <2>2, <2>4, <2>5
<1>5. ASSUME LoadStdin(r) PROVE Goal
  <2>1. UNCHANGED <<record, output, owed, ask, count, shown, seen, dead>>
    BY <1>5 DEF LoadStdin
  <2>2. \/ Finish(r, "load", "error")
        \/ Go(r, "load", "write") /\ UNCHANGED reply
        \/ ~record[Target(r)].stdin /\ Go(r, "load", "panic") /\ UNCHANGED reply
    BY <1>5 DEF LoadStdin, Panic, Target
  <2>3. pc[r] = "load" /\ Obeys(r) /\ Action(r) \in Commands
    BY <2>2, Leads DEF Obeys, PathInv, Commands
  <2>4. CASE Finish(r, "load", "error")
    BY <2>1, <2>3, <2>4, EndStep, Leads
  <2>5. CASE \/ Go(r, "load", "write") /\ UNCHANGED reply
             \/ ~record[Target(r)].stdin /\ Go(r, "load", "panic") /\ UNCHANGED reply
    BY <2>1, <2>3, <2>5, CommandStep, Leads
  <2> QED
    BY <2>2, <2>4, <2>5
<1>6. ASSUME Write(r) PROVE Goal
  <2>1. UNCHANGED <<record, output, owed, ask, reply, shown, seen, dead>>
    BY <1>6 DEF Write
  <2>2. /\ pc[r] = "write"
        /\ pc'[r] = (IF count[r] + 1 = KeysOf(r) THEN "info" ELSE "test")
        /\ count'[r] = count[r] + 1
    BY <1>6, Leads DEF Write, TypeOK
  <2>3. /\ Action(r) \in {"write", "send-keys"} /\ count[r] < KeysOf(r) /\ reply[r] = "none"
        /\ count[r] \in Nat /\ KeysOf(r) \in Nat
    BY <2>2 DEF PathInv, TypeOK, KeysOf
  <2>4. UNCHANGED <<Action(r), Target(r), KeysOf(r)>>
    BY <2>1 DEF Action, Target, KeysOf
  <2>5. pc'[r] = "info" \/ (pc'[r] = "test" /\ count'[r] < KeysOf(r))
    BY <2>2, <2>3
  <2>6. PathInv(r)'
    BY <2>1, <2>2, <2>3, <2>4, <2>5 DEF PathInv
  <2>7. Target(r) \notin dead[r]
    BY <2>2 DEF ExitInv, Obeys
  <2>8. ExitInv(r)'
    BY <2>1, <2>4, <2>5, <2>7 DEF ExitInv
  <2>9. PollInv(r)'
    BY <2>5 DEF PollInv
  <2> QED
    BY <2>6, <2>8, <2>9
<1>7. ASSUME Resize(r) \/ Kill(r) PROVE Goal
  <2>1. UNCHANGED <<record, output, owed, ask, count, shown, seen, dead>>
    BY <1>7 DEF Resize, Kill
  <2>2. Finish(r, "act", "error") \/ (Go(r, "act", "info") /\ UNCHANGED reply)
    BY <1>7 DEF Resize, Kill
  <2>3. pc[r] = "act" /\ Obeys(r) /\ Action(r) \in Commands
    BY <2>2, Leads DEF Obeys, PathInv, Commands
  <2>4. CASE Finish(r, "act", "error")
    BY <2>1, <2>3, <2>4, EndStep, Leads
  <2>5. CASE Go(r, "act", "info") /\ UNCHANGED reply
    BY <2>1, <2>3, <2>5, CommandStep, Leads
  <2> QED
    BY <2>2, <2>4, <2>5
<1>8. ASSUME Inform(r) PROVE Goal
  <2>1. UNCHANGED <<record, output, owed, ask, count, seen, dead>>
    BY <1>8 DEF Inform
  <2>2. \/ pc'[r] = "output" /\ UNCHANGED reply /\ Action(r) = "poll"
        \/ pc'[r] = "done" /\ reply'[r] = "ok" /\ (Action(r) = "poll" => seen[r] # None)
    BY <1>8, Leads DEF Inform, Action
  <2>3. pc[r] = "info" /\ Target(r) \in Sessions /\ reply[r] = "none" /\ ask[r] \in Request
    <3>1. pc[r] = "info"
      BY <1>8 DEF Inform, Go, Finish
    <3> QED
      BY <3>1 DEF PathInv, Target, Request
  <2>4. \A s \in Sessions : shown'[r][s] = (IF s = Target(r) THEN Status(s) ELSE shown[r][s])
    BY <1>8 DEF Inform, TypeOK, Target
  <2>5. Action(r) = "poll" => pc'[r] = "output"
    BY <2>2, <2>3 DEF PathInv
  <2>6. UNCHANGED <<Action(r), Target(r), KeysOf(r)>>
    BY <2>1 DEF Action, Target, KeysOf
  <2>7. PathInv(r)'
    BY <2>1, <2>2, <2>3, <2>4, <2>5, <2>6 DEF PathInv, Status
  <2>8. (Obeys(r) => Target(r) \notin dead[r])'
    <3>1. Obeys(r)' => Obeys(r)
      BY <2>2, <2>3, <2>6 DEF Obeys
    <3> QED
      BY <2>1, <2>6, <3>1 DEF ExitInv
  <2>9. (\A s \in Sessions : shown[r][s] = "exited" => record[s].exited)'
    BY <2>1, <2>4 DEF ExitInv, Status
  <2>10. (\A s \in dead[r] : record[s].exited /\ shown[r][s] # "alive")'
    BY <1>d, <2>1, <2>4 DEF ExitInv, Status
  <2>11. ExitInv(r)'
    BY <2>2, <2>8, <2>9, <2>10 DEF ExitInv
  <2>12. PollInv(r)'
    BY <2>5, <2>6 DEF PollInv
  <2> QED
    BY <2>7, <2>11, <2>12
<1>9. ASSUME ReadOutput(r) PROVE Goal
  <2>1. UNCHANGED <<record, output, owed, ask, count, shown, dead>>
    BY <1>9 DEF ReadOutput
  <2>2. \/ pc'[r] = "info" /\ UNCHANGED reply /\ shown[r][Target(r)] = "none"
        \/ pc'[r] = "done" /\ reply'[r] = "ok"
        \/ pc'[r] = "panic" /\ UNCHANGED reply /\ ask[r].crossed
    BY <1>9, Leads DEF ReadOutput, Panic, Target
  <2>3. pc[r] = "output" /\ Action(r) \in {"poll", "log"} /\ Target(r) \in Sessions /\ reply[r] = "none"
        /\ ask[r] \in Request
    <3>1. pc[r] = "output"
      BY <1>9 DEF ReadOutput, Panic, Go, Finish
    <3> QED
      BY <3>1 DEF PathInv, Target, Request
  <2>4. seen'[r] = output[Target(r)]
    BY <1>9 DEF ReadOutput, TypeOK, Target
  <2>5. /\ Action(r) = "poll" => pc'[r] = "done"
        /\ pc'[r] = "panic" => Action(r) = "log"
    BY <2>2, <2>3 DEF PathInv, Request, Action
  <2>6. UNCHANGED <<Action(r), Target(r), KeysOf(r)>>
    BY <2>1 DEF Action, Target, KeysOf
  <2>7. PathInv(r)'
    BY <2>1, <2>2, <2>3, <2>5, <2>6 DEF PathInv
  <2>8. ~Obeys(r)'
    BY <2>2, <2>3, <2>6 DEF Obeys, Commands
  <2>9. ExitInv(r)'
    BY <2>1, <2>2, <2>5, <2>6, <2>8 DEF ExitInv
  <2>10. seen'[r] \in 0..MaxOutput /\ seen'[r] >= owed'[Target(r)]
    BY <2>1, <2>3, <2>4 DEF TypeOK
  <2>11. PollInv(r)'
    BY <2>6, <2>10 DEF PollInv
  <2> QED
    BY <2>7, <2>9, <2>11
<1>10. ASSUME ListSessions(r) PROVE Goal
  <2>1. UNCHANGED <<record, output, owed, ask, count, reply, shown, seen, dead>>
    BY <1>10 DEF ListSessions
  <2>2. pc[r] = "list" /\ pc'[r] = "listing"
    BY <1>10, Leads DEF ListSessions
  <2>3. PathInv(r)'
    BY <2>1, <2>2 DEF PathInv, Action
  <2>4. ExitInv(r)'
    BY <2>1, <2>2 DEF PathInv, ExitInv, Obeys, Action, Target
  <2>5. PollInv(r)'
    BY <2>2 DEF PollInv
  <2> QED
    BY <2>3, <2>4, <2>5
<1>11. ASSUME DescribeNext(r) PROVE Goal
  <2>1. UNCHANGED <<record, output, owed, pc, ask, count, reply, seen, dead>> /\ pc[r] = "listing"
    BY <1>11 DEF DescribeNext
  <2>2. PICK s \in todo[r] : shown' = [shown EXCEPT ![r][s] = Status(s)]
    BY <1>11 DEF DescribeNext
  <2>3. \A t \in Sessions : shown'[r][t] = (IF t = s THEN Status(t) ELSE shown[r][t])
    BY <2>2 DEF TypeOK
  <2>4. PathInv(r)'
    BY <2>1 DEF PathInv, Action
  <2>5. (Obeys(r) => Target(r) \notin dead[r])'
    BY <2>1 DEF ExitInv, Obeys, Action, Target
  <2>6. (\A t \in Sessions : shown[r][t] = "exited" => record[t].exited)'
    BY <2>1, <2>3 DEF ExitInv, Status
  <2>7. (\A t \in dead[r] : record[t].exited /\ shown[r][t] # "alive")'
    BY <1>d, <2>1, <2>3 DEF ExitInv, Status
  <2>8. ExitInv(r)'
    BY <2>1, <2>5, <2>6, <2>7 DEF ExitInv
  <2>9. PollInv(r)'
    BY <2>1 DEF PollInv
  <2> QED
    BY <2>4, <2>8, <2>9
<1> QED
  BY <1>1, <1>2, <1>3, <1>4, <1>5, <1>6, <1>7, <1>8, <1>9, <1>10, <1>11 DEF Handler

-----------------------------------------------------------------------------
(* The theorems.                                                           *)

\* The initial states satisfy the invariant.
LEMMA InvInit == Init => IInv
<1> SUFFICES ASSUME Init PROVE IInv
  OBVIOUS
<1> USE HandlerAssumption
<1>1. TypeOK
  <2>1. \A s \in Sessions : <<>> \in Seq(Requests \X (1..Keys))
    OBVIOUS
  <2> QED
    BY <2>1 DEF Init, Life!Init, TypeOK
<1>2. ASSUME NEW r \in Requests PROVE PathInv(r) /\ ExitInv(r) /\ PollInv(r)
  BY <1>2 DEF Init, PathInv, ExitInv, Obeys, PollInv
<1>3. ASSUME NEW s \in Sessions PROVE owed[s] <= output[s]
  <2>1. owed[s] = 0 /\ output[s] = 0
    BY DEF Init
  <2> QED
    BY <2>1
<1>4. victim = None
  BY DEF Init
<1> QED
  BY <1>1, <1>2, <1>3, <1>4 DEF IInv

\* The steps of a request preserve it.
LEMMA RequestStep ==
  ASSUME IInv, victim = None, NEW r \in Requests, Arrive(r) \/ Handler(r) \/ WriteBreaks(r)
  PROVE  IInv'
<1>1. TypeOK'
  BY RequestTypes DEF IInv
<1>2. ASSUME NEW k \in Requests PROVE (PathInv(k) /\ ExitInv(k) /\ PollInv(k))'
  <2>1. CASE k = r
    BY <2>1, OwnStep DEF IInv
  <2>2. CASE k # r
    BY <2>2, OthersStep, FrameStep DEF IInv
  <2> QED
    BY <2>1, <2>2
<1>3. UNCHANGED <<output, owed>>
  BY FrameStep DEF IInv, Frame
<1>4. (victim # None => pc[victim] = "panic")'
  <2>1. CASE LoadStdin(r) \/ ReadOutput(r)
    <3>1. UNCHANGED victim \/ (victim' = r /\ \E from : Go(r, from, "panic"))
      BY <2>1 DEF LoadStdin, ReadOutput, Panic
    <3> QED
      BY <3>1, Leads DEF IInv
  <2>2. CASE ~(LoadStdin(r) \/ ReadOutput(r))
    <3>1. UNCHANGED victim
      BY <2>2 DEF Arrive, Handler, Find, TestStdin, Write, WriteFails, WriteBreaks, Resize, Kill, Inform,
                  ListSessions, DescribeNext, ListEnds
    <3> QED
      BY <3>1
  <2> QED
    BY <2>1, <2>2
<1> QED
  BY <1>1, <1>2, <1>3, <1>4 DEF IInv

\* The invariant holds in every reachable state.
LEMMA Invariance == Spec => []IInv
<1>1. IInv /\ [Next]_vars => IInv'
  <2> SUFFICES ASSUME IInv, [Next]_vars PROVE IInv'
    OBVIOUS
  <2>1. CASE UNCHANGED vars
    <3>1. UNCHANGED <<terminals, child, record, output, unread, pc, ask, count, todo, reply, shown, seen,
                      victim, typed, owed, dead>>
      BY <2>1 DEF vars, sessionVars, requestVars
    <3>2. TypeOK'
      BY <3>1 DEF IInv, TypeOK
    <3>3. ASSUME NEW r \in Requests PROVE (PathInv(r) /\ ExitInv(r) /\ PollInv(r))'
      <4>1. (PathInv(r) /\ ExitInv(r))'
        BY <3>1 DEF IInv, PathInv, ExitInv, Obeys, Action, Target, KeysOf
      <4>2. PollInv(r)'
        BY <3>1 DEF IInv, PollInv, Action, Target
      <4> QED
        BY <4>1, <4>2
    <3>4. (\A s \in Sessions : owed[s] <= output[s])' /\ (victim # None => pc[victim] = "panic")'
      BY <3>1 DEF IInv
    <3> QED
      BY <3>2, <3>3, <3>4 DEF IInv
  <2>2. CASE Next
    BY <2>2, SessionStep, RequestStep DEF Next
  <2> QED
    BY <2>1, <2>2
<1> QED
  BY <1>1, InvInit, PTL DEF Spec

\* The fields of sessions and the state of handlers have the values that their
\* types and the code allow.
THEOREM TypeCorrect == Spec => []TypeOK
<1>1. IInv => TypeOK
  BY DEF IInv
<1> QED
  BY <1>1, Invariance, PTL

\* A request that arrives after an exit was recorded is told so.
THEOREM ExitsAreFinal == Spec => []ExitIsFinal
<1>1. IInv => ExitIsFinal
  <2> SUFFICES ASSUME IInv, NEW r \in Requests, NEW s \in dead[r]
               PROVE  /\ shown[r][s] # "alive"
                      /\ Target(r) = s /\ Action(r) \in Commands => reply[r] # "ok"
    BY DEF ExitIsFinal, Target, Action
  <2>1. PathInv(r) /\ ExitInv(r)
    BY DEF IInv
  <2>2. pc[r] # "idle"
    BY <2>1 DEF PathInv
  <2> QED
    BY <2>1, <2>2 DEF ExitInv, Obeys
<1> QED
  BY <1>1, Invariance, PTL

\* Only a log with crossed limits, or a request that types and that the exit
\* of its session overtakes, can make the process panic.
THEOREM PanicsNeedRaceOrCrossedLimits == Spec => []PanicNeedsRaceOrCrossedLimits
<1>1. IInv => PanicNeedsRaceOrCrossedLimits
  <2> SUFFICES ASSUME IInv, victim # None
               PROVE  IF Action(victim) = "log"
                        THEN ask[victim].crossed
                        ELSE /\ Action(victim) \in {"write", "send-keys"}
                             /\ record[Target(victim)].exited /\ Target(victim) \notin dead[victim]
    BY DEF PanicNeedsRaceOrCrossedLimits, Action, Target
  <2>1. victim \in Requests /\ pc[victim] = "panic"
    BY DEF IInv, TypeOK
  <2>2. PathInv(victim) /\ ExitInv(victim)
    BY <2>1 DEF IInv
  <2>3. CASE Action(victim) = "log"
    BY <2>1, <2>2, <2>3 DEF PathInv
  <2>4. CASE Action(victim) # "log"
    <3>1. Action(victim) \in {"write", "send-keys"}
      BY <2>1, <2>2, <2>4 DEF PathInv
    <3>2. Obeys(victim)
      BY <2>1, <3>1 DEF Obeys, Commands
    <3> QED
      BY <2>1, <2>2, <2>4, <3>1, <3>2 DEF ExitInv
  <2> QED
    BY <2>3, <2>4
<1> QED
  BY <1>1, Invariance, PTL

\* A poll that shows the exit read its tail after it.
THEOREM PollsAreComplete == Spec => []PollShowsWhatPrecededExit
<1>1. IInv => PollShowsWhatPrecededExit
  <2> SUFFICES ASSUME IInv, NEW r \in Requests, Action(r) = "poll", reply[r] = "ok",
                      shown[r][Target(r)] = "exited"
               PROVE  seen[r] >= owed[Target(r)]
    BY DEF PollShowsWhatPrecededExit, Action, Target
  <2>1. PathInv(r) /\ PollInv(r)
    BY DEF IInv
  <2> QED
    BY <2>1 DEF PathInv, PollInv
<1> QED
  BY <1>1, Invariance, PTL
-----------------------------------------------------------------------------
(* The keys that an input took.                                            *)

\* A key and the request it is of.
Key == Requests \X (1..Keys)

\* A key that is appended keeps what is there of the requests, and is the
\* next one of its own.
LEMMA KeyAppended ==
  ASSUME NEW keys \in Seq(Key), NEW key \in Key, NEW k
  PROVE  /\ k # key[1] => PlacesOf(k, Append(keys, key)) = PlacesOf(k, keys)
         /\ k = key[1] => PlacesOf(k, Append(keys, key)) = PlacesOf(k, keys) \cup {Len(keys) + 1}
         /\ \A p \in PlacesOf(k, keys) :
              /\ Append(keys, key)[p] = keys[p]
              /\ {q \in PlacesOf(k, Append(keys, key)) : q <= p} = {q \in PlacesOf(k, keys) : q <= p}
<1> DEFINE more == Append(keys, key)
           n == Len(keys)
<1>1. n \in Nat
  BY LenProperties
<1>2. /\ Len(more) = n + 1 /\ more[n + 1] = key
      /\ \A p \in 1..n : more[p] = keys[p]
  BY AppendProperties
<1>3. \A p : p \in PlacesOf(k, keys) <=> p \in 1..n /\ keys[p][1] = k
  BY DEF PlacesOf
<1>4. \A p : p \in PlacesOf(k, more) <=> p \in 1..(n + 1) /\ more[p][1] = k
  BY <1>2 DEF PlacesOf
<1> HIDE DEF more, n
<1>5. \A p : p \in 1..(n + 1) <=> p \in 1..n \/ p = n + 1
  BY <1>1
<1>6. \A p : p \in PlacesOf(k, more) <=> p \in PlacesOf(k, keys) \/ (p = n + 1 /\ k = key[1])
  BY <1>2, <1>3, <1>4, <1>5
<1>7. k # key[1] => PlacesOf(k, more) = PlacesOf(k, keys)
  BY <1>6
<1>8. k = key[1] => PlacesOf(k, more) = PlacesOf(k, keys) \cup {n + 1}
  BY <1>6
<1>9. ASSUME NEW p \in PlacesOf(k, keys)
      PROVE  {q \in PlacesOf(k, more) : q <= p} = {q \in PlacesOf(k, keys) : q <= p}
  <2>1. p \in 1..n /\ ~(n + 1 <= p)
    BY <1>1, <1>3
  <2> QED
    BY <1>6, <2>1
<1>10. \A p \in PlacesOf(k, keys) : more[p] = keys[p]
  BY <1>2, <1>3
<1> QED
  BY <1>7, <1>8, <1>9, <1>10 DEF more, n

\* It keeps them in order, and is counted.
LEMMA KeyInOrder ==
  ASSUME NEW keys \in Seq(Key), NEW key \in Key, NEW k, InOrder(k, keys),
         k = key[1] => key = <<k, Cardinality(PlacesOf(k, keys)) + 1>>
  PROVE  /\ InOrder(k, Append(keys, key))
         /\ k = key[1] => Cardinality(PlacesOf(k, Append(keys, key)))
                            = Cardinality(PlacesOf(k, keys)) + 1
<1> DEFINE more == Append(keys, key)
           n == Len(keys)
<1>1. /\ k # key[1] => PlacesOf(k, more) = PlacesOf(k, keys)
      /\ k = key[1] => PlacesOf(k, more) = PlacesOf(k, keys) \cup {n + 1}
      /\ \A p \in PlacesOf(k, keys) :
           /\ more[p] = keys[p]
           /\ {q \in PlacesOf(k, more) : q <= p} = {q \in PlacesOf(k, keys) : q <= p}
  BY KeyAppended
<1>2. n \in Nat
  BY LenProperties
<1>3. more[n + 1] = key
  BY AppendProperties
<1>4. PlacesOf(k, keys) \subseteq 1..n
  BY DEF PlacesOf
<1> HIDE DEF more, n
<1>5. \A p \in PlacesOf(k, keys) :
        more[p] = <<k, Cardinality({q \in PlacesOf(k, more) : q <= p})>>
  BY <1>1 DEF InOrder
<1>6. CASE k # key[1]
  BY <1>1, <1>5, <1>6 DEF InOrder, more
<1>7. CASE k = key[1]
  <2>1. IsFiniteSet(1..n)
    BY <1>2, FS_Interval
  <2>2. IsFiniteSet(PlacesOf(k, keys)) /\ n + 1 \notin PlacesOf(k, keys)
    BY <1>2, <1>4, <2>1, FS_Subset
  <2>3. Cardinality(PlacesOf(k, more)) = Cardinality(PlacesOf(k, keys)) + 1
    BY <1>1, <1>7, <2>2, FS_AddElement
  <2>4. {q \in PlacesOf(k, more) : q <= n + 1} = PlacesOf(k, more)
    BY <1>1, <1>2, <1>4, <1>7
  <2>5. more[n + 1] = <<k, Cardinality({q \in PlacesOf(k, more) : q <= n + 1})>>
    BY <1>3, <1>7, <2>3, <2>4
  <2>6. \A p \in PlacesOf(k, more) :
          more[p] = <<k, Cardinality({q \in PlacesOf(k, more) : q <= p})>>
    BY <1>1, <1>5, <1>7, <2>5
  <2> QED
    BY <2>3, <2>6 DEF InOrder, more
<1> QED
  BY <1>6, <1>7

-----------------------------------------------------------------------------
(* The keys of a request.                                                  *)

\* The inductive invariant of request r: its keys are in its session's input,
\* as many as it has counted, and all of them when it is carried out.
TypedInv(r) ==
  /\ \A s \in Sessions :
       /\ InOrder(r, typed[s])
       /\ PlacesOf(r, typed[s]) # {} => pc[r] # "idle" /\ s = Target(r)
  /\ pc[r] # "idle" => Cardinality(PlacesOf(r, typed[Target(r)])) = count[r]
  /\ (pc[r] = "info" \/ reply[r] = "ok") /\ Action(r) \in {"write", "send-keys"} =>
       count[r] = KeysOf(r)

KeysInv == \A r \in Requests : TypedInv(r)

LEMMA KeysInit == Init => KeysInv
<1> SUFFICES ASSUME Init, NEW r \in Requests PROVE TypedInv(r)
  BY DEF KeysInv
<1>1. \A s \in Sessions : Len(typed[s]) = 0
  BY DEF Init
<1>2. \A s \in Sessions : PlacesOf(r, typed[s]) = {}
  BY <1>1 DEF PlacesOf
<1>3. pc[r] = "idle" /\ reply[r] = "none"
  BY DEF Init
<1> QED
  BY <1>2, <1>3 DEF TypedInv, InOrder

\* A step that types nothing, and after which r has counted what it had.
LEMMA NothingTyped ==
  ASSUME NEW r \in Requests, TypedInv(r), typed' = typed, count'[r] = count[r], ask'[r] = ask[r],
         pc[r] = "idle" <=> pc'[r] = "idle",
         pc'[r] = "info" \/ reply'[r] = "ok" =>
           pc[r] = "info" \/ reply[r] = "ok" \/ Action(r) \notin {"write", "send-keys"}
  PROVE  TypedInv(r)'
<1>1. Action(r)' = Action(r) /\ Target(r)' = Target(r) /\ KeysOf(r)' = KeysOf(r)
  BY DEF Action, Target, KeysOf
<1> QED
  BY <1>1 DEF TypedInv

\* What r has in the inputs when it arrives is nothing.
LEMMA ArriveTypesNothing ==
  ASSUME TypeOK, NEW r \in Requests, PathInv(r), TypedInv(r), Arrive(r)
  PROVE  TypedInv(r)'
<1>1. pc[r] = "idle" /\ typed' = typed /\ count' = count
  BY DEF Arrive
<1>2. PICK a \in Request :
        /\ ask' = [ask EXCEPT ![r] = a]
        /\ \/ Finish(r, "idle", "error")
           \/ (Go(r, "idle", "list") \/ Go(r, "idle", "find")) /\ UNCHANGED reply
  BY DEF Arrive
<1>3. Target(r)' \in Sessions
  BY <1>2 DEF Request, TypeOK, Target
<1>4. pc'[r] \in {"done", "list", "find"} /\ reply'[r] # "ok"
  BY <1>1, <1>2, Leads DEF PathInv
<1>5. \A s \in Sessions : PlacesOf(r, typed[s]) = {}
  BY <1>1 DEF TypedInv
<1>6. Cardinality(PlacesOf(r, typed[Target(r)]))' = count'[r]
  <2>1. count[r] = 0
    BY <1>1 DEF PathInv
  <2>2. PlacesOf(r, typed'[Target(r)']) = {}
    BY <1>1, <1>3, <1>5
  <2> QED
    BY <1>1, <2>1, <2>2, FS_EmptySet
<1> QED
  BY <1>1, <1>4, <1>5, <1>6 DEF TypedInv

\* The other steps of a handler but Write.
LEMMA HandlerTypesNothing ==
  ASSUME TypeOK, NEW r \in Requests, PathInv(r), TypedInv(r), Handler(r) \/ WriteBreaks(r), ~Write(r)
  PROVE  TypedInv(r)'
<1>1. UNCHANGED <<typed, count, ask>>
  BY DEF Handler, Find, TestStdin, LoadStdin, WriteFails, WriteBreaks, Resize, Kill, Inform, ReadOutput,
         ListSessions, DescribeNext, ListEnds
<1>2. ASSUME Find(r) PROVE TypedInv(r)'
  <2>1. \/ Finish(r, "find", "error")
        \/ Go(r, "find", First(Action(r))) /\ UNCHANGED reply
    BY <1>2 DEF Find, Action
  <2>2. pc[r] = "find" /\ Action(r) \in Commands \cup {"poll", "log"} /\ reply[r] = "none"
    <3>1. pc[r] = "find"
      BY <2>1, Leads
    <3> QED
      BY <3>1 DEF PathInv
  <2>3. pc'[r] # "idle" /\ reply'[r] # "ok"
        /\ (pc'[r] = "info" => Action(r) = "poll")
    BY <2>1, <2>2, Leads DEF First, Commands
  <2> QED
    BY <1>1, <2>2, <2>3, NothingTyped
<1>3. ASSUME TestStdin(r) \/ LoadStdin(r) \/ WriteFails(r) \/ WriteBreaks(r) PROVE TypedInv(r)'
  <2>1. \E from \in {"test", "load", "write"} :
          \/ Finish(r, from, "error")
          \/ \E to \in {"load", "write", "panic"} : Go(r, from, to) /\ UNCHANGED reply
    BY <1>3 DEF TestStdin, LoadStdin, Panic, WriteFails, WriteBreaks
  <2>2. pc[r] \in {"test", "load", "write"} /\ pc'[r] \in {"load", "write", "panic", "done"}
        /\ (reply'[r] = "error" \/ reply'[r] = reply[r])
    BY <2>1, Leads
  <2> QED
    BY <1>1, <2>2, NothingTyped
<1>4. ASSUME Resize(r) \/ Kill(r) PROVE TypedInv(r)'
  <2>1. Finish(r, "act", "error") \/ (Go(r, "act", "info") /\ UNCHANGED reply)
    BY <1>4 DEF Resize, Kill
  <2>2. pc[r] = "act" /\ pc'[r] \in {"done", "info"} /\ Action(r) \in {"resize", "kill"}
    BY <2>1, Leads DEF PathInv
  <2> QED
    BY <1>1, <2>2, NothingTyped
<1>5. ASSUME Inform(r) PROVE TypedInv(r)'
  <2>1. Finish(r, "info", "ok") \/ (Go(r, "info", "output") /\ UNCHANGED reply)
    BY <1>5 DEF Inform
  <2>2. pc[r] = "info" /\ pc'[r] \in {"done", "output"}
    BY <2>1, Leads
  <2> QED
    BY <1>1, <2>2, NothingTyped
<1>6. ASSUME ReadOutput(r) PROVE TypedInv(r)'
  <2>1. \/ Finish(r, "output", "ok")
        \/ (Go(r, "output", "info") \/ Go(r, "output", "panic")) /\ UNCHANGED reply
    BY <1>6 DEF ReadOutput, Panic
  <2>2. pc[r] = "output" /\ pc'[r] \in {"done", "info", "panic"} /\ Action(r) \in {"poll", "log"}
    BY <2>1, Leads DEF PathInv
  <2> QED
    BY <1>1, <2>2, NothingTyped
<1>7. ASSUME ListSessions(r) \/ DescribeNext(r) \/ ListEnds(r) PROVE TypedInv(r)'
  <2>1. \/ Go(r, "list", "listing")
        \/ pc[r] = "listing" /\ UNCHANGED pc
        \/ Finish(r, "listing", "ok")
    BY <1>7 DEF ListSessions, DescribeNext, ListEnds
  <2>2. pc[r] \in {"list", "listing"} /\ pc'[r] \in {"done", "listing"} /\ Action(r) = "list"
    BY <2>1, Leads DEF PathInv
  <2> QED
    BY <1>1, <2>2, NothingTyped
<1> QED
  BY <1>2, <1>3, <1>4, <1>5, <1>6, <1>7 DEF Handler

\* The key of a write is the next one of its request, and none of another.
LEMMA WriteTypesNext ==
  ASSUME TypeOK, NEW r \in Requests, PathInv(r), KeysInv, Write(r), NEW k \in Requests, PathInv(k)
  PROVE  TypedInv(k)'
<1> DEFINE s == Target(r)
           key == <<r, count[r] + 1>>
<1>1. /\ pc[r] = "write" /\ pc'[r] = (IF count[r] + 1 = KeysOf(r) THEN "info" ELSE "test")
      /\ count' = [count EXCEPT ![r] = count[r] + 1]
      /\ typed' = [typed EXCEPT ![s] = Append(typed[s], key)]
      /\ UNCHANGED <<ask, reply>>
  BY Leads DEF Write, Target
<1>2. /\ Action(r) \in {"write", "send-keys"} /\ count[r] < KeysOf(r) /\ reply[r] = "none"
      /\ count[r] \in Nat /\ KeysOf(r) \in 1..Keys /\ s \in Sessions
  BY <1>1, HandlerAssumption DEF PathInv, TypeOK, KeysOf, Request, Target
<1>3. key \in Key /\ key[1] = r
  BY <1>2, HandlerAssumption DEF Key
<1>4. typed \in [Sessions -> Seq(Key)] /\ typed[s] \in Seq(Key)
      /\ count \in [Requests -> 0..Keys] /\ pc \in [Requests -> Steps]
  BY <1>2 DEF TypeOK, Steps, Key
<1>5. UNCHANGED <<Action(k), Target(k), KeysOf(k), Target(r)>>
  BY <1>1 DEF Action, Target, KeysOf
<1> HIDE DEF s, key
<1>6. \A t \in Sessions : typed'[t] = IF t = s THEN Append(typed[s], key) ELSE typed[t]
  BY <1>1, <1>4
<1>7. TypedInv(k) /\ TypedInv(r)
  BY DEF KeysInv
<1>8. CASE k # r
  <2>1. pc'[k] = pc[k] /\ count'[k] = count[k] /\ reply'[k] = reply[k]
    <3>1. pc' = [pc EXCEPT ![r] = pc'[r]]
      BY <1>4 DEF Write, Go
    <3> QED
      BY <1>1, <1>4, <1>8, <3>1
  <2>2. PlacesOf(k, Append(typed[s], key)) = PlacesOf(k, typed[s])
    BY <1>3, <1>4, <1>8, KeyAppended
  <2>3. InOrder(k, Append(typed[s], key))
    <3>1. InOrder(k, typed[s]) /\ k # key[1]
      BY <1>2, <1>3, <1>7, <1>8 DEF TypedInv
    <3> QED
      BY <1>3, <1>4, <3>1, KeyInOrder
  <2>4. \A t \in Sessions : PlacesOf(k, typed'[t]) = PlacesOf(k, typed[t]) /\ InOrder(k, typed'[t])
    BY <1>6, <1>7, <2>2, <2>3 DEF TypedInv
  <2>5. pc[k] # "idle" => Target(k) \in Sessions
    BY DEF PathInv, Request, Target
  <2> QED
    BY <1>5, <1>7, <2>1, <2>4, <2>5 DEF TypedInv
<1>9. CASE k = r
  <2>1. Cardinality(PlacesOf(r, typed[s])) = count[r] /\ InOrder(r, typed[s])
    BY <1>1, <1>2, <1>7 DEF TypedInv, s
  <2>2. InOrder(r, Append(typed[s], key)) /\ Cardinality(PlacesOf(r, Append(typed[s], key))) = count[r] + 1
    <3>1. key = <<r, Cardinality(PlacesOf(r, typed[s])) + 1>>
      BY <2>1 DEF key
    <3> QED
      BY <1>3, <1>4, <2>1, <3>1, KeyInOrder
  <2>3. count'[r] = count[r] + 1 /\ pc'[r] # "idle"
    BY <1>1, <1>4
  <2>4. \A t \in Sessions : InOrder(r, typed'[t]) /\ (PlacesOf(r, typed'[t]) # {} => t = s)
    BY <1>6, <1>7, <2>2 DEF TypedInv, s
  <2>5. Cardinality(PlacesOf(r, typed'[s])) = count'[r]
    BY <1>2, <1>6, <2>2, <2>3
  <2>6. pc'[r] = "info" \/ reply'[r] = "ok" => count'[r] = KeysOf(r)
    BY <1>1, <1>2, <2>3
  <2> QED
    BY <1>5, <1>9, <2>3, <2>4, <2>5, <2>6 DEF TypedInv, s
<1> QED
  BY <1>8, <1>9

\* The invariant of the keys holds in every reachable state.
LEMMA KeysInvariance == Spec => []KeysInv
<1>1. IInv /\ KeysInv /\ [Next]_vars => KeysInv'
  <2> SUFFICES ASSUME IInv, KeysInv, [Next]_vars, NEW k \in Requests PROVE TypedInv(k)'
    BY DEF KeysInv
  <2>1. TypedInv(k)
    BY DEF KeysInv
  <2>2. CASE UNCHANGED <<typed, pc, ask, count, reply>>
    BY <2>1, <2>2, NothingTyped
  <2>3. CASE \E s \in Sessions : AddSession(s) \/ Executor(s) \/ MarkExited(s)
                                 \/ ChildReads(s) \/ ChildExits(s) \/ AppendOutput(s)
    <3>1. UNCHANGED <<typed, requestVars>>
      BY <2>3 DEF AddSession, Executor, Advance, MarkExited, ChildReads, ChildExits, AppendOutput, aside
    <3> QED
      BY <2>2, <3>1 DEF requestVars
  <2>4. ASSUME NEW r \in Requests, Arrive(r) \/ Handler(r) \/ WriteBreaks(r), ~Write(r)
        PROVE  TypedInv(k)'
    <3>1. CASE k = r
      BY <2>1, <2>4, <3>1, ArriveTypesNothing, HandlerTypesNothing DEF IInv
    <3>2. CASE k # r
      <4>1. /\ pc'[k] = pc[k] /\ ask'[k] = ask[k] /\ count'[k] = count[k] /\ reply'[k] = reply[k]
        BY <2>4, <3>2, FrameStep DEF IInv, Frame
      <4>2. typed' = typed
        BY <2>4 DEF Arrive, Handler, Find, TestStdin, LoadStdin, WriteFails, WriteBreaks, Resize, Kill,
                    Inform, ReadOutput, ListSessions, DescribeNext, ListEnds
      <4> QED
        BY <2>1, <4>1, <4>2, NothingTyped
    <3> QED
      BY <3>1, <3>2
  <2>5. ASSUME NEW r \in Requests, Write(r) PROVE TypedInv(k)'
    BY <2>5, WriteTypesNext DEF IInv
  <2>6. CASE UNCHANGED vars
    BY <2>2, <2>6 DEF vars, requestVars
  <2> QED
    BY <2>3, <2>4, <2>5, <2>6 DEF Next
<1> QED
  BY <1>1, KeysInit, Invariance, PTL DEF Spec

\* Requests may mix in one input as they like: the keys of each are typed in
\* order, into its session only, and all of them if the answer is no error.
THEOREM KeysInOrder == Spec => []KeysAreTypedInOrder
<1>1. IInv /\ KeysInv => KeysAreTypedInOrder
  <2> SUFFICES ASSUME IInv, KeysInv, NEW r \in Requests, NEW s \in Sessions
               PROVE  /\ InOrder(r, typed[s])
                      /\ PlacesOf(r, typed[s]) # {} => s = Target(r)
                      /\ reply[r] = "ok" /\ s = Target(r) /\ Action(r) \in {"write", "send-keys"}
                           => Cardinality(PlacesOf(r, typed[s])) = KeysOf(r)
    BY DEF KeysAreTypedInOrder, Action, Target
  <2>1. TypedInv(r) /\ PathInv(r)
    BY DEF KeysInv, IInv
  <2>2. reply[r] = "ok" => pc[r] # "idle"
    BY <2>1 DEF PathInv
  <2> QED
    BY <2>1, <2>2 DEF TypedInv
<1> QED
  BY <1>1, Invariance, KeysInvariance, PTL
================================================================================
