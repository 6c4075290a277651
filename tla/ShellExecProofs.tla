--------------------------- MODULE ShellExecProofs ---------------------------
(***************************************************************************)
(* Proofs about ShellExec, for every set of commands and any choice of PTY,*)
(* yielding and killable ones.                                             *)
(***************************************************************************)
EXTENDS ShellExec, TLAPS

-----------------------------------------------------------------------------
(* The inductive invariant, one named part per idea.                       *)

\* A waiter exists once the caller has launched the process, which excludes
\* that the caller took the path of a failed spawn.
Launched(c) == pc["waiter"][c] # "idle" => pc["caller"][c] \in {"returned", "done"}

\* Only the timer of a launched PTY command ends a command.
TimerRunsForPty(c) ==
  /\ pc["timer"][c] = "armed" /\ c \in Pty => pc["waiter"][c] # "idle"
  /\ pc["timer"][c] \in {"kill", "mark", "delete", "send", "done"} =>
       c \in Pty /\ pc["waiter"][c] # "idle"

\* Who has reported is past its "send" for good, and a caller that reported
\* never launched.
ReporterIsPast(c) ==
  \A r \in Outcomes(c) :
    /\ r.by \in Enders
    /\ r.by = "caller" =>
         pc["caller"][c] \in {"rejected", "returned", "done"} /\ pc["waiter"][c] = "idle"
    /\ r.by \in {"waiter", "timer"} => pc[r.by][c] = "done"

\* No goroutine reports two outcomes.
OneOutcomeEach(c) == \A r, s \in Outcomes(c) : r.by = s.by => r = s

\* Whoever deletes or sends has marked the session exited.
EndersHaveMarked(c) ==
  \A a \in Enders : pc[a][c] \in {"delete", "send"} => session[c].exited

\* Between Wait's return and the report, the process is reaped.
WaiterHasReaped(c) ==
  pc["waiter"][c] \in {"waited", "mark", "delete", "send", "done"} => proc[c].state = "reaped"

\* The three safety properties, command by command.
ReportedIsExited(c) == Registered(c) /\ Outcomes(c) # {} => session[c].exited

CompletedWasReaped(c) ==
  \A r \in Outcomes(c) :
    r.status = "completed" => proc[c].exit = "zero" /\ proc[c].state = "reaped"

StopFinds(c) ==
  main = "serving" /\ pc["caller"][c] = "done" /\ ~session[c].exited => c \in active

\* The exit record of a piped command, kept from MarkExited on: who marked it
\* is past "mark", so nobody marks it again, and reports what was recorded.
MarkedOnce(c) ==
  c \notin Pty /\ session[c].exited =>
    \/ pc["waiter"][c] \in {"delete", "send", "done"}
    \/ pc["waiter"][c] = "idle" /\ pc["caller"][c] \in {"delete", "send", "returned", "done"}

RecordKept(c) ==
  c \notin Pty =>
    \A a \in Enders : pc[a][c] \in {"delete", "send"} => session[c].code = Verdict(a, c).code

RecordAgrees(c) ==
  c \notin Pty /\ Registered(c) =>
    \A r \in Outcomes(c) : r.status = "completed" <=> session[c].code = "zero"

\* Only a registered session can have a pid, and be killed.
PidIsRegistered(c) ==
  session[c].pid \/ c \in escalation \/ pc["killer"][c] = "checked" => Registered(c)

EndInv(c) ==
  /\ Launched(c)
  /\ TimerRunsForPty(c)
  /\ ReporterIsPast(c)
  /\ OneOutcomeEach(c)
  /\ EndersHaveMarked(c)
  /\ WaiterHasReaped(c)
  /\ ReportedIsExited(c)
  /\ CompletedWasReaped(c)
  /\ StopFinds(c)

RecordInv(c) ==
  /\ MarkedOnce(c)
  /\ RecordKept(c)
  /\ RecordAgrees(c)
  /\ PidIsRegistered(c)

CommandInv(c) == EndInv(c) /\ RecordInv(c)

IInv == TypeOK /\ \A c \in Commands : CommandInv(c)

-----------------------------------------------------------------------------
(* Type correctness.                                                       *)

LEMMA TypeInit == Init => TypeOK
<1> SUFFICES ASSUME Init PROVE TypeOK
  OBVIOUS
<1> DEFINE s == [pid |-> FALSE, stdin |-> FALSE, exited |-> FALSE,
                 backgrounded |-> FALSE, code |-> "nil", signal |-> ""]
           p == [state |-> "none", exit |-> "nil", sig |-> "none"]
<1>1. session = [c \in Commands |-> s] /\ s \in Session
  <2>1. session = [c \in Commands |-> s]
    BY DEF Init
  <2>2. s \in Session
    BY DEF Session
  <2> QED BY <2>1, <2>2
<1>2. proc = [c \in Commands |-> p] /\ p \in Process
  <2>1. proc = [c \in Commands |-> p]
    BY DEF Init
  <2>2. p \in Process
    BY DEF Process
  <2> QED BY <2>1, <2>2
<1>3. pc \in [Actors -> [Commands -> Steps]]
  <2>1. pc = [a \in Actors |-> [c \in Commands |-> "idle"]]
    BY DEF Init
  <2>2. "idle" \in Steps
    BY DEF Steps
  <2> QED BY <2>1, <2>2
<1>4. sent \in [Commands -> SUBSET Result] /\ overdue \subseteq Commands /\ active \subseteq Commands
  /\ escalation \subseteq Commands /\ stray \subseteq Commands \X {"TERM", "KILL"} /\ main \in {"serving", "stopped", "gone"}
  BY DEF Init
<1> HIDE DEF s, p
<1> QED BY <1>1, <1>2, <1>3, <1>4 DEF TypeOK

\* The two updates the typing of a step meets again and again: a goroutine
\* moves, and some flags of a session record are set.
LEMMA PcTyped ==
  ASSUME TypeOK, NEW a \in Actors, NEW c \in Commands, NEW x \in Steps
  PROVE  [pc EXCEPT ![a][c] = x] \in [Actors -> [Commands -> Steps]]
<1>1. pc \in [Actors -> [Commands -> Steps]]
  BY DEF TypeOK
<1>2. [pc[a] EXCEPT ![c] = x] \in [Commands -> Steps]
  BY <1>1
<1> QED
  BY <1>1, <1>2

LEMMA SessionTyped ==
  ASSUME TypeOK, NEW c \in Commands
  PROVE  /\ [session EXCEPT ![c].stdin = TRUE] \in [Commands -> Session]
         /\ [session EXCEPT ![c].backgrounded = TRUE] \in [Commands -> Session]
         /\ [session EXCEPT ![c].pid = TRUE, ![c].stdin = TRUE] \in [Commands -> Session]
<1> DEFINE stdin == [session[c] EXCEPT !.stdin = TRUE]
           back  == [session[c] EXCEPT !.backgrounded = TRUE]
           both  == [session[c] EXCEPT !.pid = TRUE, !.stdin = TRUE]
<1>1. session \in [Commands -> Session]
  BY DEF TypeOK
<1>2. stdin \in Session
  BY <1>1 DEF Session
<1>3. back \in Session
  BY <1>1 DEF Session
<1>4. both \in Session
  BY <1>1 DEF Session
<1>5. [session EXCEPT ![c].stdin = TRUE] = [session EXCEPT ![c] = stdin]
  BY <1>1
<1>6. [session EXCEPT ![c].backgrounded = TRUE] = [session EXCEPT ![c] = back]
  BY <1>1
<1>7. [session EXCEPT ![c].pid = TRUE, ![c].stdin = TRUE] = [session EXCEPT ![c] = both]
  BY <1>1
<1> HIDE DEF stdin, back, both
<1> QED
  BY <1>1, <1>2, <1>3, <1>4, <1>5, <1>6, <1>7

\* Setting backgrounded leaves the other fields of the record alone.
LEMMA BackgroundedOnly ==
  ASSUME TypeOK, NEW c \in Commands, session' = [session EXCEPT ![c].backgrounded = TRUE]
  PROVE  /\ session'[c].exited = session[c].exited
         /\ session'[c].code = session[c].code
         /\ session'[c].pid = session[c].pid
         /\ session'[c].stdin = session[c].stdin
<1>1. session[c] \in Session /\ session \in [Commands -> Session]
  BY DEF TypeOK
<1>2. session'[c] = [session[c] EXCEPT !.backgrounded = TRUE]
  BY <1>1
<1>3. /\ [session[c] EXCEPT !.backgrounded = TRUE].exited = session[c].exited
      /\ [session[c] EXCEPT !.backgrounded = TRUE].code = session[c].code
      /\ [session[c] EXCEPT !.backgrounded = TRUE].pid = session[c].pid
      /\ [session[c] EXCEPT !.backgrounded = TRUE].stdin = session[c].stdin
  BY <1>1 DEF Session
<1> QED
  BY <1>2, <1>3

\* What the signals leave in proc and stray.
LEMMA KillTyped ==
  ASSUME TypeOK, NEW c \in Commands, SafeKill(c)
  PROVE  proc' \in [Commands -> Process]
<1> DEFINE p == [proc[c] EXCEPT !.sig = "KILL"]
<1>1. proc \in [Commands -> Process]
  BY DEF TypeOK
<1>2. p \in Process
  BY <1>1 DEF Process
<1>3. proc' = proc \/ proc' = [proc EXCEPT ![c] = p]
  BY <1>1 DEF SafeKill
<1> HIDE DEF p
<1> QED
  BY <1>1, <1>2, <1>3

LEMMA TerminateTyped ==
  ASSUME TypeOK, NEW S \in SUBSET Commands, Terminate(S)
  PROVE  /\ proc' \in [Commands -> Process]
         /\ stray' \subseteq Commands \X {"TERM", "KILL"}
<1> DEFINE p(c) == [proc[c] EXCEPT !.sig = "TERM"]
<1>1. proc \in [Commands -> Process]
  BY DEF TypeOK
<1>2. ASSUME NEW c \in Commands PROVE p(c) \in Process
  BY <1>1 DEF Process
<1>3. proc' = [c \in Commands |-> IF c \in S /\ proc[c].state = "running" /\ proc[c].sig = "none"
                                  THEN p(c) ELSE proc[c]]
  BY DEF Terminate
<1> HIDE DEF p
<1>4. proc' \in [Commands -> Process]
  BY <1>1, <1>2, <1>3
<1>5. stray' \subseteq Commands \X {"TERM", "KILL"}
  BY DEF Terminate, TypeOK
<1> QED
  BY <1>4, <1>5

LEMMA TypeLaunch == ASSUME NEW c \in Commands, TypeOK, Launch(c) PROVE TypeOK'
<1> DEFINE t == IF c \in Pty THEN "armed" ELSE pc["timer"][c]
           y == IF c \in Yielding THEN "armed" ELSE pc["yielder"][c]
<1>1. pc' = [pc EXCEPT !["caller"][c] = "returned", !["waiter"][c] = "wait",
                       !["timer"][c] = t, !["yielder"][c] = y]
  BY DEF TypeOK, Launch, Actors
<1>2. t \in Steps /\ y \in Steps
  BY DEF TypeOK, Actors, Steps
<1> HIDE DEF t, y
<1>3. pc' \in [Actors -> [Commands -> Steps]]
  BY <1>1, <1>2 DEF TypeOK, Actors, Steps
<1>4. session' \in [Commands -> Session]
  <2>1. session' = [session EXCEPT ![c].pid = TRUE, ![c].stdin = TRUE]
    BY DEF Launch
  <2> QED
    BY <2>1, SessionTyped
<1>5. UNCHANGED <<proc, overdue, active, escalation, sent, stray, main>>
  BY DEF Launch
<1> QED
  BY <1>3, <1>4, <1>5 DEF TypeOK

LEMMA TypeProcessExits == ASSUME NEW c \in Commands, TypeOK, ProcessExits(c) PROVE TypeOK'
<1> PICK code \in {"zero", "nonzero"} :
       proc' = [proc EXCEPT ![c].state = "zombie", ![c].exit = code]
  BY DEF ProcessExits
<1> DEFINE p == [proc[c] EXCEPT !.state = "zombie", !.exit = code]
<1>1. p \in Process
  BY DEF TypeOK, Process
<1>2. proc' = [proc EXCEPT ![c] = p]
  BY DEF TypeOK, Process
<1>3. UNCHANGED <<pc, session, overdue, active, escalation, sent, stray, main>>
  BY DEF ProcessExits
<1> HIDE DEF p
<1>4. proc' \in [Commands -> Process]
  BY <1>1, <1>2 DEF TypeOK
<1> QED
  BY <1>3, <1>4 DEF TypeOK

LEMMA TypeMarkExited ==
  ASSUME NEW c \in Commands, NEW a \in Enders, TypeOK, MarkExited(a, c)
  PROVE  TypeOK'
<1> DEFINE v == Verdict(a, c)
           s == [session[c] EXCEPT !.exited = TRUE, !.stdin = FALSE,
                                   !.code = v.code, !.signal = v.signal]
<1>1. v.code \in {"nil", "zero", "nonzero"} /\ v.signal \in {"", "SIGTERM", "SIGKILL"}
  <2>1. CASE a # "waiter"
    BY <2>1 DEF Verdict, ExitStatus, Enders
  <2>2. CASE a = "waiter"
    BY <2>2 DEF Verdict, ExitStatus, TypeOK, Process
  <2> QED
    BY <2>1, <2>2
<1> HIDE DEF v
<1>2. s \in Session
  BY <1>1 DEF TypeOK, Session
<1>3. session' = [session EXCEPT ![c] = s]
  BY DEF MarkExited, TypeOK, Session, v
<1>4. pc' \in [Actors -> [Commands -> Steps]]
  BY DEF MarkExited, Move, TypeOK, Steps, Actors, Enders
<1>5. UNCHANGED <<proc, overdue, active, escalation, sent, stray, main>>
  BY DEF MarkExited
<1> HIDE DEF s
<1> QED
  BY <1>2, <1>3, <1>4, <1>5 DEF TypeOK

LEMMA TypeStep == TypeOK /\ [Next]_vars => TypeOK'
<1> SUFFICES ASSUME TypeOK, [Next]_vars PROVE TypeOK'
  OBVIOUS
<1>2. ASSUME NEW c \in Commands, OpenPipes(c) PROVE TypeOK'
  <2>1. session' \in [Commands -> Session]
    BY <1>2, SessionTyped DEF OpenPipes
  <2>2. pc' \in [Actors -> [Commands -> Steps]]
    <3>1. pc' = [pc EXCEPT !["caller"][c] = "piped", !["timer"][c] = "armed"]
      BY <1>2 DEF OpenPipes
    <3>2. "caller" \in Actors /\ "timer" \in Actors /\ "piped" \in Steps /\ "armed" \in Steps
      BY DEF Actors, Steps
    <3> QED
      BY <3>1, <3>2 DEF TypeOK
  <2>3. UNCHANGED <<proc, overdue, active, escalation, sent, stray, main>>
    BY <1>2 DEF OpenPipes
  <2> QED
    BY <2>1, <2>2, <2>3 DEF TypeOK
<1>13. ASSUME NEW c \in Commands, MarkBackgrounded(c) PROVE TypeOK'
  <2>1. session' \in [Commands -> Session]
    BY <1>13, SessionTyped DEF MarkBackgrounded
  <2>2. pc' \in [Actors -> [Commands -> Steps]]
    <3>1. pc' = [pc EXCEPT !["yielder"][c] = "yield"]
      BY <1>13 DEF MarkBackgrounded, Move
    <3>2. "yielder" \in Actors /\ "yield" \in Steps
      BY DEF Actors, Steps
    <3> QED
      BY <3>1, <3>2, PcTyped
  <2>3. UNCHANGED <<proc, overdue, active, escalation, sent, stray, main>>
    BY <1>13 DEF MarkBackgrounded
  <2> QED
    BY <2>1, <2>2, <2>3 DEF TypeOK
<1>9. ASSUME NEW c \in Commands, ContextExpires(c) PROVE TypeOK'
  <2>1. pc' = [pc EXCEPT !["timer"][c] = "expired"] /\ "timer" \in Actors /\ "expired" \in Steps
    BY <1>9 DEF ContextExpires, Move, Actors, Steps
  <2>2. pc' \in [Actors -> [Commands -> Steps]]
    BY <2>1, PcTyped
  <2>3. proc' \in [Commands -> Process]
    BY <1>9, KillTyped DEF ContextExpires
  <2>4. UNCHANGED <<session, overdue, active, escalation, sent, stray, main>>
    BY <1>9 DEF ContextExpires
  <2> QED
    BY <2>2, <2>3, <2>4 DEF TypeOK
<1>11. ASSUME NEW c \in Commands, PtyTimerKills(c) PROVE TypeOK'
  <2>1. pc' = [pc EXCEPT !["timer"][c] = "mark"] /\ "timer" \in Actors /\ "mark" \in Steps
    BY <1>11 DEF PtyTimerKills, Move, Actors, Steps
  <2>2. pc' \in [Actors -> [Commands -> Steps]]
    BY <2>1, PcTyped
  <2>3. proc' \in [Commands -> Process]
    BY <1>11, KillTyped DEF PtyTimerKills
  <2>4. UNCHANGED <<session, overdue, active, escalation, sent, stray, main>>
    BY <1>11 DEF PtyTimerKills
  <2> QED
    BY <2>2, <2>3, <2>4 DEF TypeOK
<1>16. ASSUME NEW c \in Commands, KillSession(c) PROVE TypeOK'
  <2>1. pc' = [pc EXCEPT !["killer"][c] = "idle"] /\ "killer" \in Actors /\ "idle" \in Steps
    BY <1>16 DEF KillSession, Move, Actors, Steps
  <2>2. pc' \in [Actors -> [Commands -> Steps]]
    BY <2>1, PcTyped
  <2>3. PICK S \in SUBSET {c} : Terminate(S) /\ (escalation' = escalation \cup S \/ escalation' = escalation)
    BY <1>16 DEF KillSession
  <2>4. proc' \in [Commands -> Process] /\ stray' \subseteq Commands \X {"TERM", "KILL"}
    BY <2>3, TerminateTyped
  <2>5. escalation' \subseteq Commands
    BY <2>3 DEF TypeOK
  <2>6. UNCHANGED <<session, overdue, active, sent, main>>
    BY <1>16 DEF KillSession
  <2> QED
    BY <2>2, <2>4, <2>5, <2>6 DEF TypeOK
<1>22. CASE Stop
  <2>1. PICK S \in SUBSET Commands : Terminate(S) /\ \E m \in SUBSET S : escalation' = escalation \cup (S \ m)
    <3>1. active \subseteq Commands
      BY DEF TypeOK
    <3> QED
      BY <1>22, <3>1 DEF Stop
  <2>2. proc' \in [Commands -> Process] /\ stray' \subseteq Commands \X {"TERM", "KILL"}
    BY <2>1, TerminateTyped
  <2>3. escalation' \subseteq Commands
    BY <2>1 DEF TypeOK
  <2>4. main' = "stopped" /\ active' = {} /\ UNCHANGED <<pc, session, overdue, sent>>
    BY <1>22 DEF Stop
  <2> QED
    BY <2>2, <2>3, <2>4 DEF TypeOK
<1> USE DEF TypeOK, Move
<1>1. ASSUME NEW c \in Commands, HandleExec(c) PROVE TypeOK'
  BY <1>1 DEF HandleExec, Actors, Steps, Result
<1>3. ASSUME NEW c \in Commands, StartProcess(c) PROVE TypeOK'
  BY <1>3 DEF StartProcess, Actors, Steps, Process
<1>4. ASSUME NEW c \in Commands, FailToSpawn(c) PROVE TypeOK'
  BY <1>4 DEF FailToSpawn, Actors, Steps
<1>5. ASSUME NEW c \in Commands, Launch(c) PROVE TypeOK'
  BY <1>5, TypeLaunch
<1>6. ASSUME NEW c \in Commands, Register(c) PROVE TypeOK'
  BY <1>6 DEF Register, Actors, Steps
<1>7. ASSUME NEW c \in Commands, CmdWait(c) PROVE TypeOK'
  BY <1>7 DEF CmdWait, Actors, Steps, Process
<1>8. ASSUME NEW c \in Commands, Decide(c) PROVE TypeOK'
  BY <1>8 DEF Decide, Actors, Steps
<1>10. ASSUME NEW c \in Commands, PtyTimerFires(c) PROVE TypeOK'
  BY <1>10 DEF PtyTimerFires, Actors, Steps
<1>12. ASSUME NEW c \in Commands, YieldFires(c) PROVE TypeOK'
  BY <1>12 DEF YieldFires, Actors, Steps
<1>14. ASSUME NEW c \in Commands, OnYield(c) PROVE TypeOK'
  BY <1>14 DEF OnYield, Actors, Steps, Result
<1>15. ASSUME NEW c \in Commands, KillRequest(c) PROVE TypeOK'
  BY <1>15 DEF KillRequest, Actors, Steps
<1>17. ASSUME NEW c \in Commands, Escalate(c) PROVE TypeOK'
  <2>1. proc' \in [Commands -> Process]
    BY <1>17 DEF Escalate, SafeKill, Process
  <2>2. stray' \subseteq Commands \X {"TERM", "KILL"}
    BY <1>17 DEF Escalate
  <2> QED
    BY <1>17, <2>1, <2>2 DEF Escalate
<1>18. ASSUME NEW c \in Commands, ProcessExits(c) PROVE TypeOK'
  BY <1>18, TypeProcessExits
<1>19. ASSUME NEW c \in Commands, NEW a \in Enders, MarkExited(a, c) PROVE TypeOK'
  BY <1>19, TypeMarkExited
<1>20. ASSUME NEW c \in Commands, NEW a \in Enders, DeleteActive(a, c) PROVE TypeOK'
  BY <1>20 DEF DeleteActive, Enders, Actors, Steps
<1>21. ASSUME NEW c \in Commands, NEW a \in Enders, SendOutcome(a, c) PROVE TypeOK'
  BY <1>21 DEF SendOutcome, Verdict, ExitStatus, Enders, Actors, Steps, Result
<1>23. CASE MainReturns \/ DieWithoutStop
  BY <1>23 DEF MainReturns, DieWithoutStop
<1>24. CASE UNCHANGED vars
  BY <1>24 DEF vars
<1> QED
  BY <1>1, <1>2, <1>3, <1>4, <1>5, <1>6, <1>7, <1>8, <1>9, <1>10, <1>11, <1>12, <1>13, <1>14, <1>15, <1>16, <1>17, <1>18, <1>19, <1>20, <1>21, <1>22, <1>23, <1>24
  DEF Next, Actuator, Goroutines, Caller, Waiter, Yielder, Killing, End

(***************************************************************************)
(* Every variable keeps its type in every behaviour, for all Commands.     *)
(***************************************************************************)
THEOREM TypeCorrect == Spec => []TypeOK
  BY TypeInit, TypeStep, PTL DEF Spec
-----------------------------------------------------------------------------
(* The invariant is inductive.                                             *)

\* What a step must leave alone for the invariant of command k to survive.
Same(k) ==
  /\ \A a \in Enders : pc'[a][k] = pc[a][k]
  /\ pc'["killer"][k] = "checked" => pc["killer"][k] = "checked"
  /\ session'[k].exited = session[k].exited
  /\ session'[k].code = session[k].code
  /\ session'[k].pid = session[k].pid
  /\ session'[k].stdin = session[k].stdin
  /\ proc'[k].state = proc[k].state /\ proc'[k].exit = proc[k].exit
  /\ k \in overdue' <=> k \in overdue
  /\ k \in escalation' => k \in escalation
  /\ Outcomes(k)' = Outcomes(k)
  /\ main' = "serving" => main = "serving" /\ (k \in active => k \in active')

LEMMA Untouched ==
  ASSUME NEW k \in Commands, CommandInv(k), Same(k)
  PROVE  CommandInv(k)'
<1> USE DEF Enders
<1>1. /\ pc'["caller"][k] = pc["caller"][k]
      /\ pc'["waiter"][k] = pc["waiter"][k]
      /\ pc'["timer"][k] = pc["timer"][k]
  BY DEF Same
<1>2. Launched(k)' /\ TimerRunsForPty(k)'
  BY <1>1 DEF CommandInv, EndInv, RecordInv, Launched, TimerRunsForPty
<1>3. ReporterIsPast(k)' /\ OneOutcomeEach(k)'
  BY <1>1 DEF CommandInv, EndInv, RecordInv, Same, ReporterIsPast, OneOutcomeEach
<1>4. EndersHaveMarked(k)' /\ WaiterHasReaped(k)'
  BY <1>1 DEF CommandInv, EndInv, RecordInv, Same, EndersHaveMarked, WaiterHasReaped
<1>5. ReportedIsExited(k)' /\ CompletedWasReaped(k)' /\ StopFinds(k)'
  BY <1>1 DEF CommandInv, EndInv, RecordInv, Same, ReportedIsExited, CompletedWasReaped, StopFinds, Registered
<1>6. MarkedOnce(k)' /\ RecordAgrees(k)' /\ PidIsRegistered(k)'
  BY <1>1 DEF CommandInv, EndInv, RecordInv, Same, MarkedOnce, RecordAgrees, PidIsRegistered, Registered
<1>7. ASSUME NEW a \in Enders PROVE Verdict(a, k)' = Verdict(a, k)
  BY DEF Same, Verdict, ExitStatus
<1>8. RecordKept(k)'
  BY <1>1, <1>7 DEF CommandInv, EndInv, RecordInv, Same, RecordKept
<1> QED
  BY <1>2, <1>3, <1>4, <1>5, <1>6, <1>8 DEF CommandInv, EndInv, RecordInv

\* A step of a goroutine of c leaves every other command alone.
LEMMA Others ==
  ASSUME TypeOK, NEW c \in Commands, NEW k \in Commands \ {c}, Goroutines(c)
  PROVE  Same(k)
<1> USE DEF TypeOK, Same, Move, Enders, Actors, Outcomes
<1>1. CASE HandleExec(c) BY <1>1 DEF HandleExec
<1>2. CASE OpenPipes(c) BY <1>2 DEF OpenPipes
<1>3. CASE StartProcess(c) BY <1>3 DEF StartProcess
<1>4. CASE FailToSpawn(c) BY <1>4 DEF FailToSpawn
<1>5. CASE Launch(c) BY <1>5 DEF Launch
<1>6. CASE Register(c) BY <1>6 DEF Register
<1>7. CASE CmdWait(c) BY <1>7 DEF CmdWait
<1>8. CASE Decide(c) BY <1>8 DEF Decide
<1>9. CASE ContextExpires(c) BY <1>9 DEF ContextExpires, SafeKill
<1>10. CASE PtyTimerFires(c) BY <1>10 DEF PtyTimerFires
<1>11. CASE PtyTimerKills(c) BY <1>11 DEF PtyTimerKills, SafeKill
<1>12. CASE YieldFires(c) BY <1>12 DEF YieldFires
<1>13. CASE MarkBackgrounded(c) BY <1>13 DEF MarkBackgrounded
<1>14. CASE OnYield(c) BY <1>14 DEF OnYield
<1>15. CASE KillRequest(c) BY <1>15 DEF KillRequest
<1>16. CASE KillSession(c) BY <1>16 DEF KillSession, Terminate
<1>17. CASE Escalate(c) BY <1>17 DEF Escalate, SafeKill
<1>18. ASSUME NEW a \in Enders, MarkExited(a, c) PROVE Same(k) BY <1>18 DEF MarkExited
<1>19. ASSUME NEW a \in Enders, DeleteActive(a, c) PROVE Same(k) BY <1>19 DEF DeleteActive
<1>20. ASSUME NEW a \in Enders, SendOutcome(a, c) PROVE Same(k) BY <1>20 DEF SendOutcome
<1> QED
  BY <1>1, <1>2, <1>3, <1>4, <1>5, <1>6, <1>7, <1>8, <1>9, <1>10, <1>11, <1>12, <1>13, <1>14,
     <1>15, <1>16, <1>17, <1>18, <1>19, <1>20
  DEF Goroutines, Caller, Waiter, Yielder, Killing, End

\* A step of a goroutine of c keeps what the invariant of c says of its
\* end ...
LEMMA OwnEnd ==
  ASSUME TypeOK, NEW c \in Commands, EndInv(c), Goroutines(c)
  PROVE  EndInv(c)'
<1> USE DEF TypeOK, Move, Enders, Actors, Outcomes, EndInv, Launched, TimerRunsForPty,
            ReporterIsPast, OneOutcomeEach, EndersHaveMarked, WaiterHasReaped,
            ReportedIsExited, CompletedWasReaped, StopFinds, Registered
<1>1. CASE HandleExec(c) BY <1>1 DEF HandleExec
<1>2. CASE OpenPipes(c) BY <1>2 DEF OpenPipes
<1>3. CASE StartProcess(c) BY <1>3 DEF StartProcess
<1>4. CASE FailToSpawn(c) BY <1>4 DEF FailToSpawn
<1>5. CASE Launch(c) BY <1>5 DEF Launch
<1>6. CASE Register(c) BY <1>6 DEF Register
<1>7. CASE CmdWait(c) BY <1>7 DEF CmdWait
<1>8. CASE Decide(c) BY <1>8 DEF Decide
<1>9. CASE ContextExpires(c) BY <1>9 DEF ContextExpires, SafeKill
<1>10. CASE PtyTimerFires(c) BY <1>10 DEF PtyTimerFires
<1>11. CASE PtyTimerKills(c) BY <1>11 DEF PtyTimerKills, SafeKill
<1>12. CASE YieldFires(c) BY <1>12 DEF YieldFires
<1>13. CASE MarkBackgrounded(c) BY <1>13 DEF MarkBackgrounded
<1>14. CASE OnYield(c) BY <1>14 DEF OnYield
<1>15. CASE KillRequest(c) BY <1>15 DEF KillRequest
<1>16. CASE KillSession(c) BY <1>16 DEF KillSession, Terminate
<1>17. CASE Escalate(c) BY <1>17 DEF Escalate, SafeKill
<1>18. ASSUME NEW a \in Enders, MarkExited(a, c) PROVE EndInv(c)' BY <1>18 DEF MarkExited
<1>19. ASSUME NEW a \in Enders, DeleteActive(a, c) PROVE EndInv(c)' BY <1>19 DEF DeleteActive
<1>20. ASSUME NEW a \in Enders, SendOutcome(a, c) PROVE EndInv(c)' BY <1>20 DEF SendOutcome, Verdict, ExitStatus
<1> QED
  BY <1>1, <1>2, <1>3, <1>4, <1>5, <1>6, <1>7, <1>8, <1>9, <1>10, <1>11, <1>12, <1>13, <1>14,
     <1>15, <1>16, <1>17, <1>18, <1>19, <1>20
  DEF Goroutines, Caller, Waiter, Yielder, Killing, End

\* ... and what it says of its record.
LEMMA OwnRecord ==
  ASSUME TypeOK, NEW c \in Commands, CommandInv(c), Goroutines(c)
  PROVE  RecordInv(c)'
<1> USE DEF TypeOK, Move, Enders, Actors
<1> DEFINE Quiet == session'[c].exited = session[c].exited /\ session'[c].code = session[c].code
                    /\ Outcomes(c)' = Outcomes(c)
<1>1. CASE HandleExec(c)
  <2>1. /\ pc["caller"][c] = "idle" /\ pc["waiter"][c] = "idle"
        /\ c \notin Pty => pc["timer"][c] \notin {"delete", "send", "done"}
    BY <1>1 DEF HandleExec, CommandInv, EndInv, Launched, TimerRunsForPty
  <2>2. UNCHANGED <<session, escalation>> /\ Outcomes(c) = {}
    BY <1>1, <2>1 DEF HandleExec, CommandInv, EndInv, ReporterIsPast, TimerRunsForPty
  <2>3. /\ pc'["caller"][c] \in {"added", "rejected"}
        /\ \A a \in Actors \ {"caller"} : pc'[a][c] = pc[a][c]
        /\ pc'["caller"][c] = "added" => Outcomes(c)' = {}
    BY <1>1, <2>2 DEF HandleExec, Outcomes
  <2>4. (c \in Pty \/ ~session[c].exited) /\ ~session[c].pid /\ c \notin escalation /\ pc["killer"][c] # "checked"
    BY <2>1 DEF CommandInv, RecordInv, MarkedOnce, PidIsRegistered, Registered
  <2> QED
    BY <2>1, <2>2, <2>3, <2>4 DEF RecordInv, MarkedOnce, RecordKept, RecordAgrees, PidIsRegistered, Registered
<1>2. CASE OpenPipes(c)
  <2>1. Quiet /\ session'[c].pid = session[c].pid
    BY <1>2 DEF OpenPipes, Outcomes
  <2> QED
    BY <1>2, <2>1 DEF OpenPipes, RecordInv, CommandInv, EndInv, Launched,
              MarkedOnce, RecordKept, RecordAgrees, PidIsRegistered, Registered
<1>3. CASE StartProcess(c)
  <2>1. Quiet /\ UNCHANGED <<session, overdue, escalation>>
    BY <1>3 DEF StartProcess, Outcomes
  <2>2. pc["waiter"][c] = "idle" /\ pc["caller"][c] \in {"added", "piped"}
    BY <1>3 DEF StartProcess, CommandInv, EndInv, Launched
  <2>3. pc'["caller"][c] = "started" /\ \A b \in Actors \ {"caller"} : pc'[b][c] = pc[b][c]
    BY <1>3 DEF StartProcess
  <2>4. MarkedOnce(c)' /\ RecordKept(c)'
    BY <2>1, <2>2, <2>3 DEF MarkedOnce, RecordKept, CommandInv, EndInv, RecordInv, TimerRunsForPty
  <2>5. RecordAgrees(c)' /\ PidIsRegistered(c)'
    BY <2>1, <2>2, <2>3 DEF RecordAgrees, PidIsRegistered, Registered, CommandInv, RecordInv
  <2> QED
    BY <2>4, <2>5 DEF RecordInv
<1>4. CASE FailToSpawn(c)
  BY <1>4 DEF FailToSpawn, RecordInv, CommandInv, EndInv, Outcomes, Launched,
              MarkedOnce, RecordKept, RecordAgrees, PidIsRegistered, Registered
<1>5. CASE Launch(c)
  <2>1. Quiet
    BY <1>5 DEF Launch, Outcomes
  <2>2. pc'["caller"][c] = "returned" /\ pc'["waiter"][c] = "wait"
    BY <1>5 DEF Launch
  <2>3. c \notin Pty => pc'["timer"][c] = pc["timer"][c]
    BY <1>5 DEF Launch
  <2>4. ~session[c].exited \/ c \in Pty
    BY <1>5 DEF Launch, RecordInv, CommandInv, EndInv, Launched, MarkedOnce
  <2> QED
    BY <1>5, <2>1, <2>2, <2>3, <2>4 DEF Launch, RecordInv, CommandInv, EndInv, TimerRunsForPty,
              MarkedOnce, RecordKept, RecordAgrees, PidIsRegistered, Registered
<1>6. CASE Register(c)
  BY <1>6 DEF Register, RecordInv, CommandInv, EndInv, Outcomes, Launched,
              MarkedOnce, RecordKept, RecordAgrees, PidIsRegistered, Registered, Verdict, ExitStatus
<1>7. CASE CmdWait(c)
  BY <1>7 DEF CmdWait, RecordInv, CommandInv, EndInv, Outcomes, Launched,
              MarkedOnce, RecordKept, RecordAgrees, PidIsRegistered, Registered, Verdict, ExitStatus
<1>8. CASE Decide(c)
  BY <1>8 DEF Decide, RecordInv, CommandInv, EndInv, Outcomes, Launched,
              MarkedOnce, RecordKept, RecordAgrees, PidIsRegistered, Registered, Verdict, ExitStatus
<1>9. CASE ContextExpires(c)
  <2>1. Quiet /\ UNCHANGED <<session, overdue, escalation>> /\ proc'[c].exit = proc[c].exit
    BY <1>9 DEF ContextExpires, SafeKill, Outcomes
  <2>2. pc'["timer"][c] = "expired" /\ \A b \in Actors \ {"timer"} : pc'[b][c] = pc[b][c]
    BY <1>9 DEF ContextExpires
  <2>3. \A b \in Enders : Verdict(b, c)' = Verdict(b, c)
    BY <2>1 DEF Verdict, ExitStatus
  <2>4. MarkedOnce(c)' /\ RecordKept(c)'
    BY <2>1, <2>2, <2>3 DEF MarkedOnce, RecordKept, CommandInv, RecordInv
  <2>5. RecordAgrees(c)' /\ PidIsRegistered(c)'
    BY <2>1, <2>2 DEF RecordAgrees, PidIsRegistered, Registered, CommandInv, RecordInv
  <2> QED
    BY <2>4, <2>5 DEF RecordInv
<1>10. CASE PtyTimerFires(c)
  BY <1>10 DEF PtyTimerFires, RecordInv, CommandInv, EndInv, Outcomes,
              MarkedOnce, RecordKept, RecordAgrees, PidIsRegistered, Registered, Verdict, ExitStatus
<1>11. CASE PtyTimerKills(c)
  BY <1>11 DEF PtyTimerKills, SafeKill, RecordInv, CommandInv, EndInv, Outcomes, TimerRunsForPty,
              MarkedOnce, RecordKept, RecordAgrees, PidIsRegistered, Registered, Verdict, ExitStatus
<1>12. CASE YieldFires(c) \/ MarkBackgrounded(c) \/ OnYield(c)
  <2>1. Outcomes(c)' = Outcomes(c)
    BY <1>12 DEF YieldFires, MarkBackgrounded, OnYield, Outcomes
  <2>2. \A a \in Enders \cup {"killer"} : pc'[a][c] = pc[a][c]
    BY <1>12 DEF YieldFires, MarkBackgrounded, OnYield
  <2>3. /\ session'[c].exited = session[c].exited
        /\ session'[c].code = session[c].code
        /\ session'[c].pid = session[c].pid
        /\ session'[c].stdin = session[c].stdin
    <3>1. CASE MarkBackgrounded(c)
      BY <3>1, BackgroundedOnly DEF MarkBackgrounded
    <3>2. CASE YieldFires(c) \/ OnYield(c)
      BY <3>2 DEF YieldFires, OnYield
    <3> QED
      BY <1>12, <3>1, <3>2
  <2>4. UNCHANGED <<proc, overdue, active, escalation, main>>
    BY <1>12 DEF YieldFires, MarkBackgrounded, OnYield
  <2>5. Same(c)
    BY <2>1, <2>2, <2>3, <2>4 DEF Same
  <2> QED
    BY <2>5, Untouched DEF CommandInv
<1>15. CASE KillRequest(c)
  BY <1>15 DEF KillRequest, RecordInv, CommandInv, EndInv, Outcomes,
              MarkedOnce, RecordKept, RecordAgrees, PidIsRegistered, Registered, Verdict, ExitStatus
<1>16. CASE KillSession(c)
  <2>1. UNCHANGED <<session, overdue>> /\ Outcomes(c)' = Outcomes(c) /\ proc'[c].exit = proc[c].exit
    BY <1>16 DEF KillSession, Terminate, Outcomes
  <2>2. \A b \in Enders : pc'[b][c] = pc[b][c] /\ Verdict(b, c)' = Verdict(b, c)
    BY <1>16, <2>1 DEF KillSession, Verdict, ExitStatus
  <2>3. MarkedOnce(c)' /\ RecordKept(c)' /\ RecordAgrees(c)'
    BY <2>1, <2>2 DEF MarkedOnce, RecordKept, RecordAgrees, Registered, CommandInv, RecordInv
  <2>4. PidIsRegistered(c)'
    BY <1>16, <2>1, <2>2 DEF KillSession, PidIsRegistered, Registered, CommandInv, RecordInv
  <2> QED
    BY <2>3, <2>4 DEF RecordInv
<1>17. CASE Escalate(c)
  <2>1. proc'[c].state = proc[c].state /\ proc'[c].exit = proc[c].exit
    <3>1. proc' = proc \/ SafeKill(c)
      BY <1>17 DEF Escalate
    <3> QED
      BY <3>1 DEF SafeKill, Process
  <2>2. Outcomes(c)' = Outcomes(c) /\ UNCHANGED <<pc, session, overdue, active, main>>
    BY <1>17 DEF Escalate, Outcomes
  <2>3. c \notin escalation'
    BY <1>17 DEF Escalate
  <2>4. Same(c)
    BY <2>1, <2>2, <2>3 DEF Same
  <2> QED
    BY <2>4, Untouched DEF CommandInv
<1>18. ASSUME NEW a \in Enders, MarkExited(a, c) PROVE RecordInv(c)'
  <2>1. session'[c].code = Verdict(a, c).code /\ session'[c].exited /\ session'[c].pid = session[c].pid
    BY <1>18 DEF MarkExited
  <2>2. pc'[a][c] = "delete" /\ \A b \in Enders \ {a} : pc'[b][c] = pc[b][c]
    BY <1>18 DEF MarkExited
  <2>3. UNCHANGED <<proc, overdue, sent>> /\ Outcomes(c)' = Outcomes(c) /\ Registered(c)' = Registered(c)
    BY <1>18 DEF MarkExited, Outcomes, Registered
  <2>4. \A b \in Enders : Verdict(b, c)' = Verdict(b, c)
    BY <2>3 DEF Verdict, ExitStatus
  <2>5. c \notin Pty => a # "timer" /\ (a = "caller" <=> pc["waiter"][c] = "idle") /\ Outcomes(c) = {}
    BY <1>18 DEF MarkExited, CommandInv, EndInv, Launched, TimerRunsForPty, ReporterIsPast
  <2>6. MarkedOnce(c)'
    BY <2>2, <2>5 DEF MarkedOnce
  <2>7. RecordKept(c)'
    BY <1>18, <2>1, <2>2, <2>4, <2>5 DEF MarkExited, RecordKept, CommandInv, EndInv, Launched, TimerRunsForPty
  <2>8. RecordAgrees(c)'
    BY <2>3, <2>5 DEF RecordAgrees
  <2>9. PidIsRegistered(c)'
    BY <1>18, <2>1, <2>3 DEF MarkExited, CommandInv, RecordInv, PidIsRegistered
  <2> QED
    BY <2>6, <2>7, <2>8, <2>9 DEF RecordInv
<1>19. ASSUME NEW a \in Enders, DeleteActive(a, c) PROVE RecordInv(c)'
  <2>1. UNCHANGED <<session, proc, overdue, escalation, sent>>
    BY <1>19 DEF DeleteActive
  <2>2. pc[a][c] = "delete" /\ pc'[a][c] = "send" /\ \A b \in Actors \ {a} : pc'[b][c] = pc[b][c]
    BY <1>19 DEF DeleteActive
  <2>3. Registered(c)' = Registered(c) /\ Outcomes(c)' = Outcomes(c) /\ pc'["killer"][c] = pc["killer"][c]
    BY <2>1, <2>2 DEF Registered, Outcomes
  <2>4. \A b \in Enders : Verdict(b, c)' = Verdict(b, c)
    BY <2>1 DEF Verdict, ExitStatus
  <2>5. MarkedOnce(c)'
    BY <2>1, <2>2 DEF CommandInv, RecordInv, MarkedOnce
  <2>6. RecordKept(c)'
    BY <2>1, <2>2, <2>4 DEF CommandInv, RecordInv, RecordKept
  <2>7. RecordAgrees(c)' /\ PidIsRegistered(c)'
    BY <2>1, <2>3 DEF CommandInv, RecordInv, RecordAgrees, PidIsRegistered
  <2> QED
    BY <2>5, <2>6, <2>7 DEF RecordInv
<1>20. ASSUME NEW a \in Enders, SendOutcome(a, c) PROVE RecordInv(c)'
  <2>1. UNCHANGED <<session, proc, overdue, escalation>> /\ Registered(c)' = Registered(c)
    BY <1>20 DEF SendOutcome, Registered
  <2>2. pc[a][c] = "send" /\ pc'[a][c] = IF a = "caller" THEN "returned" ELSE "done"
    BY <1>20 DEF SendOutcome
  <2>3. \A b \in Enders \ {a} : pc'[b][c] = pc[b][c] \/ (b = "timer" /\ pc'[b][c] = "stopped")
    BY <1>20 DEF SendOutcome
  <2>4. \A b \in Enders : Verdict(b, c)' = Verdict(b, c)
    BY <2>1 DEF Verdict, ExitStatus
  <2>5. MarkedOnce(c)'
    BY <2>1, <2>2, <2>3 DEF MarkedOnce, CommandInv, RecordInv
  <2>6. RecordKept(c)'
    BY <2>1, <2>2, <2>3, <2>4 DEF RecordKept, CommandInv, RecordInv
  <2>7. RecordAgrees(c)'
    <3>1. Outcomes(c)' \subseteq Outcomes(c) \cup {[by |-> a, status |-> Verdict(a, c).status]}
      BY <1>20 DEF SendOutcome, Outcomes
    <3>2. c \notin Pty => session[c].code = Verdict(a, c).code
      BY <2>2 DEF CommandInv, RecordInv, RecordKept
    <3>3. a \in Enders => (Verdict(a, c).status = "completed" <=> Verdict(a, c).code = "zero")
      BY DEF Verdict, ExitStatus
    <3> QED
      BY <2>1, <3>1, <3>2, <3>3 DEF RecordAgrees, CommandInv, RecordInv
  <2>8. PidIsRegistered(c)'
    BY <1>20, <2>1 DEF SendOutcome, CommandInv, RecordInv, PidIsRegistered
  <2> QED
    BY <2>5, <2>6, <2>7, <2>8 DEF RecordInv
<1> QED
  BY <1>1, <1>2, <1>3, <1>4, <1>5, <1>6, <1>7, <1>8, <1>9, <1>10, <1>11, <1>12,
     <1>15, <1>16, <1>17, <1>18, <1>19, <1>20
  DEF Goroutines, Caller, Waiter, Yielder, Killing, End

\* The steps that belong to no command, and a child that ends.
LEMMA Shared ==
  ASSUME TypeOK, NEW k \in Commands, Stop \/ MainReturns \/ DieWithoutStop \/ UNCHANGED vars,
         EndInv(k), RecordInv(k)
  PROVE  CommandInv(k)'
<1>1. CASE Stop
  <2>1. proc'[k].state = proc[k].state /\ proc'[k].exit = proc[k].exit
    BY <1>1 DEF Stop, Terminate, TypeOK
  <2>2. UNCHANGED <<pc, session, overdue, sent>> /\ main' = "stopped"
    BY <1>1 DEF Stop
  <2>3. k \in escalation' => k \in escalation \/ session[k].pid
    BY <1>1 DEF Stop
  <2>4. PidIsRegistered(k)'
    BY <2>2, <2>3 DEF PidIsRegistered, Registered, RecordInv
  <2>5. \A b \in Enders : Verdict(b, k)' = Verdict(b, k)
    BY <2>1, <2>2 DEF Verdict, ExitStatus
  <2>6. EndInv(k)'
    BY <2>1, <2>2 DEF EndInv, Launched, TimerRunsForPty, ReporterIsPast, OneOutcomeEach,
      EndersHaveMarked, WaiterHasReaped, ReportedIsExited, CompletedWasReaped, StopFinds,
      Registered, Outcomes, Enders
  <2>7. MarkedOnce(k)' /\ RecordKept(k)' /\ RecordAgrees(k)'
    BY <2>1, <2>2, <2>5 DEF RecordInv, MarkedOnce, RecordKept, RecordAgrees, Registered, Outcomes
  <2> QED
    BY <2>4, <2>6, <2>7 DEF CommandInv, RecordInv
<1>2. CASE MainReturns \/ DieWithoutStop \/ UNCHANGED vars
  <2>1. Same(k)
    BY <1>2 DEF MainReturns, DieWithoutStop, vars, Same, Outcomes
  <2> QED
    BY <2>1, Untouched DEF CommandInv
<1> QED
  BY <1>1, <1>2

LEMMA Ends ==
  ASSUME TypeOK, NEW c \in Commands, ProcessExits(c), NEW k \in Commands, CommandInv(k)
  PROVE  CommandInv(k)'
<1>1. UNCHANGED <<pc, session, overdue, active, escalation, sent, main>> /\ proc[c].state = "running"
  BY DEF ProcessExits
<1>2. k # c => proc'[k] = proc[k]
  BY DEF ProcessExits, TypeOK
<1>3. CASE k # c
  <2>1. Same(k)
    BY <1>1, <1>2, <1>3 DEF Same, Outcomes
  <2> QED
    BY <2>1, Untouched
<1>4. CASE k = c
  <2>1. pc["waiter"][k] \notin {"waited", "mark", "delete", "send", "done"}
    BY <1>1, <1>4 DEF CommandInv, EndInv, WaiterHasReaped
  <2>2. EndInv(k)'
    BY <1>1, <1>4, <2>1 DEF CommandInv, EndInv, Launched, TimerRunsForPty, ReporterIsPast,
      OneOutcomeEach, EndersHaveMarked, WaiterHasReaped, ReportedIsExited, CompletedWasReaped,
      StopFinds, Registered, Outcomes, Enders
  <2>3. \A b \in Enders \ {"waiter"} : Verdict(b, k)' = Verdict(b, k)
    BY DEF Verdict, ExitStatus, Enders
  <2>4. RecordKept(k)'
    BY <1>1, <2>1, <2>3 DEF CommandInv, RecordInv, RecordKept, Enders
  <2>5. MarkedOnce(k)' /\ RecordAgrees(k)' /\ PidIsRegistered(k)'
    BY <1>1 DEF CommandInv, RecordInv, MarkedOnce, RecordAgrees, PidIsRegistered, Registered, Outcomes
  <2> QED
    BY <2>2, <2>4, <2>5 DEF CommandInv, RecordInv
<1> QED
  BY <1>3, <1>4

LEMMA InvInit == Init => IInv
<1> SUFFICES ASSUME Init PROVE IInv
  OBVIOUS
<1>1. TypeOK
  BY TypeInit
<1>2. ASSUME NEW c \in Commands PROVE CommandInv(c)
  <2>1. /\ \A a \in Actors : pc[a][c] = "idle"
        /\ session[c].pid = FALSE /\ session[c].exited = FALSE
        /\ Outcomes(c) = {} /\ escalation = {}
    BY DEF Init, Outcomes
  <2> QED
    BY <2>1 DEF CommandInv, EndInv, RecordInv, Launched, TimerRunsForPty, ReporterIsPast,
      OneOutcomeEach, EndersHaveMarked, WaiterHasReaped, ReportedIsExited, CompletedWasReaped,
      StopFinds, MarkedOnce, RecordKept, RecordAgrees, PidIsRegistered, Registered, Actors, Enders
<1> QED
  BY <1>1, <1>2 DEF IInv

LEMMA InvStep == IInv /\ [Next]_vars => IInv'
<1> SUFFICES ASSUME IInv, [Next]_vars PROVE IInv'
  OBVIOUS
<1>1. TypeOK'
  BY TypeStep DEF IInv
<1>2. ASSUME NEW c \in Commands, NEW k \in Commands, Goroutines(c) PROVE CommandInv(k)'
  <2>1. CASE k = c
    BY <1>2, <2>1, OwnEnd, OwnRecord DEF IInv, CommandInv
  <2>2. CASE k # c
    BY <1>2, <2>2, Others, Untouched DEF IInv
  <2> QED
    BY <2>1, <2>2
<1>3. ASSUME NEW c \in Commands, NEW k \in Commands, ProcessExits(c) PROVE CommandInv(k)'
  BY <1>3, Ends DEF IInv
<1>4. ASSUME NEW k \in Commands, Stop \/ MainReturns \/ DieWithoutStop \/ UNCHANGED vars
      PROVE  CommandInv(k)'
  BY <1>4, Shared DEF IInv, CommandInv
<1> QED
  BY <1>1, <1>2, <1>3, <1>4 DEF IInv, Next, Actuator

THEOREM Invariance == Spec => []IInv
  BY InvInit, InvStep, PTL DEF Spec

-----------------------------------------------------------------------------
(* What follows from the invariant.                                        *)

(***************************************************************************)
(* Of two different results that end a command, one is the PTY timer's and *)
(* the other the waiter's: a piped command ends once.                      *)
(***************************************************************************)
THEOREM SecondOutcome == Spec => []SecondOutcomeOnlyFromPtyTimer
<1>1. IInv => SecondOutcomeOnlyFromPtyTimer
  <2> SUFFICES ASSUME IInv, NEW c \in Commands, NEW r \in Outcomes(c), NEW s \in Outcomes(c), r # s
               PROVE  c \in Pty /\ {r.by, s.by} = {"timer", "waiter"}
    BY DEF SecondOutcomeOnlyFromPtyTimer
  <2>1. r.by \in Enders /\ s.by \in Enders /\ r.by # s.by
    BY DEF IInv, CommandInv, EndInv, ReporterIsPast, OneOutcomeEach
  <2>2. r.by # "caller" /\ s.by # "caller"
    BY <2>1 DEF IInv, CommandInv, EndInv, ReporterIsPast, TimerRunsForPty, Enders
  <2> QED
    BY <2>1, <2>2 DEF IInv, CommandInv, EndInv, ReporterIsPast, TimerRunsForPty, Enders
<1> QED
  BY <1>1, Invariance, PTL

(***************************************************************************)
(* A poll that follows an outcome finds the session exited.                *)
(***************************************************************************)
THEOREM ReportedExited == Spec => []ReportedSessionsExited
<1>1. IInv => ReportedSessionsExited
  BY DEF IInv, CommandInv, EndInv, ReportedIsExited, ReportedSessionsExited
<1> QED
  BY <1>1, Invariance, PTL

(***************************************************************************)
(* "completed" is told only of a process reaped with exit code 0.          *)
(***************************************************************************)
THEOREM CompletedExitZero == Spec => []CompletedMeansExitZero
<1>1. IInv => CompletedMeansExitZero
  BY DEF IInv, CommandInv, EndInv, CompletedWasReaped, CompletedMeansExitZero, Outcomes
<1> QED
  BY <1>1, Invariance, PTL

(***************************************************************************)
(* Stop finds every command that handleExec has returned from and that has *)
(* not exited.                                                             *)
(***************************************************************************)
THEOREM StopFindsLive == Spec => []StopFindsLiveCommands
<1>1. IInv => StopFindsLiveCommands
  BY DEF IInv, CommandInv, EndInv, StopFinds, StopFindsLiveCommands
<1> QED
  BY <1>1, Invariance, PTL

(***************************************************************************)
(* The outcome and the exit code of a piped command agree.                 *)
(***************************************************************************)
THEOREM RecordAgreement == Spec => []RecordAgreesWithOutcome
<1>1. IInv => RecordAgreesWithOutcome
  BY DEF IInv, CommandInv, RecordInv, RecordAgrees, RecordAgreesWithOutcome
<1> QED
  BY <1>1, Invariance, PTL

(***************************************************************************)
(* Nobody rewrites the exit record of a piped command.                     *)
(***************************************************************************)
THEOREM RecordStable == Spec => ExitRecordStable
<1> DEFINE Stable(c) == session[c].exited =>
             /\ session'[c].exited
             /\ session'[c].code = session[c].code
             /\ session'[c].signal = session[c].signal
<1>1. IInv /\ [Next]_vars => \A c \in Commands \ Pty : Stable(c)
  <2> SUFFICES ASSUME IInv, [Next]_vars, NEW c \in Commands \ Pty, session[c].exited
               PROVE  Stable(c)
    OBVIOUS
  <2>1. \A a \in Enders : ~MarkExited(a, c)
    BY DEF IInv, CommandInv, EndInv, RecordInv, MarkedOnce, Launched, TimerRunsForPty, MarkExited, Move, Enders
  <2>2. ASSUME NEW k \in Commands, Goroutines(k) PROVE Stable(c)
    <3>1. CASE \E a \in Enders : MarkExited(a, k)
      <4>1. c # k
        BY <2>1, <3>1
      <4>2. session'[c] = session[c]
        BY <3>1, <4>1 DEF MarkExited, IInv, TypeOK
      <4> QED
        BY <4>2
    <3>2. CASE OpenPipes(k)
      BY <3>2 DEF OpenPipes, IInv, TypeOK
    <3>3. CASE Launch(k)
      BY <3>3 DEF Launch, IInv, TypeOK
    <3>4. CASE MarkBackgrounded(k)
      <4>1. session' = [session EXCEPT ![k].backgrounded = TRUE]
        BY <3>4 DEF MarkBackgrounded
      <4>2. c # k => session'[c] = session[c]
        BY <4>1 DEF IInv, TypeOK
      <4>3. session[k] \in Session
        BY DEF IInv, TypeOK
      <4>4. c = k => session'[c] = [session[c] EXCEPT !.backgrounded = TRUE]
        BY <4>1 DEF IInv, TypeOK
      <4> QED
        BY <4>2, <4>3, <4>4 DEF Session
    <3>5. CASE UNCHANGED session
      BY <3>5
    <3> QED
      BY <2>2, <3>1, <3>2, <3>3, <3>4, <3>5 DEF Goroutines, Caller, Waiter, Yielder, Killing, End,
        HandleExec, StartProcess, FailToSpawn, Register, CmdWait, Decide, YieldFires, OnYield,
        ContextExpires, PtyTimerFires, PtyTimerKills, KillRequest, KillSession, Escalate,
        DeleteActive, SendOutcome
  <2>3. CASE Stop \/ MainReturns \/ DieWithoutStop \/ (\E k \in Commands : ProcessExits(k)) \/ UNCHANGED vars
    BY <2>3 DEF Stop, MainReturns, DieWithoutStop, ProcessExits, vars
  <2> QED
    BY <2>2, <2>3 DEF Next, Actuator
<1>2. IInv /\ [Next]_vars => [\A c \in Commands \ Pty : Stable(c)]_vars
  BY <1>1
<1> HIDE DEF Stable
<1>3. Spec => [][\A c \in Commands \ Pty : Stable(c)]_vars
  BY <1>2, Invariance, PTL DEF Spec
<1> QED
  BY <1>3 DEF ExitRecordStable, Stable
(***************************************************************************)
(* The delayed SIGKILL goes to a reaped pid only while no outcome of the   *)
(* command was reported.                                                   *)
(***************************************************************************)
THEOREM EscalationSafe == Spec => EscalationSparesReported
<1> DEFINE Spares(c) == <<c, "KILL">> \in stray' \ stray => Outcomes(c) = {}
<1>1. IInv /\ [Next]_vars => \A c \in Commands : Spares(c)
  <2> SUFFICES ASSUME IInv, [Next]_vars, NEW c \in Commands, <<c, "KILL">> \in stray', <<c, "KILL">> \notin stray
               PROVE  Outcomes(c) = {}
    OBVIOUS
  <2>1. ASSUME NEW k \in Commands, Goroutines(k) PROVE Escalate(k)
    BY <2>1 DEF Goroutines, Caller, Waiter, Yielder, Killing, End, HandleExec, OpenPipes,
        StartProcess, FailToSpawn, Launch, Register, CmdWait, Decide, YieldFires, MarkBackgrounded,
        OnYield, ContextExpires, PtyTimerFires, PtyTimerKills, KillRequest, KillSession, Terminate,
        MarkExited, DeleteActive, SendOutcome
  <2>2. PICK k \in Commands : Escalate(k)
    <3>1. ~Stop
      BY DEF Stop, Terminate
    <3>2. ~MainReturns /\ ~DieWithoutStop /\ (\A k \in Commands : ~ProcessExits(k)) /\ ~(UNCHANGED vars)
      BY DEF MainReturns, DieWithoutStop, ProcessExits, vars
    <3> QED
      BY <2>1, <3>1, <3>2 DEF Next, Actuator
  <2>3. k = c /\ ~session[c].exited /\ c \in escalation
    BY <2>2 DEF Escalate
  <2>4. Registered(c)
    BY <2>3 DEF IInv, CommandInv, RecordInv, PidIsRegistered
  <2> QED
    BY <2>3, <2>4 DEF IInv, CommandInv, EndInv, ReportedIsExited
<1>2. IInv /\ [Next]_vars => [\A c \in Commands : Spares(c)]_vars
  BY <1>1
<1> HIDE DEF Spares
<1>3. Spec => [][\A c \in Commands : Spares(c)]_vars
  BY <1>2, Invariance, PTL DEF Spec
<1> QED
  BY <1>3 DEF EscalationSparesReported, Spares

-----------------------------------------------------------------------------
(* ShellExec implements the safety part of CommandOutcome.                 *)

\* A step that neither accepts nor answers a piped command is a stutter.
LEMMA Stutters ==
  ASSUME \A c \in Piped : /\ pc'["caller"][c] = "idle" <=> pc["caller"][c] = "idle"
                          /\ Outcomes(c)' = Outcomes(c),
         main' = "gone" <=> main = "gone"
  PROVE  UNCHANGED Contract!vars
<1>1. {c \in Piped : pc["caller"][c] # "idle"}' = {c \in Piped : pc["caller"][c] # "idle"}
  OBVIOUS
<1>2. [c \in Piped |-> Outcomes(c)]' = [c \in Piped |-> Outcomes(c)]
  OBVIOUS
<1>3. (main = "gone")' = (main = "gone")
  BY Zenon
<1> QED
  BY <1>1, <1>2, <1>3, Zenon DEF Contract!vars

LEMMA ContractInit == Init => Contract!Init
<1> SUFFICES ASSUME Init PROVE Contract!Init
  OBVIOUS
<1>1. {c \in Piped : pc["caller"][c] # "idle"} = {}
  BY DEF Init, Piped, Actors
<1>2. \A c \in Piped : Outcomes(c) = {}
  BY DEF Init, Outcomes, Piped
<1>3. (main = "gone") = FALSE
  BY DEF Init
<1> QED
  BY <1>1, <1>2, <1>3, Zenon DEF Contract!Init

\* A goroutine of c leaves the caller and the outcomes of the others alone.
LEMMA OthersQuiet ==
  ASSUME TypeOK, NEW c \in Commands, NEW k \in Commands \ {c}, Goroutines(c)
  PROVE  pc'["caller"][k] = pc["caller"][k] /\ Outcomes(k)' = Outcomes(k)
<1>1. \A b \in Enders : pc'[b][k] = pc[b][k]
  BY Others DEF Same
<1> QED
  BY Others, <1>1 DEF Same, Enders

\* Only HandleExec and SendOutcome accept and answer.
LEMMA QuietUnlessAnswering ==
  ASSUME TypeOK, NEW c \in Commands, Goroutines(c)
  PROVE  /\ main' = main
         /\ \/ (pc'["caller"][c] = "idle" <=> pc["caller"][c] = "idle") /\ Outcomes(c)' = Outcomes(c)
            \/ HandleExec(c)
            \/ \E a \in Enders : SendOutcome(a, c)
<1>1. CASE HandleExec(c) \/ \E a \in Enders : SendOutcome(a, c)
  BY <1>1 DEF HandleExec, SendOutcome
<1>2. CASE Caller(c)
  BY <1>2 DEF Caller, OpenPipes, StartProcess, FailToSpawn, Launch, Register, Move, Outcomes, TypeOK, Actors
<1>3. CASE Waiter(c) \/ Yielder(c)
  BY <1>3 DEF Waiter, Yielder, CmdWait, Decide, YieldFires, MarkBackgrounded, OnYield, Move, Outcomes, TypeOK, Actors
<1>4. CASE ContextExpires(c) \/ PtyTimerFires(c) \/ PtyTimerKills(c)
  BY <1>4 DEF ContextExpires, PtyTimerFires, PtyTimerKills, Move, Outcomes, TypeOK, Actors
<1>5. CASE KillRequest(c) \/ Killing(c)
  BY <1>5 DEF Killing, KillRequest, KillSession, Escalate, Move, Outcomes, TypeOK, Actors
<1>6. ASSUME NEW a \in Enders, MarkExited(a, c) \/ DeleteActive(a, c)
      PROVE  main' = main /\ (pc'["caller"][c] = "idle" <=> pc["caller"][c] = "idle") /\ Outcomes(c)' = Outcomes(c)
  BY <1>6 DEF MarkExited, DeleteActive, Move, Outcomes, TypeOK, Actors, Enders
<1> QED
  BY <1>1, <1>2, <1>3, <1>4, <1>5, <1>6 DEF Goroutines, End

LEMMA ContractStep == IInv /\ [Next]_vars => [Contract!Next]_(Contract!vars)
<1> SUFFICES ASSUME IInv, [Next]_vars PROVE [Contract!Next]_(Contract!vars)
  OBVIOUS
<1>1. ASSUME NEW c \in Commands, Goroutines(c), main # "gone" PROVE [Contract!Next]_(Contract!vars)
  <2>1. main' = main
    BY <1>1, QuietUnlessAnswering DEF IInv
  <2>2. \A k \in Piped \ {c} : pc'["caller"][k] = pc["caller"][k] /\ Outcomes(k)' = Outcomes(k)
    BY <1>1, OthersQuiet DEF IInv, Piped
  <2>3. CASE c \in Pty
    BY <2>1, <2>2, <2>3, Stutters DEF Piped
  <2>4. CASE c \notin Pty /\ HandleExec(c)
    <3>1. Outcomes(c) = {} /\ pc["caller"][c] = "idle"
      BY <2>4 DEF HandleExec, Move, IInv, CommandInv, EndInv, ReporterIsPast, Launched, TimerRunsForPty, Enders
    <3>2. pc'["caller"][c] # "idle" /\ Outcomes(c)' \in {{}, {Refusal}}
      BY <2>4, <3>1 DEF Refusal, HandleExec, Move, IInv, TypeOK, Actors, Outcomes
    <3>4. Contract!Accept(c) \/ Contract!Refuse(c)
      BY <2>1, <2>2, <2>4, <3>1, <3>2 DEF Contract!Accept, Contract!Refuse, Piped
    <3> QED
      BY <2>4, <3>4 DEF Contract!Next, Piped
  <2>5. ASSUME c \notin Pty, NEW a \in Enders, SendOutcome(a, c) PROVE [Contract!Next]_(Contract!vars)
    <3>1. Outcomes(c) = {} /\ pc["caller"][c] # "idle"
      BY <2>5 DEF SendOutcome, IInv, CommandInv, EndInv, ReporterIsPast, Launched, TimerRunsForPty, Enders
    <3>2. pc'["caller"][c] # "idle" /\ Outcomes(c)' = {[by |-> a, status |-> Verdict(a, c).status]}
      <4>1. Verdict(a, c).status \in {"completed", "failed"}
        BY DEF Verdict, ExitStatus
      <4> QED
        BY <2>5, <3>1, <4>1 DEF SendOutcome, IInv, TypeOK, Actors, Enders, Outcomes
    <3>3. [by |-> a, status |-> Verdict(a, c).status] \in {r \in Result : r.status # "running"}
      BY DEF Verdict, ExitStatus, Result, Enders, Actors
    <3>4. Contract!Answer(c)
      BY <1>1, <2>1, <2>2, <2>5, <3>1, <3>2, <3>3 DEF Contract!Answer, Piped
    <3> QED
      BY <2>5, <3>4 DEF Contract!Next, Piped
  <2>6. CASE c \notin Pty /\ ~HandleExec(c) /\ \A a \in Enders : ~SendOutcome(a, c)
    <3>1. (pc'["caller"][c] = "idle" <=> pc["caller"][c] = "idle") /\ Outcomes(c)' = Outcomes(c)
      BY <1>1, <2>6, QuietUnlessAnswering DEF IInv
    <3> QED
      BY <2>1, <2>2, <3>1, Stutters
  <2> QED
    BY <2>3, <2>4, <2>5, <2>6
<1>2. CASE Stop
  BY <1>2, Stutters DEF Stop, Outcomes
<1>3. CASE MainReturns \/ DieWithoutStop
  <2>1. \A c \in Piped : Outcomes(c)' = Outcomes(c)
    BY <1>3 DEF MainReturns, DieWithoutStop, Outcomes
  <2>2. Contract!GoDown
    BY <1>3, <2>1 DEF MainReturns, DieWithoutStop, Contract!GoDown
  <2> QED
    BY <2>2 DEF Contract!Next
<1>4. CASE UNCHANGED vars \/ \E c \in Commands : ProcessExits(c)
  BY <1>4, Stutters DEF vars, ProcessExits, Outcomes
<1> QED
  BY <1>1, <1>2, <1>3, <1>4 DEF Next, Actuator

(***************************************************************************)
(* Every behaviour of ShellExec is one of CommandOutcome without its       *)
(* fairness: a piped command gets one outcome and keeps it.                *)
(***************************************************************************)
THEOREM ImplementsContractSafely == Spec => Contract!SafeSpec
  BY ContractInit, ContractStep, Invariance, PTL DEF Spec, Contract!SafeSpec

-----------------------------------------------------------------------------
(* ShellExec implements SessionLife: the invariant that this rests on.     *)

\* Where the goroutines stand, how far the child is and what the record
\* says of it agree.
LifeInv(c) ==
  /\ session[c].pid <=> pc["waiter"][c] # "idle"
  /\ proc[c].state = "none" <=> pc["caller"][c] # "started" /\ pc["waiter"][c] = "idle"
  /\ pc["caller"][c] = "started" => proc[c].state \in {"running", "zombie"}
  /\ pc["caller"][c] \in {"piped", "started"} /\ c \notin Pty => session[c].stdin
  /\ session[c].exited =>
       ~session[c].stdin /\ pc["caller"][c] \notin {"idle", "rejected", "added", "piped", "started"}

FullInv == IInv /\ \A c \in Commands : LifeInv(c)

\* Steps that change neither the child nor what the record says of it.
Quiet(c) ==
  \/ Register(c) \/ Decide(c) \/ Yielder(c)
  \/ ContextExpires(c) \/ PtyTimerFires(c) \/ PtyTimerKills(c)
  \/ KillRequest(c) \/ Killing(c)
  \/ \E a \in Enders : DeleteActive(a, c) \/ SendOutcome(a, c)

LEMMA QuietKeeps ==
  ASSUME TypeOK, NEW c \in Commands, Quiet(c)
  PROVE  /\ Fields(c)' = Fields(c)
         /\ proc'[c].state = proc[c].state
         /\ \/ pc'["caller"][c] = pc["caller"][c]
            \/ {pc["caller"][c], pc'["caller"][c]} \subseteq {"delete", "send", "returned", "done"}
         /\ pc'["waiter"][c] = "idle" <=> pc["waiter"][c] = "idle"
<1>1. Fields(c)' = Fields(c)
  <2>1. CASE MarkBackgrounded(c)
    BY <2>1, BackgroundedOnly DEF MarkBackgrounded, Fields
  <2>2. CASE UNCHANGED session
    BY <2>2 DEF Fields
  <2> QED
    BY <2>1, <2>2 DEF Quiet, Register, Decide, Yielder, YieldFires, OnYield, ContextExpires, PtyTimerFires,
        PtyTimerKills, KillRequest, Killing, KillSession, Escalate, DeleteActive, SendOutcome
<1>2. proc'[c].state = proc[c].state
  <2>1. CASE KillSession(c)
    BY <2>1 DEF KillSession, Terminate, TypeOK
  <2>2. CASE ContextExpires(c) \/ PtyTimerKills(c) \/ Escalate(c)
    BY <2>2 DEF ContextExpires, PtyTimerKills, Escalate, SafeKill, TypeOK, Process
  <2>3. CASE UNCHANGED proc
    BY <2>3
  <2> QED
    BY <2>1, <2>2, <2>3 DEF Quiet, Register, Decide, Yielder, YieldFires, MarkBackgrounded, OnYield,
        PtyTimerFires, KillRequest, Killing, DeleteActive, SendOutcome
<1> DEFINE Moves ==
      /\ \/ pc'["caller"][c] = pc["caller"][c]
         \/ {pc["caller"][c], pc'["caller"][c]} \subseteq {"delete", "send", "returned", "done"}
      /\ pc'["waiter"][c] = "idle" <=> pc["waiter"][c] = "idle"
<1>3. Moves
  <2> USE DEF TypeOK, Move, Actors, Enders
  <2>1. CASE Register(c) \/ Decide(c) \/ Yielder(c)
    BY <2>1 DEF Register, Decide, Yielder, YieldFires, MarkBackgrounded, OnYield
  <2>2. CASE ContextExpires(c) \/ PtyTimerFires(c) \/ PtyTimerKills(c) \/ KillRequest(c) \/ Killing(c)
    BY <2>2 DEF ContextExpires, PtyTimerFires, PtyTimerKills, KillRequest, Killing, KillSession, Escalate
  <2>3. ASSUME NEW a \in Enders, DeleteActive(a, c) PROVE Moves
    BY <2>3 DEF DeleteActive
  <2>4. ASSUME NEW a \in Enders, SendOutcome(a, c) PROVE Moves
    BY <2>4 DEF SendOutcome
  <2> HIDE DEF Moves
  <2> QED
    BY <2>1, <2>2, <2>3, <2>4 DEF Quiet
<1> QED
  BY <1>1, <1>2, <1>3

LEMMA LifeOwn ==
  ASSUME TypeOK, NEW c \in Commands, CommandInv(c), LifeInv(c), Goroutines(c)
  PROVE  LifeInv(c)'
<1>w. Launched(c)
  BY DEF CommandInv, EndInv
<1>1. CASE HandleExec(c)
  <2>1. /\ UNCHANGED <<session, proc>> /\ pc["caller"][c] = "idle"
        /\ pc'["caller"][c] \in {"added", "rejected"} /\ pc'["waiter"][c] = pc["waiter"][c]
    BY <1>1 DEF HandleExec, Move, TypeOK, Actors
  <2> QED
    BY <2>1 DEF LifeInv
<1>2. CASE OpenPipes(c)
  <2>1. /\ pc["caller"][c] = "added" /\ pc'["caller"][c] = "piped"
        /\ pc'["waiter"][c] = pc["waiter"][c] /\ UNCHANGED proc
    BY <1>2 DEF OpenPipes, TypeOK, Actors
  <2>2. session'[c].pid = session[c].pid /\ session'[c].exited = session[c].exited /\ session'[c].stdin
    BY <1>2 DEF OpenPipes, TypeOK, Session
  <2> QED
    BY <2>1, <2>2 DEF LifeInv
<1>3. CASE StartProcess(c)
  <2>1. /\ pc["caller"][c] = IF c \in Pty THEN "added" ELSE "piped"
        /\ pc'["caller"][c] = "started" /\ pc'["waiter"][c] = pc["waiter"][c]
        /\ proc'[c].state = "running" /\ UNCHANGED session
    BY <1>3 DEF StartProcess, Move, TypeOK, Actors, Process
  <2>2. c \notin Pty => session[c].stdin
    BY <2>1 DEF LifeInv
  <2> QED
    BY <1>w, <2>1, <2>2 DEF LifeInv, Launched
<1>4. CASE FailToSpawn(c)
  <2>1. /\ pc["caller"][c] \in {"added", "piped"} /\ pc'["caller"][c] = "mark"
        /\ pc'["waiter"][c] = pc["waiter"][c] /\ UNCHANGED <<session, proc>>
    BY <1>4 DEF FailToSpawn, TypeOK, Actors
  <2> QED
    BY <2>1 DEF LifeInv
<1>5. CASE Launch(c)
  <2>1. /\ pc["caller"][c] = "started" /\ pc'["caller"][c] = "returned"
        /\ pc'["waiter"][c] = "wait" /\ UNCHANGED proc
    BY <1>5 DEF Launch, TypeOK, Actors
  <2>2. session'[c].pid /\ session'[c].exited = session[c].exited
    BY <1>5 DEF Launch, TypeOK, Session
  <2> QED
    BY <2>1, <2>2 DEF LifeInv
<1>6. CASE CmdWait(c)
  <2>1. /\ pc["waiter"][c] = "wait" /\ pc'["waiter"][c] = "waited"
        /\ pc'["caller"][c] = pc["caller"][c] /\ proc'[c].state = "reaped" /\ UNCHANGED session
    BY <1>6 DEF CmdWait, Move, TypeOK, Actors, Process
  <2> QED
    BY <1>w, <2>1 DEF LifeInv, Launched
<1>7. ASSUME NEW a \in Enders, MarkExited(a, c) PROVE LifeInv(c)'
  <2>1. /\ pc[a][c] = "mark" /\ pc'[a][c] = "delete" /\ UNCHANGED proc
        /\ \A b \in Enders \ {a} : pc'[b][c] = pc[b][c]
    BY <1>7 DEF MarkExited, Move, TypeOK, Actors, Enders
  <2>2. session'[c].pid = session[c].pid /\ ~session'[c].stdin
    BY <1>7 DEF MarkExited, TypeOK, Session
  <2>3. /\ pc["caller"][c] \notin {"idle", "rejected", "added", "piped", "started"}
        /\ pc'["caller"][c] \in {pc["caller"][c], "delete"}
        /\ pc'["waiter"][c] = "idle" <=> pc["waiter"][c] = "idle"
    BY <1>w, <2>1 DEF Enders, Launched, TimerRunsForPty, CommandInv, EndInv
  <2> QED
    BY <2>1, <2>2, <2>3 DEF LifeInv
<1>8. CASE Quiet(c)
  <2>1. /\ session'[c].pid = session[c].pid /\ session'[c].stdin = session[c].stdin
        /\ session'[c].exited = session[c].exited
    BY <1>8, QuietKeeps DEF Fields
  <2> QED
    BY <1>8, <2>1, QuietKeeps DEF LifeInv
<1> QED
  BY <1>1, <1>2, <1>3, <1>4, <1>5, <1>6, <1>7, <1>8
  DEF Quiet, Goroutines, Caller, Waiter, End

\* The steps that belong to no command, and a child that ends.
LEMMA LifeShared ==
  ASSUME TypeOK, NEW k \in Commands, LifeInv(k),
         Stop \/ MainReturns \/ DieWithoutStop \/ (\E c \in Commands : ProcessExits(c)) \/ UNCHANGED vars
  PROVE  LifeInv(k)'
<1>1. UNCHANGED <<pc, session>>
  BY DEF Stop, MainReturns, DieWithoutStop, ProcessExits, vars
<1>2. \/ proc'[k].state = proc[k].state
      \/ proc[k].state = "running" /\ proc'[k].state = "zombie"
  <2>1. CASE Stop
    BY <2>1 DEF Stop, Terminate, TypeOK
  <2>2. ASSUME NEW c \in Commands, ProcessExits(c)
        PROVE  \/ proc'[k].state = proc[k].state
               \/ proc[k].state = "running" /\ proc'[k].state = "zombie"
    BY <2>2 DEF ProcessExits, TypeOK, Process
  <2> QED
    BY <2>1, <2>2 DEF MainReturns, DieWithoutStop, vars
<1> QED
  BY <1>1, <1>2 DEF LifeInv

LEMMA FullInvariance == Spec => []FullInv
<1>1. Init => FullInv
  <2> SUFFICES ASSUME Init PROVE FullInv
    OBVIOUS
  <2>1. ASSUME NEW c \in Commands PROVE LifeInv(c)
    BY DEF Init, LifeInv, Actors
  <2> QED
    BY <2>1, InvInit DEF FullInv
<1>2. FullInv /\ [Next]_vars => FullInv'
  <2> SUFFICES ASSUME FullInv, [Next]_vars PROVE FullInv'
    OBVIOUS
  <2>1. IInv'
    BY InvStep DEF FullInv
  <2>2. ASSUME NEW c \in Commands, NEW k \in Commands, Goroutines(c) PROVE LifeInv(k)'
    <3>1. CASE k = c
      BY <2>2, <3>1, LifeOwn DEF FullInv, IInv
    <3>2. CASE k # c
      <4>1. Same(k) /\ LifeInv(k)
        BY <2>2, <3>2, Others DEF FullInv, IInv
      <4>2. pc'["caller"][k] = pc["caller"][k] /\ pc'["waiter"][k] = pc["waiter"][k]
        BY <4>1 DEF Same, Enders
      <4> QED
        BY <4>1, <4>2 DEF Same, LifeInv
    <3> QED
      BY <3>1, <3>2
  <2>3. ASSUME NEW k \in Commands,
               Stop \/ MainReturns \/ DieWithoutStop \/ (\E c \in Commands : ProcessExits(c)) \/ UNCHANGED vars
        PROVE  LifeInv(k)'
    BY <2>3, LifeShared DEF FullInv, IInv
  <2> QED
    BY <2>1, <2>2, <2>3 DEF FullInv, Next, Actuator
<1> QED
  BY <1>1, <1>2, PTL DEF Spec

-----------------------------------------------------------------------------
(* ... and its steps.                                                      *)

\* What SessionLife sees of a command.
Seen(c) == <<Stage(c), Fields(c)>>

\* A step that shows on one session only, in its child, in its record or not
\* at all.
LEMMA ChildMoves ==
  ASSUME NEW c \in Commands, \A k \in Commands \ {c} : Stage(k)' = Stage(k),
         NEW from, NEW to, Stage(c) \in from, Stage(c)' = to
  PROVE  Life!Move(c, from, to)
<1> DEFINE child == [k \in Commands |-> Stage(k)]
<1>1. child' = [child EXCEPT ![c] = to]
  OBVIOUS
<1>2. child[c] \in from
  OBVIOUS
<1> QED
  BY <1>1, <1>2 DEF Life!Move

LEMMA RecordsKept ==
  ASSUME \A k \in Commands : Fields(k)' = Fields(k)
  PROVE  [k \in Commands |-> Fields(k)]' = [k \in Commands |-> Fields(k)]
  OBVIOUS

LEMMA ChildrenKept ==
  ASSUME \A k \in Commands : Stage(k)' = Stage(k)
  PROVE  [k \in Commands |-> Stage(k)]' = [k \in Commands |-> Stage(k)]
  OBVIOUS

LEMMA LifeStutters ==
  ASSUME \A k \in Commands : Seen(k)' = Seen(k)
  PROVE  UNCHANGED Life!vars
<1>1. /\ [k \in Commands |-> Fields(k)]' = [k \in Commands |-> Fields(k)]
      /\ [k \in Commands |-> Stage(k)]' = [k \in Commands |-> Stage(k)]
  BY RecordsKept, ChildrenKept DEF Seen
<1> QED
  BY <1>1 DEF Life!vars

\* A quiet step does not show.
LEMMA LifeQuiet ==
  ASSUME TypeOK, NEW c \in Commands, Quiet(c)
  PROVE  Seen(c)' = Seen(c)
<1>1. Stage(c)' = Stage(c)
  BY QuietKeeps DEF Stage, Registered
<1> QED
  BY <1>1, QuietKeeps DEF Seen

\* These show as a step of the child ...
LEMMA LifeOfChild ==
  ASSUME TypeOK, NEW c \in Commands, CommandInv(c), LifeInv(c),
         \A k \in Commands \ {c} : Seen(k)' = Seen(k)
  PROVE  /\ HandleExec(c) => Life!AddSession(c) \/ Seen(c)' = Seen(c)
         /\ StartProcess(c) => Life!Start(c)
         /\ FailToSpawn(c) => Life!StartFails(c)
         /\ CmdWait(c) => Life!Reap(c)
         /\ ProcessExits(c) => Life!ChildExits(c)
<1> DEFINE records == [k \in Commands |-> Fields(k)]
<1>o. \A k \in Commands \ {c} : Stage(k)' = Stage(k) /\ Fields(k)' = Fields(k)
  BY DEF Seen
<1>r. ASSUME UNCHANGED session PROVE records' = records /\ UNCHANGED Pty
  BY <1>r DEF Fields
<1>w. Launched(c) /\ LifeInv(c)
  BY DEF CommandInv, EndInv
<1>1. ASSUME HandleExec(c) PROVE Life!AddSession(c) \/ Seen(c)' = Seen(c)
  <2>1. UNCHANGED session /\ proc[c].state = "none" /\ proc'[c].state = "none" /\ pc["caller"][c] = "idle"
    BY <1>1, <1>w DEF HandleExec, Move, LifeInv, Launched
  <2>2. pc'["caller"][c] \in {"rejected", "added"}
    BY <1>1 DEF HandleExec, Move, TypeOK, Actors
  <2>3. CASE pc'["caller"][c] = "rejected"
    BY <2>1, <2>3 DEF Seen, Stage, Fields, Registered
  <2>4. CASE pc'["caller"][c] = "added"
    <3>1. Stage(c) \in {"absent"} /\ Stage(c)' = "added"
      BY <2>1, <2>4 DEF Stage, Registered
    <3>2. Life!Move(c, {"absent"}, "added")
      BY <1>o, <3>1, ChildMoves
    <3> QED
      BY <1>r, <2>1, <3>2 DEF Life!AddSession
  <2> QED
    BY <2>2, <2>3, <2>4
<1>2. ASSUME StartProcess(c) PROVE Life!Start(c)
  <2> DEFINE from == {IF c \in Pty THEN "added" ELSE "open"}
  <2>1. /\ UNCHANGED session /\ proc'[c].state = "running" /\ proc[c].state = "none"
        /\ pc["caller"][c] = IF c \in Pty THEN "added" ELSE "piped"
    BY <1>2, <1>w DEF StartProcess, Move, TypeOK, Process, LifeInv, Launched
  <2>2. Stage(c) \in from /\ Stage(c)' = "running"
    BY <2>1 DEF Stage, Registered
  <2> HIDE DEF from
  <2>3. Life!Move(c, from, "running")
    BY <1>o, <2>2, ChildMoves
  <2> QED
    BY <1>r, <2>1, <2>3 DEF Life!Start, from
<1>3. ASSUME FailToSpawn(c) PROVE Life!StartFails(c)
  <2>1. /\ UNCHANGED <<session, proc>> /\ pc["caller"][c] \in {"added", "piped"} /\ proc[c].state = "none"
        /\ pc'["caller"][c] = "mark"
    BY <1>3, <1>w DEF FailToSpawn, TypeOK, Actors, LifeInv, Launched
  <2>2. Stage(c) \in {"added", "open"} /\ Stage(c)' = "failed"
    BY <2>1 DEF Stage, Registered
  <2>3. Life!Move(c, {"added", "open"}, "failed")
    BY <1>o, <2>2, ChildMoves
  <2> QED
    BY <1>r, <2>1, <2>3 DEF Life!StartFails
<1>4. ASSUME CmdWait(c) PROVE Life!Reap(c)
  <2>1. UNCHANGED session /\ proc[c].state = "zombie" /\ proc'[c].state = "reaped" /\ pc["waiter"][c] = "wait"
    BY <1>4 DEF CmdWait, Move, TypeOK, Process
  <2>2. Stage(c) \in {"zombie"} /\ Stage(c)' = "reaped"
    BY <2>1 DEF Stage
  <2>3. Life!Move(c, {"zombie"}, "reaped")
    BY <1>o, <2>2, ChildMoves
  <2>4. records[c].pid
    BY <1>w, <2>1 DEF LifeInv, Fields
  <2> QED
    BY <1>r, <2>1, <2>3, <2>4 DEF Life!Reap
<1>5. ASSUME ProcessExits(c) PROVE Life!ChildExits(c)
  <2>1. UNCHANGED session /\ proc[c].state = "running" /\ proc'[c].state = "zombie"
    BY <1>5 DEF ProcessExits, TypeOK, Process
  <2>2. Stage(c) \in {"running"} /\ Stage(c)' = "zombie"
    BY <2>1 DEF Stage
  <2>3. Life!Move(c, {"running"}, "zombie")
    BY <1>o, <2>2, ChildMoves
  <2> QED
    BY <1>r, <2>1, <2>3 DEF Life!ChildExits
<1> QED
  BY <1>1, <1>2, <1>3, <1>4, <1>5

\* Two records that differ in the fields a step sets.
FieldsOf == [pid : BOOLEAN, stdin : BOOLEAN, exited : BOOLEAN]

LEMMA FieldsSet ==
  ASSUME NEW r \in FieldsOf, NEW q \in FieldsOf, NEW t \in BOOLEAN
  PROVE  /\ q.stdin /\ (q.pid <=> r.pid) /\ (q.exited <=> r.exited) => q = [r EXCEPT !.stdin = TRUE]
         /\ q.pid /\ (q.stdin <=> t) /\ (q.exited <=> r.exited) => q = [r EXCEPT !.pid = TRUE, !.stdin = t]
         /\ q.exited /\ ~q.stdin /\ (q.pid <=> r.pid) => q = [r EXCEPT !.exited = TRUE, !.stdin = FALSE]
  BY DEF FieldsOf

\* ... and these as a change of the record.
LEMMA LifeOfRecord ==
  ASSUME TypeOK, NEW c \in Commands, session'[c] \in Session, CommandInv(c), LifeInv(c),
         \A k \in Commands \ {c} : Seen(k)' = Seen(k)
  PROVE  /\ OpenPipes(c) => Life!OpenStdin(c)
         /\ Launch(c) => Life!Publish(c)
         /\ \A a \in Enders : MarkExited(a, c) => Life!MarkExited(c) \/ Seen(c)' = Seen(c)
<1> DEFINE children == [k \in Commands |-> Stage(k)]
           records == [k \in Commands |-> Fields(k)]
<1>o. \A k \in Commands \ {c} : Stage(k)' = Stage(k) /\ Fields(k)' = Fields(k)
  BY DEF Seen
<1>c. Stage(c)' = Stage(c) => children' = children
  BY <1>o
<1>r. records' = [records EXCEPT ![c] = Fields(c)']
  BY <1>o
<1>f. records[c] = Fields(c)
  OBVIOUS
<1>t. Fields(c) \in FieldsOf /\ Fields(c)' \in FieldsOf
  <2>1. session[c] \in Session
    BY DEF TypeOK
  <2> QED
    BY <2>1 DEF Fields, FieldsOf, Session
<1>w. Launched(c)
  BY DEF CommandInv, EndInv
<1>1. ASSUME OpenPipes(c) PROVE Life!OpenStdin(c)
  <2>1. /\ c \notin Pty /\ pc["caller"][c] = "added" /\ pc'["caller"][c] = "piped" /\ UNCHANGED proc
        /\ proc[c].state = "none"
    BY <1>1, <1>w DEF OpenPipes, TypeOK, Actors, LifeInv, Launched
  <2>2. Stage(c) \in {"added"} /\ Stage(c)' = "open"
    BY <2>1 DEF Stage, Registered
  <2>3. Life!Move(c, {"added"}, "open")
    BY <1>o, <2>2, ChildMoves
  <2>4. Fields(c)' = [Fields(c) EXCEPT !.stdin = TRUE]
    <3>1. session'[c].stdin = TRUE
      BY <1>1 DEF OpenPipes, TypeOK, Session
    <3>2. session'[c].pid = session[c].pid /\ session'[c].exited = session[c].exited
      BY <1>1 DEF OpenPipes, TypeOK, Session
    <3>3. Fields(c)'.stdin /\ (Fields(c)'.pid <=> Fields(c).pid) /\ (Fields(c)'.exited <=> Fields(c).exited)
      BY <3>1, <3>2 DEF Fields
    <3> QED
      BY <1>t, <3>3, FieldsSet
  <2>5. records' = [records EXCEPT ![c].stdin = TRUE]
    BY <1>r, <1>f, <2>4
  <2> QED
    BY <2>1, <2>3, <2>5 DEF Life!OpenStdin
<1>2. ASSUME Launch(c) PROVE Life!Publish(c)
  <2>1. /\ pc["caller"][c] = "started" /\ pc'["caller"][c] = "returned" /\ UNCHANGED proc
        /\ proc[c].state \in {"running", "zombie"} /\ ~session[c].pid
    BY <1>2, <1>w DEF Launch, TypeOK, Actors, LifeInv, Launched
  <2>2. Stage(c) \in {"running", "zombie"} /\ Stage(c)' = Stage(c)
    BY <2>1 DEF Stage
  <2>3. session[c].stdin \/ c \in Pty
    BY <2>1 DEF LifeInv
  <2>4. Fields(c)' = [Fields(c) EXCEPT !.pid = TRUE, !.stdin = @ \/ c \in Pty]
    <3>1. session'[c].pid = TRUE /\ session'[c].stdin = TRUE
      BY <1>2 DEF Launch, TypeOK, Session
    <3>2. session'[c].exited = session[c].exited
      BY <1>2 DEF Launch, TypeOK, Session
    <3> DEFINE t == Fields(c).stdin \/ c \in Pty
    <3>3. t
      BY <2>3 DEF Fields
    <3>4. Fields(c)'.pid /\ Fields(c)'.stdin /\ (Fields(c)'.exited <=> Fields(c).exited)
      BY <3>1, <3>2 DEF Fields
    <3> HIDE DEF t
    <3>5. t \in BOOLEAN => Fields(c)' = [Fields(c) EXCEPT !.pid = TRUE, !.stdin = t]
      BY <1>t, <3>3, <3>4, FieldsSet
    <3> QED
      BY <3>5 DEF t
  <2>5. records' = [records EXCEPT ![c].pid = TRUE, ![c].stdin = @ \/ c \in Pty]
    BY <1>r, <1>f, <2>4
  <2>6. children[c] \in {"running", "zombie"} /\ ~records[c].pid
    BY <2>1, <2>2 DEF Fields
  <2> QED
    BY <1>c, <2>2, <2>5, <2>6 DEF Life!Publish
<1>3. ASSUME NEW a \in Enders, MarkExited(a, c) PROVE Life!MarkExited(c) \/ Seen(c)' = Seen(c)
  <2>1. /\ pc[a][c] = "mark" /\ pc'[a][c] = "delete" /\ UNCHANGED proc
        /\ \A b \in Enders \ {a} : pc'[b][c] = pc[b][c]
    BY <1>3 DEF MarkExited, Move, TypeOK, Actors, Enders
  <2>2. /\ pc["caller"][c] = pc'["caller"][c] \/ {pc["caller"][c], pc'["caller"][c]} = {"mark", "delete"}
    BY <2>1 DEF Enders
  <2>3. Stage(c)' = Stage(c)
    BY <2>1, <2>2 DEF Stage, Registered
  <2>4. Fields(c)' = [Fields(c) EXCEPT !.exited = TRUE, !.stdin = FALSE]
    <3>1. session'[c].exited = TRUE /\ session'[c].stdin = FALSE
      BY <1>3 DEF MarkExited, TypeOK, Session
    <3>2. session'[c].pid = session[c].pid
      BY <1>3 DEF MarkExited, TypeOK, Session
    <3>3. Fields(c)'.exited /\ ~Fields(c)'.stdin /\ (Fields(c)'.pid <=> Fields(c).pid)
      BY <3>1, <3>2 DEF Fields
    <3> QED
      BY <1>t, <3>3, FieldsSet
  <2>5. CASE session[c].exited
    <3>1. ~session[c].stdin
      BY <2>5 DEF LifeInv
    <3>2. Fields(c)' = Fields(c)
      BY <2>4, <2>5, <3>1 DEF Fields, TypeOK, Session
    <3> QED
      BY <2>3, <3>2 DEF Seen
  <2>6. CASE ~session[c].exited
    <3>1. Stage(c) \in {"failed", "reaped"} \/ (c \in Pty /\ session[c].pid)
      <4>1. CASE a = "caller"
        BY <1>w, <2>1, <4>1 DEF Stage, Registered, LifeInv, Launched
      <4>2. CASE a = "waiter"
        BY <2>1, <4>2 DEF Stage, CommandInv, EndInv, WaiterHasReaped
      <4>3. CASE a = "timer"
        BY <2>1, <4>3 DEF LifeInv, CommandInv, EndInv, TimerRunsForPty
      <4> QED
        BY <4>1, <4>2, <4>3 DEF Enders
    <3>2. Life!InputClosed(c) \/ (c \in Pty /\ records[c].pid)
      BY <3>1 DEF Life!InputClosed, Fields
    <3>3. ~records[c].exited
      BY <2>6 DEF Fields
    <3>4. records' = [records EXCEPT ![c].exited = TRUE, ![c].stdin = FALSE]
      BY <1>r, <1>f, <2>4
    <3> QED
      BY <1>c, <2>3, <3>2, <3>3, <3>4 DEF Life!MarkExited
  <2> QED
    BY <2>5, <2>6
<1> QED
  BY <1>1, <1>2, <1>3

LEMMA LifeStep == FullInv /\ [Next]_vars => [Life!Next]_(Life!vars)
<1> SUFFICES ASSUME FullInv, [Next]_vars PROVE [Life!Next]_(Life!vars)
  OBVIOUS
<1>t. TypeOK /\ \A c \in Commands : CommandInv(c) /\ LifeInv(c)
  BY DEF FullInv, IInv
<1>s. \A c \in Commands : session'[c] \in Session
  <2>1. TypeOK'
    BY <1>t, TypeStep
  <2> QED
    BY <2>1 DEF TypeOK
<1>1. ASSUME NEW c \in Commands, \A k \in Commands \ {c} : Seen(k)' = Seen(k),
             Goroutines(c) \/ ProcessExits(c)
      PROVE  [Life!Next]_(Life!vars)
  <2>1. CASE Seen(c)' = Seen(c)
    BY <1>1, <2>1, LifeStutters
  <2>2. CASE HandleExec(c) \/ StartProcess(c) \/ FailToSpawn(c) \/ CmdWait(c) \/ ProcessExits(c)
    BY <1>1, <1>t, <2>1, <2>2, LifeOfChild DEF Life!Next, Life!Advance
  <2>3. CASE OpenPipes(c) \/ Launch(c) \/ \E a \in Enders : MarkExited(a, c)
    BY <1>1, <1>t, <1>s, <2>1, <2>3, LifeOfRecord DEF Life!Next, Life!Advance
  <2>4. CASE Quiet(c)
    BY <1>t, <2>1, <2>4, LifeQuiet
  <2> QED
    BY <1>1, <2>2, <2>3, <2>4 DEF Goroutines, Quiet, Caller, Waiter, End
<1>2. ASSUME NEW c \in Commands, Goroutines(c), NEW k \in Commands \ {c} PROVE Seen(k)' = Seen(k)
  <2>1. Same(k)
    BY <1>2, <1>t, Others
  <2>2. pc'["caller"][k] = pc["caller"][k] /\ proc'[k].state = proc[k].state
    BY <2>1 DEF Same, Enders
  <2>3. Stage(k)' = Stage(k)
    BY <2>2 DEF Stage, Registered
  <2>4. Fields(k)' = Fields(k)
    BY <2>1 DEF Same, Fields
  <2> QED
    BY <2>3, <2>4 DEF Seen
<1>3. ASSUME NEW c \in Commands, ProcessExits(c), NEW k \in Commands \ {c} PROVE Seen(k)' = Seen(k)
  BY <1>3, <1>t DEF ProcessExits, TypeOK, Seen, Stage, Fields, Registered
<1>4. ASSUME Stop \/ MainReturns \/ DieWithoutStop \/ UNCHANGED vars, NEW k \in Commands PROVE Seen(k)' = Seen(k)
  <2>1. UNCHANGED <<pc, session>>
    BY <1>4 DEF Stop, MainReturns, DieWithoutStop, vars
  <2>2. proc'[k].state = proc[k].state
    <3>1. CASE Stop
      BY <1>t, <3>1 DEF Stop, Terminate, TypeOK
    <3> QED
      BY <1>4, <3>1 DEF MainReturns, DieWithoutStop, vars
  <2> QED
    BY <2>1, <2>2 DEF Seen, Stage, Fields, Registered
<1> QED
  BY <1>1, <1>2, <1>3, <1>4, LifeStutters DEF Next, Actuator

LEMMA LifeInit == Init => Life!Init
<1> SUFFICES ASSUME Init PROVE Life!Init
  OBVIOUS
<1> DEFINE none == [pid |-> FALSE, stdin |-> FALSE, exited |-> FALSE]
<1>1. \A c \in Commands : Stage(c) = "absent"
  BY DEF Init, Stage, Registered, Actors
<1>2. \A c \in Commands : Fields(c) = none
  BY DEF Init, Fields
<1> HIDE DEF none
<1>3. /\ [c \in Commands |-> Stage(c)] = [c \in Commands |-> "absent"]
      /\ [c \in Commands |-> Fields(c)] = [c \in Commands |-> none]
  BY <1>1, <1>2
<1> QED
  BY <1>3, PayloadAssumption DEF Life!Init, none

(***************************************************************************)
(* Every behaviour of ShellExec is one of SessionLife, for any mix of piped*)
(* and PTY commands, deadlines, kills and stops: what ProcessHandler takes *)
(* for granted of the sessions is what the executors do to them.           *)
(***************************************************************************)
THEOREM ImplementsLife == Spec => ImplementsSessionLife
<1>1. Spec => Life!Spec
  BY LifeInit, LifeStep, FullInvariance, PTL DEF Spec, Life!Spec
<1> QED
  BY <1>1 DEF ImplementsSessionLife
===============================================================================
