------------------------------ MODULE ShellExec ------------------------------
(***************************************************************************)
(* The life of the exec commands of one actuator process: handleExec       *)
(* (internal/actuator/actuator.go), ExecuteShell and ExecuteShellPTY       *)
(* (internal/executor), the session record and KillSession                 *)
(* (internal/process/registry.go), and the part of Stop that kills the     *)
(* active commands.                                                        *)
(*                                                                         *)
(* Every command runs up to five goroutines of the actuator, and pc[a][c]  *)
(* is where goroutine a of command c stands:                               *)
(*   caller   the goroutine of handleExec, through ExecuteShell[PTY]       *)
(*   waiter   the goroutine blocked in cmd.Wait                            *)
(*   timer    the deadline: the context of a piped command, the AfterFunc  *)
(*            of a PTY command                                             *)
(*   yielder  the AfterFunc of YieldMs                                     *)
(*   killer   a process "kill" command aimed at the session                *)
(* The caller (when the spawn fails), the waiter and the PTY timer all end *)
(* a command the same way: MarkExited, then OnDone or OnError, which       *)
(* deletes the command from activeCommands and hands a result to send.     *)
(* The steps are the ones another goroutine can observe.                   *)
(***************************************************************************)

CONSTANTS
  Commands,   \* the ids of the exec commands the broker delivers
  Pty,        \* those with payload.Pty set
  Yielding,   \* those with payload.YieldMs > 0
  Killable    \* those a process "kill" command names

ASSUME PayloadAssumption ==
  /\ Pty \subseteq Commands
  /\ Yielding \subseteq Commands
  /\ Killable \subseteq Commands

VARIABLES
  pc,          \* pc[actor][command]
  session,     \* the registry's record of each command's session
  proc,        \* the operating system's view of each command's process
  overdue,     \* commands whose waiter read ctx.Err() = DeadlineExceeded
  active,      \* the keys of activeCommands
  escalation,  \* commands with a KillSession goroutine asleep before SIGKILL
  sent,        \* history: the results handed to send, per command
  stray,       \* history: <<c, signal>> sent to a pid after it was reaped
  main         \* the actuator process: "serving", "stopped" or "gone"

vars == <<pc, session, proc, overdue, active, escalation, sent, stray, main>>

Actors == {"caller", "waiter", "timer", "yielder", "killer"}

Steps == {"idle", "rejected", "added", "piped", "started", "returned", "wait",
          "waited", "armed", "expired", "stopped", "kill", "background",
          "yield", "checked", "mark", "delete", "send", "done"}

Session == [pid: BOOLEAN, stdin: BOOLEAN, exited: BOOLEAN, backgrounded: BOOLEAN,
            code: {"nil", "zero", "nonzero"}, signal: {"", "SIGTERM", "SIGKILL"}]

Process == [state: {"none", "running", "zombie", "reaped"},
            exit: {"nil", "zero", "nonzero"}, sig: {"none", "TERM", "KILL"}]

Result == [by: Actors, status: {"running", "completed", "failed"}]

Init ==
  /\ pc = [a \in Actors |-> [c \in Commands |-> "idle"]]
  /\ session = [c \in Commands |->
                  [pid |-> FALSE, stdin |-> FALSE, exited |-> FALSE,
                   backgrounded |-> FALSE, code |-> "nil", signal |-> ""]]
  /\ proc = [c \in Commands |-> [state |-> "none", exit |-> "nil", sig |-> "none"]]
  /\ overdue = {}
  /\ active = {}
  /\ escalation = {}
  /\ sent = [c \in Commands |-> {}]
  /\ stray = {}
  /\ main = "serving"

Move(a, c, from, to) == pc[a][c] = from /\ pc' = [pc EXCEPT ![a][c] = to]

(***************************************************************************)
(* The registry holds a session from AddSession on; it never forgets one.  *)
(***************************************************************************)
Registered(c) == pc["caller"][c] \notin {"idle", "rejected"}

-----------------------------------------------------------------------------
(* The caller.                                                             *)

\* handleExec: an empty command is refused, any other gets a session.
HandleExec(c) ==
  \/ /\ Move("caller", c, "idle", "rejected")
     /\ sent' = [sent EXCEPT ![c] = @ \cup {[by |-> "caller", status |-> "failed"]}]
     /\ UNCHANGED <<session, proc, overdue, active, escalation, stray, main>>
  \/ /\ Move("caller", c, "idle", "added")
     /\ UNCHANGED <<session, proc, overdue, active, escalation, sent, stray, main>>

\* Mutant: a context without a deadline.
OpenPipesNoDeadline(c) ==
  /\ c \notin Pty
  /\ Move("caller", c, "added", "piped")
  /\ session' = [session EXCEPT ![c].stdin = TRUE]
  /\ UNCHANGED <<proc, overdue, active, escalation, sent, stray, main>>

\* ExecuteShell starts the deadline and opens the three pipes.
OpenPipes(c) ==
  /\ c \notin Pty
  /\ pc["caller"][c] = "added"
  /\ pc' = [pc EXCEPT !["caller"][c] = "piped", !["timer"][c] = "armed"]
  /\ session' = [session EXCEPT ![c].stdin = TRUE]
  /\ UNCHANGED <<proc, overdue, active, escalation, sent, stray, main>>

\* cmd.Start, or pty.Start, which opens the PTY as well.
StartProcess(c) ==
  /\ Move("caller", c, IF c \in Pty THEN "added" ELSE "piped", "started")
  /\ pc["timer"][c] # "expired"
  /\ proc' = [proc EXCEPT ![c].state = "running"]
  /\ UNCHANGED <<session, overdue, active, escalation, sent, stray, main>>

\* A pipe, cmd.Start or pty.Start fails: cancel(), then the error path.
FailToSpawn(c) ==
  /\ pc["caller"][c] \in {"added", "piped"}
  /\ pc' = [pc EXCEPT !["caller"][c] = "mark",
                      !["timer"][c] = IF c \in Pty THEN @ ELSE "stopped"]
  /\ UNCHANGED <<session, proc, overdue, active, escalation, sent, stray, main>>

\* Mutant: a PTY command without its timer.
LaunchNoTimer(c) ==
  /\ pc["caller"][c] = "started"
  /\ pc' = [pc EXCEPT
              !["caller"][c] = "returned",
              !["waiter"][c] = "wait",
              !["yielder"][c] = IF c \in Yielding THEN "armed" ELSE @]
  /\ session' = [session EXCEPT ![c].pid = TRUE, ![c].stdin = TRUE]
  /\ UNCHANGED <<proc, overdue, active, escalation, sent, stray, main>>

\* ExecuteShell[PTY] publishes the pid and starts the other goroutines.
Launch(c) ==
  /\ pc["caller"][c] = "started"
  /\ pc' = [pc EXCEPT
              !["caller"][c] = "returned",
              !["waiter"][c] = "wait",
              !["timer"][c] = IF c \in Pty THEN "armed" ELSE @,
              !["yielder"][c] = IF c \in Yielding THEN "armed" ELSE @]
  /\ session' = [session EXCEPT ![c].pid = TRUE, ![c].stdin = TRUE]
  /\ UNCHANGED <<proc, overdue, active, escalation, sent, stray, main>>

\* handleExec stores the kill function, after ExecuteShell has returned.
Register(c) ==
  /\ Move("caller", c, "returned", "done")
  /\ active' = active \cup {c}
  /\ UNCHANGED <<session, proc, overdue, escalation, sent, stray, main>>

-----------------------------------------------------------------------------
(* How a command ends: shared by the caller, the waiter and the PTY timer. *)

Enders == {"caller", "waiter", "timer"}

\* Mutant: the waiter ignores the exit code.
ExitStatusUnchecked(c) == "completed"

\* The status of a process that ended by itself.
ExitStatus(c) == IF proc[c].exit = "zero" THEN "completed" ELSE "failed"

\* The exit code and signal each of them records, and the status it reports.
Verdict(a, c) ==
  LET bad(sig) == [status |-> "failed", code |-> "nonzero", signal |-> sig]
  IN  CASE a = "caller" -> bad("")
        [] a = "timer"  -> bad("SIGKILL")
        [] a = "waiter" /\ c \in overdue -> bad("SIGTERM")
        [] OTHER -> [status |-> ExitStatus(c), code |-> proc[c].exit, signal |-> ""]

\* Mutant: code and signal in each other's place.
MarkExitedSwapped(a, c) ==
  /\ Move(a, c, "mark", "delete")
  /\ session' = [session EXCEPT ![c].exited = TRUE, ![c].stdin = FALSE,
                                ![c].code = Verdict(a, c).signal,
                                ![c].signal = Verdict(a, c).code]
  /\ UNCHANGED <<proc, overdue, active, escalation, sent, stray, main>>

\* Mutant: the code of the process, also when the deadline ended it.
MarkExitedRawCode(a, c) ==
  /\ Move(a, c, "mark", "delete")
  /\ session' = [session EXCEPT ![c].exited = TRUE, ![c].stdin = FALSE,
                                ![c].code = proc[c].exit,
                                ![c].signal = Verdict(a, c).signal]
  /\ UNCHANGED <<proc, overdue, active, escalation, sent, stray, main>>

\* Mutant: Stdin is not cleared.
MarkExitedKeepsStdin(a, c) ==
  /\ Move(a, c, "mark", "delete")
  /\ session' = [session EXCEPT ![c].exited = TRUE,
                                ![c].code = Verdict(a, c).code,
                                ![c].signal = Verdict(a, c).signal]
  /\ UNCHANGED <<proc, overdue, active, escalation, sent, stray, main>>

MarkExited(a, c) ==
  /\ Move(a, c, "mark", "delete")
  /\ session' = [session EXCEPT ![c].exited = TRUE, ![c].stdin = FALSE,
                                ![c].code = Verdict(a, c).code,
                                ![c].signal = Verdict(a, c).signal]
  /\ UNCHANGED <<proc, overdue, active, escalation, sent, stray, main>>

\* Mutant: a path that reports without MarkExited.
DeleteActiveUnmarked(a, c) ==
  /\ Move(a, c, "mark", "send")
  /\ active' = active \ {c}
  /\ UNCHANGED <<session, proc, overdue, escalation, sent, stray, main>>

DeleteActive(a, c) ==
  /\ Move(a, c, "delete", "send")
  /\ active' = active \ {c}
  /\ UNCHANGED <<session, proc, overdue, escalation, sent, stray, main>>

\* sendResult; the waiter's deferred cancel() then disarms the context.
SendOutcome(a, c) ==
  /\ pc[a][c] = "send"
  /\ pc' = IF a = "waiter" /\ pc["timer"][c] = "armed"
           THEN [pc EXCEPT !["waiter"][c] = "done", !["timer"][c] = "stopped"]
           ELSE [pc EXCEPT ![a][c] = IF a = "caller" THEN "returned" ELSE "done"]
  /\ sent' = [sent EXCEPT ![c] = @ \cup {[by |-> a, status |-> Verdict(a, c).status]}]
  /\ UNCHANGED <<session, proc, overdue, active, escalation, stray, main>>

-----------------------------------------------------------------------------
(* The waiter, the deadline and the yield timer.                           *)

\* cmd.Wait returns once the process has died, and frees its pid.
CmdWait(c) ==
  /\ Move("waiter", c, "wait", "waited")
  /\ proc[c].state = "zombie"
  /\ proc' = [proc EXCEPT ![c].state = "reaped"]
  /\ UNCHANGED <<session, overdue, active, escalation, sent, stray, main>>

\* A piped command asks whether its context expired; a PTY command stops
\* its timer, too late if the timer has fired.
Decide(c) ==
  /\ pc["waiter"][c] = "waited"
  /\ pc' = [pc EXCEPT !["waiter"][c] = "mark",
                      !["timer"][c] = IF c \in Pty /\ @ = "armed" THEN "stopped" ELSE @]
  /\ overdue' = IF pc["timer"][c] = "expired" THEN overdue \cup {c} ELSE overdue
  /\ UNCHANGED <<session, proc, active, escalation, sent, stray, main>>

\* SIGKILL through os.Process, which knows whether the child was reaped.
SafeKill(c) ==
  proc' = IF proc[c].state = "running" THEN [proc EXCEPT ![c].sig = "KILL"] ELSE proc

\* The context of a piped command expires and os/exec kills the process.
ContextExpires(c) ==
  /\ c \notin Pty
  /\ Move("timer", c, "armed", "expired")
  /\ SafeKill(c)
  /\ UNCHANGED <<session, overdue, active, escalation, sent, stray, main>>

\* Mutant: a piped command gets the timer of a PTY command.
PtyTimerFiresForAll(c) ==
  /\ Move("timer", c, "armed", "kill")
  /\ UNCHANGED <<session, proc, overdue, active, escalation, sent, stray, main>>

\* The AfterFunc of a PTY command starts; from here Stop() cannot cancel it.
PtyTimerFires(c) ==
  /\ c \in Pty
  /\ Move("timer", c, "armed", "kill")
  /\ UNCHANGED <<session, proc, overdue, active, escalation, sent, stray, main>>

PtyTimerKills(c) ==
  /\ Move("timer", c, "kill", "mark")
  /\ SafeKill(c)
  /\ UNCHANGED <<session, overdue, active, escalation, sent, stray, main>>

\* The yield timer fires: nothing cancels it, it looks at session.Exited.
YieldFires(c) ==
  /\ Move("yielder", c, "armed", IF session[c].exited THEN "done" ELSE "background")
  /\ UNCHANGED <<session, proc, overdue, active, escalation, sent, stray, main>>

MarkBackgrounded(c) ==
  /\ Move("yielder", c, "background", "yield")
  /\ session' = [session EXCEPT ![c].backgrounded = TRUE]
  /\ UNCHANGED <<proc, overdue, active, escalation, sent, stray, main>>

OnYield(c) ==
  /\ Move("yielder", c, "yield", "done")
  /\ sent' = [sent EXCEPT ![c] = @ \cup {[by |-> "yielder", status |-> "running"]}]
  /\ UNCHANGED <<session, proc, overdue, active, escalation, stray, main>>

-----------------------------------------------------------------------------
(* Killing.                                                                *)

\* What syscall.Kill(pid, SIGTERM) does to the commands in S: a process
\* that has exited is unaffected, a pid that was reaped is not ours any more.
Terminate(S) ==
  /\ proc' = [c \in Commands |->
                IF c \in S /\ proc[c].state = "running" /\ proc[c].sig = "none"
                THEN [proc[c] EXCEPT !.sig = "TERM"] ELSE proc[c]]
  /\ stray' = stray \cup {<<c, "TERM">> : c \in {k \in S : proc[k].state = "reaped"}}

\* killSession finds the session and sees that it has not exited.
KillRequest(c) ==
  /\ c \in Killable /\ Registered(c) /\ ~session[c].exited
  /\ Move("killer", c, "idle", "checked")
  /\ UNCHANGED <<session, proc, overdue, active, escalation, sent, stray, main>>

\* KillSession: SIGTERM now, a goroutine for SIGKILL. The kill of a freed
\* pid fails, unless another process has been given the pid.
KillSession(c) ==
  /\ Move("killer", c, "checked", "idle")
  /\ LET target == IF session[c].pid THEN {c} ELSE {}
     IN  /\ Terminate(target)
         /\ \/ escalation' = escalation \cup target
            \/ proc[c].state = "reaped" /\ UNCHANGED escalation
  /\ UNCHANGED <<session, overdue, active, sent, main>>

\* Mutant: the test of Exited inverted.
EscalateInverted(c) ==
  /\ c \in escalation
  /\ escalation' = escalation \ {c}
  /\ IF ~session[c].exited
     THEN UNCHANGED <<proc, stray>>
     ELSE /\ SafeKill(c)
          /\ stray' = IF proc[c].state = "reaped" THEN stray \cup {<<c, "KILL">>} ELSE stray
  /\ UNCHANGED <<pc, session, overdue, active, sent, main>>

\* Five seconds later, under the session's lock.
Escalate(c) ==
  /\ c \in escalation
  /\ escalation' = escalation \ {c}
  /\ IF session[c].exited
     THEN UNCHANGED <<proc, stray>>
     ELSE /\ SafeKill(c)
          /\ stray' = IF proc[c].state = "reaped" THEN stray \cup {<<c, "KILL">>} ELSE stray
  /\ UNCHANGED <<pc, session, overdue, active, sent, main>>

\* Stop, which holds a.mu while it runs every kill function.
Stop ==
  /\ main = "serving"
  /\ main' = "stopped"
  /\ active' = {}
  /\ LET targets == {c \in active : session[c].pid /\ ~session[c].exited}
     IN  /\ Terminate(targets)
         /\ \E missed \in SUBSET {c \in targets : proc[c].state = "reaped"} :
              escalation' = escalation \cup (targets \ missed)
  /\ UNCHANGED <<pc, session, overdue, sent>>

\* main returns after Stop: every goroutine is gone, the children are not.
MainReturns ==
  /\ main = "stopped"
  /\ main' = "gone"
  /\ UNCHANGED <<pc, session, proc, overdue, active, escalation, sent, stray>>

\* A signal the program does not catch: SIGKILL, or SIGTERM before main
\* reaches signal.Notify, which it does only after Start has returned.
DieWithoutStop ==
  /\ main = "serving"
  /\ main' = "gone"
  /\ UNCHANGED <<pc, session, proc, overdue, active, escalation, sent, stray>>

\* A child ends by itself or by a signal; os/exec reports a signal as -1.
ProcessExits(c) ==
  /\ proc[c].state = "running"
  /\ \E code \in {"zero", "nonzero"} :
       proc' = [proc EXCEPT ![c].state = "zombie", ![c].exit = code]
  /\ UNCHANGED <<pc, session, overdue, active, escalation, sent, stray, main>>

-----------------------------------------------------------------------------
End(a, c) == MarkExited(a, c) \/ DeleteActive(a, c) \/ SendOutcome(a, c)

Caller(c)  == OpenPipes(c) \/ StartProcess(c) \/ FailToSpawn(c) \/ Launch(c) \/ Register(c)
Waiter(c)  == CmdWait(c) \/ Decide(c)
Yielder(c) == YieldFires(c) \/ MarkBackgrounded(c) \/ OnYield(c)
Killing(c) == KillSession(c) \/ Escalate(c)

Goroutines(c) ==
  \/ HandleExec(c) \/ Caller(c) \/ Waiter(c) \/ Yielder(c)
  \/ ContextExpires(c) \/ PtyTimerFires(c) \/ PtyTimerKills(c)
  \/ KillRequest(c) \/ Killing(c)
  \/ \E a \in Enders : End(a, c)

Actuator == Stop \/ MainReturns \/ DieWithoutStop \/ \E c \in Commands : Goroutines(c)

Next ==
  \/ main # "gone" /\ Actuator
  \/ \E c \in Commands : ProcessExits(c)

Spec == Init /\ [][Next]_vars

(***************************************************************************)
(* Fairness. A runnable goroutine runs, an armed timer fires, a process    *)
(* that was sent SIGKILL dies. Nothing is assumed of the broker (delivery, *)
(* kill requests), of the operator (Stop) or of a child left to itself.    *)
(***************************************************************************)
Fairness ==
  /\ \A c \in Commands :
       /\ WF_vars(main # "gone" /\ Caller(c))
       /\ WF_vars(main # "gone" /\ Waiter(c))
       /\ WF_vars(main # "gone" /\ Yielder(c))
       /\ WF_vars(main # "gone" /\ PtyTimerKills(c))
       /\ WF_vars(main # "gone" /\ KillSession(c))
       /\ WF_vars(main # "gone" /\ Escalate(c))
       /\ WF_vars(proc[c].sig = "KILL" /\ ProcessExits(c))
  /\ \A c \in Commands, a \in Enders : WF_vars(main # "gone" /\ End(a, c))
  /\ WF_vars(MainReturns)

Deadlines ==
  \A c \in Commands : WF_vars(main # "gone" /\ (ContextExpires(c) \/ PtyTimerFires(c)))

KillSpec == Spec /\ Fairness

LiveSpec == Spec /\ Fairness /\ Deadlines

-----------------------------------------------------------------------------
(* Properties.                                                             *)

TypeOK ==
  /\ pc \in [Actors -> [Commands -> Steps]]
  /\ session \in [Commands -> Session]
  /\ proc \in [Commands -> Process]
  /\ overdue \subseteq Commands
  /\ active \subseteq Commands
  /\ escalation \subseteq Commands
  /\ sent \in [Commands -> SUBSET Result]
  /\ stray \subseteq Commands \X {"TERM", "KILL"}
  /\ main \in {"serving", "stopped", "gone"}

\* The results that say how a command ended.
Outcomes(c) == {r \in sent[c] : r.status # "running"}

(***************************************************************************)
(* A piped command reports how it ended at most once, whichever of the     *)
(* spawn, the deadline and the exit gets there first. Only a PTY command   *)
(* whose timer fired can report twice: the timer's OnError and the         *)
(* waiter's OnDone (shell_pty.go lets both run).                           *)
(***************************************************************************)
SecondOutcomeOnlyFromPtyTimer ==
  \A c \in Commands : \A r, s \in Outcomes(c) :
    r # s => c \in Pty /\ {r.by, s.by} = {"timer", "waiter"}

(***************************************************************************)
(* A broker that was told how a command ended and then polls the session   *)
(* finds it exited: every path calls MarkExited before OnDone or OnError.  *)
(***************************************************************************)
ReportedSessionsExited ==
  \A c \in Commands :
    Registered(c) /\ Outcomes(c) # {} => session[c].exited

(***************************************************************************)
(* "completed" is only reported for a process that ended with exit code 0  *)
(* and was reaped, whatever kills and deadlines were racing with its end.  *)
(***************************************************************************)
CompletedMeansExitZero ==
  \A c \in Commands : \A r \in sent[c] :
    r.status = "completed" => proc[c].exit = "zero" /\ proc[c].state = "reaped"

(***************************************************************************)
(* For a piped command the outcome the broker received and the exit code a *)
(* later poll or list shows never contradict each other.                   *)
(***************************************************************************)
RecordAgreesWithOutcome ==
  \A c \in Commands \ Pty : \A r \in Outcomes(c) :
    Registered(c) => (r.status = "completed" <=> session[c].code = "zero")

(***************************************************************************)
(* Once handleExec has returned, a command that has not exited is in       *)
(* activeCommands, so that Stop finds it.                                  *)
(***************************************************************************)
StopFindsLiveCommands ==
  main = "serving" =>
    \A c \in Commands :
      pc["caller"][c] = "done" /\ ~session[c].exited => c \in active

(***************************************************************************)
(* The exit code and signal of an exited piped session are never rewritten *)
(* and the session never comes back to life.                               *)
(***************************************************************************)
ExitRecordStable ==
  [][\A c \in Commands \ Pty : session[c].exited =>
       /\ session'[c].exited
       /\ session'[c].code = session[c].code
       /\ session'[c].signal = session[c].signal]_vars

(***************************************************************************)
(* The delayed SIGKILL of KillSession never reaches the pid of a session   *)
(* whose outcome was reported: the goroutine looks at Exited under the     *)
(* lock that MarkExited takes.                                             *)
(***************************************************************************)
EscalationSparesReported ==
  [][\A c \in Commands : <<c, "KILL">> \in stray' \ stray => Outcomes(c) = {}]_vars

(***************************************************************************)
(* Every command the actuator accepts is answered, unless the actuator     *)
(* exits first: the deadline ends the commands that do not end themselves. *)
(***************************************************************************)
EveryCommandAnswered ==
  Deadlines => \A c \in Commands :
    pc["caller"][c] # "idle" ~> (Outcomes(c) # {} \/ main = "gone")

(***************************************************************************)
(* A process that KillSession sent SIGTERM dies even if it ignores SIGTERM *)
(* and its deadline never comes, as long as the actuator lives.            *)
(***************************************************************************)
KilledProcessDies ==
  \A c \in Commands :
    c \in escalation ~> (proc[c].state # "running" \/ main = "gone")

-----------------------------------------------------------------------------
(* What the documentation promises and the code does not keep.             *)

(***************************************************************************)
(* KillSession "sends SIGTERM to a session's process, followed by SIGKILL  *)
(* after 5s": the process dies, also when the actuator is being stopped.  *)
(***************************************************************************)
SigtermIsFollowedBySigkill ==
  \A c \in Commands :
    main = "stopped" /\ c \in escalation ~> proc[c].state # "running"

-----------------------------------------------------------------------------
(* The abstract CommandOutcome, which the piped commands implement; a PTY  *)
(* command may report two outcomes.                                        *)

Piped == Commands \ Pty

Refusal == [by |-> "caller", status |-> "failed"]

Contract == INSTANCE CommandOutcome WITH
  Commands <- Piped,
  Outcome  <- {r \in Result : r.status # "running"},
  accepted <- {c \in Piped : pc["caller"][c] # "idle"},
  reported <- [c \in Piped |-> Outcomes(c)],
  down     <- main = "gone"

(***************************************************************************)
(* ExecuteShell implements the contract of CommandOutcome for piped        *)
(* commands: one final outcome each, and it comes.                         *)
(***************************************************************************)
ImplementsContract == Contract!Spec

-----------------------------------------------------------------------------
(* The abstract SessionLife, which commands of both kinds implement.       *)

\* How far the child of c is. A caller past "piped" without a process has
\* failed to start one.
Stage(c) ==
  IF proc[c].state # "none" THEN proc[c].state
  ELSE CASE ~Registered(c)            -> "absent"
         [] pc["caller"][c] = "added" -> "added"
         [] pc["caller"][c] = "piped" -> "open"
         [] OTHER                     -> "failed"

Fields(c) == [pid |-> session[c].pid, stdin |-> session[c].stdin, exited |-> session[c].exited]

Life == INSTANCE SessionLife WITH
  Sessions  <- Commands,
  terminals <- Pty,
  child     <- [c \in Commands |-> Stage(c)],
  record    <- [c \in Commands |-> Fields(c)]

(***************************************************************************)
(* The goroutines of a command, whichever of them ends it, move its session*)
(* only as SessionLife says, on which ProcessHandler relies: the exit is   *)
(* recorded once and not before Wait has returned or the start has failed, *)
(* except by the timer of a PTY; Stdin is cleared with it and never comes  *)
(* back; Pid is stored before the process is reaped.                       *)
(***************************************************************************)
ImplementsSessionLife == Life!Spec
=============================================================================
