--------------------------------- MODULE Desktop ---------------------------------
(***************************************************************************)
(* The desktop application, which runs the actuator as a sidecar: the      *)
(* commands start_actuator, stop_actuator and get_status of the back end   *)
(* (desktop/src-tauri/src/sidecar.rs, main.rs) and the front end that      *)
(* calls them (desktop/src/app.js).                                        *)
(*                                                                         *)
(* A command holds the mutex of the state from start to end, so it is one  *)
(* step. The front end does not wait for it: other clicks and the polls go *)
(* on, and answers are applied in any order.                               *)
(***************************************************************************)
CONSTANTS
  Calls,     \* bound: calls of the front end that are under way
  Sidecars,  \* bound: sidecar processes that run at a time
  None       \* no sidecar

ASSUME DesktopAssumption == None \notin Sidecars

VARIABLES
  status,  \* status in the state of the back end
  held,    \* the sidecar it holds (child), or None
  alive,   \* sidecars that run
  dying,   \* those of them that were killed: kill does not wait for the end
  badge,   \* what the front end shows; it decides which button is enabled
  call,    \* call[k]: the command that k calls, "none" if k is free
  answer,  \* answer[k]: what came back, "none" before
  spared   \* history: a kill failed and left a sidecar alone

backEnd == <<status, held, alive, dying, spared>>
vars == <<backEnd, badge, call, answer>>

Init ==
  /\ status = "Disconnected"
  /\ held = None
  /\ alive = {}
  /\ dying = {}
  /\ badge = "Disconnected"
  /\ call = [k \in Calls |-> "none"]
  /\ answer = [k \in Calls |-> "none"]
  /\ spared = FALSE

-----------------------------------------------------------------------------
(* The front end.                                                          *)

Invoke(k, command) ==
  /\ call[k] = "none"
  /\ call' = [call EXCEPT ![k] = command]
  /\ UNCHANGED answer

\* The button is enabled, and all fields are filled in.
ClickStart(k) ==
  /\ badge \in {"Disconnected", "Error"}
  /\ badge' = "Connecting"
  /\ Invoke(k, "start")
  /\ UNCHANGED backEnd

ClickStop(k) ==
  /\ badge \in {"Connected", "Connecting"}
  /\ Invoke(k, "stop")
  /\ UNCHANGED <<badge, backEnd>>

\* pollStatus, every five seconds.
Poll(k) ==
  /\ Invoke(k, "poll")
  /\ UNCHANGED <<badge, backEnd>>

\* Mutant: a poll does not touch a badge that says Connecting.
ShowUnlessConnecting(k) ==
  IF call[k] = "poll" /\ badge = "Connecting" THEN badge
  ELSE CASE answer[k] = "failed" -> IF call[k] = "start" THEN "Error" ELSE badge
         [] answer[k] = "ok" -> IF call[k] = "start" THEN "Connected" ELSE "Disconnected"
         [] OTHER -> answer[k]

\* setStatus in then and catch: an error of stop is only logged.
Show(k) ==
  CASE answer[k] = "failed" -> IF call[k] = "start" THEN "Error" ELSE badge
    [] answer[k] = "ok" -> IF call[k] = "start" THEN "Connected" ELSE "Disconnected"
    [] OTHER -> answer[k]

Apply(k) ==
  /\ answer[k] # "none"
  /\ badge' = Show(k)
  /\ call' = [call EXCEPT ![k] = "none"]
  /\ answer' = [answer EXCEPT ![k] = "none"]
  /\ UNCHANGED backEnd

-----------------------------------------------------------------------------
(* The back end.                                                           *)

Reply(k, command, result) ==
  /\ call[k] = command /\ answer[k] = "none"
  /\ answer' = [answer EXCEPT ![k] = result]
  /\ UNCHANGED <<badge, call>>

\* Mutant: the sidecar held is dropped.
DropHeld ==
  /\ UNCHANGED dying
  /\ \/ UNCHANGED spared
     \/ held # None /\ spared' = (spared \/ held \in alive)

\* child.take() and kill, and whether kill worked.
TakeAndKill ==
  \/ dying' = dying \cup ({held} \cap alive) /\ UNCHANGED spared
  \/ held # None /\ spared' = (spared \/ held \in alive) /\ UNCHANGED dying

Spawn(k) ==
  \E s \in Sidecars \ alive :
    /\ alive' = alive \cup {s}
    /\ held' = s
    /\ status' = "Connected"
    /\ Reply(k, "start", "ok")

\* Mutant: the old sidecar is only taken once the new one runs.
StartActuatorSpawnsFirst(k) ==
  \/ Spawn(k) /\ TakeAndKill
  \/ /\ status' = "Connecting"
     /\ Reply(k, "start", "failed")
     /\ UNCHANGED <<held, alive, dying, spared>>

\* start_actuator: an error of the kill is ignored, and one of the spawn
\* leaves the status.
StartActuator(k) ==
  /\ TakeAndKill
  /\ \/ Spawn(k)
     \/ /\ held' = None
        /\ status' = "Connecting"
        /\ Reply(k, "start", "failed")
        /\ UNCHANGED alive

\* stop_actuator: an error of the kill ends it, and the sidecar is forgotten.
StopActuator(k) ==
  /\ held' = None
  /\ UNCHANGED alive
  /\ \/ /\ dying' = dying \cup ({held} \cap alive)
        /\ status' = "Disconnected"
        /\ Reply(k, "stop", "ok")
        /\ UNCHANGED spared
     \/ /\ held # None
        /\ spared' = (spared \/ held \in alive)
        /\ Reply(k, "stop", "failed")
        /\ UNCHANGED <<status, dying>>

GetStatus(k) ==
  /\ Reply(k, "poll", status)
  /\ UNCHANGED backEnd

\* The sidecar exits, killed or not; the Terminated event is only logged.
SidecarExits(s) ==
  /\ s \in alive
  /\ alive' = alive \ {s}
  /\ dying' = dying \ {s}
  /\ UNCHANGED <<status, held, badge, call, answer, spared>>

-----------------------------------------------------------------------------
Command(k) == StartActuator(k) \/ StopActuator(k) \/ GetStatus(k)

Click(k) == ClickStart(k) \/ ClickStop(k)

Next ==
  \/ \E k \in Calls : Click(k) \/ Poll(k) \/ Apply(k) \/ Command(k)
  \/ \E s \in Sidecars : SidecarExits(s)

Spec == Init /\ [][Next]_vars

(***************************************************************************)
(* Fairness: the interval timer goes off, commands are run and answered.   *)
(* Nothing is assumed of the user.                                         *)
(***************************************************************************)
LiveSpec ==
  /\ Spec
  /\ \A k \in Calls : WF_vars(Poll(k)) /\ WF_vars(Apply(k)) /\ WF_vars(Command(k))

-----------------------------------------------------------------------------
(* Properties.                                                             *)

TypeOK ==
  /\ status \in {"Disconnected", "Connecting", "Connected"}
  /\ held \in Sidecars \cup {None}
  /\ alive \subseteq Sidecars
  /\ dying \subseteq alive
  /\ badge \in {"Disconnected", "Connecting", "Connected", "Error"}
  /\ call \in [Calls -> {"none", "start", "stop", "poll"}]
  /\ answer \in [Calls -> {"none", "ok", "failed", "Disconnected", "Connecting", "Connected"}]
  /\ spared \in BOOLEAN

(***************************************************************************)
(* Two sidecars with one identity never go on side by side, although a     *)
(* late poll may enable the start button while one runs: unless a kill     *)
(* failed, every sidecar but the one that is held has been killed.         *)
(***************************************************************************)
OnlyTheHeldRuns == spared \/ alive \ dying \subseteq {held}

(***************************************************************************)
(* In whatever order starts and stops come, succeed or fail: a status that *)
(* is not Connected means that what runs has been killed and nothing is    *)
(* held, unless a kill failed. (The converse is not so: Connected stays    *)
(* when the sidecar has exited, and Connecting stays when it could not be  *)
(* spawned.)                                                               *)
(***************************************************************************)
NotConnectedMeansNothingRuns ==
  \/ spared
  \/ status # "Connected" => alive \subseteq dying /\ held = None

\* The user has stopped clicking, and the calls of the clicks are over.
Quiet == \A k \in Calls : call[k] \in {"none", "poll"}

(***************************************************************************)
(* However the answers of polls and clicks overtook each other, the front  *)
(* end shows the status of the back end once the user waits.               *)
(***************************************************************************)
BadgeSettles == <>[]Quiet => <>[](badge = status)
================================================================================
