------------------------------ MODULE DesktopProofs ------------------------------
(***************************************************************************)
(* Proofs about Desktop, for any number of calls and sidecars.             *)
(***************************************************************************)
EXTENDS Desktop, TLAPS

\* The two safety properties are inductive together.
IInv == TypeOK /\ OnlyTheHeldRuns /\ NotConnectedMeansNothingRuns

\* The initial states satisfy the invariant.
LEMMA InvInit == Init => IInv
  BY DEF Init, IInv, TypeOK, OnlyTheHeldRuns, NotConnectedMeansNothingRuns

-----------------------------------------------------------------------------
\* The types of the front end are preserved, whatever a command answers.
LEMMA ReplyTypes ==
  ASSUME TypeOK, NEW k \in Calls, NEW command,
         NEW result \in {"ok", "failed", "Disconnected", "Connecting", "Connected"},
         Reply(k, command, result)
  PROVE  /\ badge' \in {"Disconnected", "Connecting", "Connected", "Error"}
         /\ call' \in [Calls -> {"none", "start", "stop", "poll"}]
         /\ answer' \in [Calls -> {"none", "ok", "failed", "Disconnected", "Connecting", "Connected"}]
  BY DEF Reply, TypeOK

\* So are they by the front end itself, which does not touch the back end.
LEMMA FrontStep ==
  ASSUME IInv, NEW k \in Calls, Click(k) \/ Poll(k) \/ Apply(k)
  PROVE  IInv'
<1>1. UNCHANGED <<status, held, alive, dying, spared>>
  BY DEF Click, ClickStart, ClickStop, Poll, Apply, backEnd
<1>2. /\ badge' \in {"Disconnected", "Connecting", "Connected", "Error"}
      /\ call' \in [Calls -> {"none", "start", "stop", "poll"}]
      /\ answer' \in [Calls -> {"none", "ok", "failed", "Disconnected", "Connecting", "Connected"}]
  <2>1. CASE Click(k) \/ Poll(k)
    BY <2>1 DEF Click, ClickStart, ClickStop, Poll, Invoke, IInv, TypeOK
  <2>2. CASE Apply(k)
    <3>1. answer[k] \in {"ok", "failed", "Disconnected", "Connecting", "Connected"}
      BY <2>2 DEF Apply, IInv, TypeOK
    <3>2. badge' = Show(k)
      BY <2>2 DEF Apply
    <3>3. badge' \in {"Disconnected", "Connecting", "Connected", "Error"}
      BY <3>1, <3>2 DEF Show, IInv, TypeOK
    <3>4. /\ call' \in [Calls -> {"none", "start", "stop", "poll"}]
          /\ answer' \in [Calls -> {"none", "ok", "failed", "Disconnected", "Connecting", "Connected"}]
      BY <2>2 DEF Apply, IInv, TypeOK
    <3> QED
      BY <3>3, <3>4
  <2> QED
    BY <2>1, <2>2
<1> QED
  BY <1>1, <1>2 DEF IInv, TypeOK, OnlyTheHeldRuns, NotConnectedMeansNothingRuns

\* After take and kill all that runs is killed, unless a kill failed.
LEMMA NothingRemains ==
  ASSUME IInv, TakeAndKill
  PROVE  /\ dying' \subseteq alive
         /\ spared' \in BOOLEAN
         /\ spared' \/ alive \subseteq dying'
<1>1. dying \subseteq alive /\ spared \in BOOLEAN /\ (spared \/ alive \ dying \subseteq {held})
  BY DEF IInv, TypeOK, OnlyTheHeldRuns
<1>2. CASE dying' = dying \cup ({held} \cap alive) /\ UNCHANGED spared
  BY <1>1, <1>2
<1>3. CASE spared' = (spared \/ held \in alive) /\ UNCHANGED dying
  <2>1. spared' \in BOOLEAN /\ (spared' <=> spared \/ held \in alive)
    BY <1>1, <1>3, Zenon
  <2> QED
    BY <1>1, <1>3, <2>1
<1> QED
  BY <1>2, <1>3 DEF TakeAndKill

\* A start takes the sidecar, kills it, and holds the new one or none.
LEMMA StartStep ==
  ASSUME IInv, NEW k \in Calls, StartActuator(k)
  PROVE  IInv'
<1>1. dying' \subseteq alive /\ spared' \in BOOLEAN /\ (spared' \/ alive \subseteq dying')
  BY NothingRemains DEF StartActuator
<1>2. \/ \E s \in Sidecars : alive' = alive \cup {s} /\ held' = s /\ status' = "Connected"
      \/ alive' = alive /\ held' = None /\ status' = "Connecting"
  BY DEF StartActuator, Spawn
<1>3. Reply(k, "start", "ok") \/ Reply(k, "start", "failed")
  BY DEF StartActuator, Spawn
<1>4. TypeOK'
  BY <1>1, <1>2, <1>3, ReplyTypes DEF IInv, TypeOK
<1>5. OnlyTheHeldRuns' /\ NotConnectedMeansNothingRuns'
  BY <1>1, <1>2 DEF OnlyTheHeldRuns, NotConnectedMeansNothingRuns
<1> QED
  BY <1>4, <1>5 DEF IInv

\* A stop kills all that runs, or spares what it could not kill.
LEMMA StopStep ==
  ASSUME IInv, NEW k \in Calls, StopActuator(k)
  PROVE  IInv'
<1>1. Reply(k, "stop", "ok") \/ Reply(k, "stop", "failed")
  BY DEF StopActuator
<1>2. /\ held' = None /\ alive' = alive
      /\ status' \in {"Disconnected", status}
  BY DEF StopActuator
<1>3. TakeAndKill
  BY DEF StopActuator, TakeAndKill
<1>4. dying' \subseteq alive /\ spared' \in BOOLEAN /\ (spared' \/ alive \subseteq dying')
  BY <1>3, NothingRemains
<1>5. TypeOK'
  BY <1>1, <1>2, <1>4, ReplyTypes DEF IInv, TypeOK
<1>6. OnlyTheHeldRuns' /\ NotConnectedMeansNothingRuns'
  BY <1>2, <1>4 DEF OnlyTheHeldRuns, NotConnectedMeansNothingRuns
<1> QED
  BY <1>5, <1>6 DEF IInv

\* A poll reads the status.
LEMMA StatusStep ==
  ASSUME IInv, NEW k \in Calls, GetStatus(k)
  PROVE  IInv'
<1>1. UNCHANGED <<status, held, alive, dying, spared>> /\ Reply(k, "poll", status)
  BY DEF GetStatus, backEnd
<1>2. status \in {"ok", "failed", "Disconnected", "Connecting", "Connected"}
  BY DEF IInv, TypeOK
<1>3. TypeOK'
  BY <1>1, <1>2, ReplyTypes DEF IInv, TypeOK
<1> QED
  BY <1>1, <1>3 DEF IInv, OnlyTheHeldRuns, NotConnectedMeansNothingRuns

\* The invariant holds in every reachable state.
LEMMA Invariance == Spec => []IInv
<1>1. IInv /\ [Next]_vars => IInv'
  <2> SUFFICES ASSUME IInv, [Next]_vars PROVE IInv'
    OBVIOUS
  <2>1. ASSUME NEW s \in Sidecars, SidecarExits(s) PROVE IInv'
    BY <2>1 DEF SidecarExits, IInv, TypeOK, OnlyTheHeldRuns, NotConnectedMeansNothingRuns
  <2>2. CASE UNCHANGED vars
    BY <2>2 DEF vars, backEnd, IInv, TypeOK, OnlyTheHeldRuns, NotConnectedMeansNothingRuns
  <2> QED
    BY <2>1, <2>2, FrontStep, StartStep, StopStep, StatusStep DEF Next, Command
<1> QED
  BY <1>1, InvInit, PTL DEF Spec

-----------------------------------------------------------------------------
\* Whatever the user clicks and however the answers are mixed, every sidecar
\* but the one that is held has been killed, unless a kill failed.
THEOREM NoSecondSidecar == Spec => []OnlyTheHeldRuns
<1>1. IInv => OnlyTheHeldRuns
  BY DEF IInv
<1> QED
  BY <1>1, Invariance, PTL

\* A status other than Connected can be trusted, unless a kill failed.
THEOREM NotConnectedIsTrue == Spec => []NotConnectedMeansNothingRuns
<1>1. IInv => NotConnectedMeansNothingRuns
  BY DEF IInv
<1> QED
  BY <1>1, Invariance, PTL
================================================================================
