---------------------------- MODULE CommandOutcome ----------------------------
(***************************************************************************)
(* What the actuator owes the broker for each command it accepts: one      *)
(* outcome that never changes, and as long as the actuator is up the       *)
(* outcome comes.                                                          *)
(***************************************************************************)

CONSTANTS
  Commands,   \* the commands the broker may send
  Outcome,    \* the ways a command may end
  Refusal     \* the one of a command that is refused

VARIABLES
  accepted,   \* the commands taken from the broker
  reported,   \* reported[c]: the outcomes told for c, none or one
  down        \* the actuator is gone

vars == <<accepted, reported, down>>

Init ==
  /\ accepted = {}
  /\ reported = [c \in Commands |-> {}]
  /\ down = FALSE

Accept(c) ==
  /\ c \notin accepted
  /\ accepted' = accepted \cup {c}
  /\ UNCHANGED <<reported, down>>

\* A command that is refused is answered at once.
Refuse(c) ==
  /\ c \notin accepted
  /\ accepted' = accepted \cup {c}
  /\ reported' = [reported EXCEPT ![c] = {Refusal}]
  /\ UNCHANGED down

Answer(c) ==
  /\ ~down
  /\ c \in accepted
  /\ reported[c] = {}
  /\ \E outcome \in Outcome : reported' = [reported EXCEPT ![c] = {outcome}]
  /\ UNCHANGED <<accepted, down>>

GoDown == down' = TRUE /\ UNCHANGED <<accepted, reported>>

Next == GoDown \/ \E c \in Commands : Accept(c) \/ Refuse(c) \/ Answer(c)

SafeSpec == Init /\ [][Next]_vars

Spec == SafeSpec /\ \A c \in Commands : WF_vars(Answer(c))
===============================================================================
