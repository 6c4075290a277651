----------------------------- MODULE OutputCapture -----------------------------
(***************************************************************************)
(* The output of one command: a goroutine per stream reads the pipe (or    *)
(* the PTY), appends what it got to the session (AppendOutput, updateTail  *)
(* in internal/process/registry.go) and hands it to OnStdout or OnStderr,  *)
(* whose builders handleExec reads when the waiter reports the outcome     *)
(* (internal/executor/shell.go, shell_pty.go, internal/actuator).          *)
(*                                                                         *)
(* A character is known by its stream and its place in it. cmd.Wait closes *)
(* the reading ends as soon as the child has exited (a PTY command closes  *)
(* the PTY itself right after), whatever is still in them.                 *)
(***************************************************************************)
EXTENDS Naturals, Sequences, FiniteSets

CONSTANTS
  Streams,         \* stdout and stderr
  Terminal,        \* the one of them that all output of a PTY is
  MaxWritten,      \* bound: characters written to a stream
  MaxOutputChars,  \* the session keeps that many characters
  TailChars,       \* and shows that many as its tail
  Torn             \* what a read of a builder that is being written may give

ASSUME OutputAssumption ==
  /\ Terminal \in Streams
  /\ MaxWritten \in Nat
  /\ MaxOutputChars \in Nat \ {0}
  /\ TailChars \in 1..MaxOutputChars

VARIABLES
  writers,     \* who holds the writing ends: the child, a descendant, or none
  written,     \* written[s]: characters written to s so far
  reader,      \* reader[s]: where the goroutine that reads s stands
  taken,       \* taken[s]: characters it has read
  chunk,       \* chunk[s]: what its last Read returned
  aggregated,  \* session.Aggregated
  tail,        \* session.tail
  builder,     \* builder[s]: the builder that OnStdout, OnStderr fill
  waiter,      \* the waiter: "wait", "report" or "done"
  timer,       \* the timer of a PTY: "armed" or "done"; "none" without a PTY
  reported,    \* reported[s]: the output in the result
  log          \* history: all that AppendOutput was given

vars == <<writers, written, reader, taken, chunk, aggregated, tail,
          builder, waiter, timer, reported, log>>

Char == Streams \X (1..MaxWritten)

\* The characters of s from the one after i up to j.
Chars(s, i, j) == [k \in 1..(j - i) |-> <<s, i + k>>]

Init ==
  /\ writers = "child"
  /\ written = [s \in Streams |-> 0]
  /\ timer \in {"none", "armed"}
  /\ reader = [s \in Streams |-> IF timer = "none" \/ s = Terminal THEN "read" ELSE "done"]
  /\ taken = [s \in Streams |-> 0]
  /\ chunk = [s \in Streams |-> <<>>]
  /\ aggregated = <<>>
  /\ tail = <<>>
  /\ builder = [s \in Streams |-> <<>>]
  /\ waiter = "wait"
  /\ reported = [s \in Streams |-> <<>>]
  /\ log = <<>>

\* The reading ends are closed once cmd.Wait has returned.
Closed == waiter # "wait"

-----------------------------------------------------------------------------
(* The child and its descendants.                                          *)

Produce(s) ==
  /\ timer = "none" \/ s = Terminal
  /\ writers # "none" /\ ~Closed /\ written[s] < MaxWritten
  /\ written' = [written EXCEPT ![s] = @ + 1]
  /\ UNCHANGED <<writers, reader, taken, chunk, aggregated, tail, builder, waiter, timer, reported, log>>

ChildExits ==
  /\ writers = "child"
  /\ writers' \in {"descendant", "none"}
  /\ UNCHANGED <<written, reader, taken, chunk, aggregated, tail, builder, waiter, timer, reported, log>>

DescendantExits ==
  /\ writers = "descendant"
  /\ writers' = "none"
  /\ UNCHANGED <<written, reader, taken, chunk, aggregated, tail, builder, waiter, timer, reported, log>>

-----------------------------------------------------------------------------
(* The reader of stream s.                                                 *)

\* Mutant: the session does not get what was read.
ReadSkipsAppend(s) ==
  /\ reader[s] = "read" /\ ~Closed
  /\ \E upTo \in (taken[s] + 1)..written[s] :
       /\ chunk' = [chunk EXCEPT ![s] = Chars(s, taken[s], upTo)]
       /\ taken' = [taken EXCEPT ![s] = upTo]
  /\ reader' = [reader EXCEPT ![s] = "callback"]
  /\ UNCHANGED <<writers, written, aggregated, tail, builder, waiter, timer, reported, log>>

\* Read returns some of what is in the pipe.
Read(s) ==
  /\ reader[s] = "read" /\ ~Closed
  /\ \E upTo \in (taken[s] + 1)..written[s] :
       /\ chunk' = [chunk EXCEPT ![s] = Chars(s, taken[s], upTo)]
       /\ taken' = [taken EXCEPT ![s] = upTo]
  /\ reader' = [reader EXCEPT ![s] = "append"]
  /\ UNCHANGED <<writers, written, aggregated, tail, builder, waiter, timer, reported, log>>

\* Read fails: all was read and nobody can write, or the pipe was closed.
ReadFails(s) ==
  /\ reader[s] = "read"
  /\ Closed \/ (writers = "none" /\ taken[s] = written[s])
  /\ reader' = [reader EXCEPT ![s] = "done"]
  /\ UNCHANGED <<writers, written, taken, chunk, aggregated, tail, builder, waiter, timer, reported, log>>

\* Mutant: one character too few is cut off.
KeepLastOffByOne(text, n) ==
  IF Len(text) > n + 1 THEN SubSeq(text, Len(text) - n, Len(text)) ELSE text

\* What is left of a text of which at most n characters are kept.
KeepLast(text, n) ==
  IF Len(text) > n THEN SubSeq(text, Len(text) - n + 1, Len(text)) ELSE text

\* AppendOutput and updateTail, under the lock of the session.
AppendOutput(s) ==
  /\ reader[s] = "append"
  /\ aggregated' = KeepLast(aggregated \o chunk[s], MaxOutputChars)
  /\ tail' = KeepLast(aggregated', TailChars)
  /\ log' = log \o chunk[s]
  /\ reader' = [reader EXCEPT ![s] = "callback"]
  /\ UNCHANGED <<writers, written, taken, chunk, builder, waiter, timer, reported>>

\* OnStdout or OnStderr: the builder of handleExec, without any lock.
Callback(s) ==
  /\ reader[s] = "callback"
  /\ builder' = [builder EXCEPT ![s] = @ \o chunk[s]]
  /\ chunk' = [chunk EXCEPT ![s] = <<>>]
  /\ reader' = [reader EXCEPT ![s] = "read"]
  /\ UNCHANGED <<writers, written, taken, aggregated, tail, waiter, timer, reported, log>>

-----------------------------------------------------------------------------
(* The waiter.                                                             *)

\* Mutant: the waiter closes nothing and reports at once.
CmdWaitKeepsPipes ==
  /\ waiter = "wait" /\ writers # "child"
  /\ reported' = builder
  /\ UNCHANGED <<writers, written, reader, taken, chunk, aggregated, tail, builder, waiter, timer, log>>

\* cmd.Wait returns and has closed the reading ends.
CmdWait ==
  /\ waiter = "wait" /\ writers # "child"
  /\ waiter' = "report"
  /\ UNCHANGED <<writers, written, reader, taken, chunk, aggregated, tail, builder, timer, reported, log>>

\* OnDone or OnError reads the builders. One that a reader is writing to at
\* the same time may give anything: a new length with the old text, say.
ReadBuilders ==
  /\ \E torn \in SUBSET {s \in Streams : reader[s] = "callback"} :
       reported' = [s \in Streams |-> IF s \in torn THEN Torn ELSE builder[s]]
  /\ UNCHANGED <<writers, written, reader, taken, chunk, aggregated, tail, builder, log>>

Report ==
  /\ waiter = "report"
  /\ waiter' = "done"
  /\ UNCHANGED timer
  /\ ReadBuilders

\* The timer of a PTY reports as well, and does not wait for the end of the
\* child. timer.Stop comes too late for one that has fired.
TimerReports ==
  /\ timer = "armed"
  /\ timer' = "done"
  /\ UNCHANGED waiter
  /\ ReadBuilders

-----------------------------------------------------------------------------
Reader(s) == Read(s) \/ ReadFails(s) \/ AppendOutput(s) \/ Callback(s)

Next ==
  \/ \E s \in Streams : Produce(s) \/ Reader(s)
  \/ ChildExits \/ DescendantExits
  \/ CmdWait \/ Report \/ TimerReports

Spec == Init /\ [][Next]_vars

(***************************************************************************)
(* Fairness: the goroutines run. Nothing is assumed of the child, of a     *)
(* descendant that keeps its output open, or of the timer.                 *)
(***************************************************************************)
LiveSpec ==
  /\ Spec
  /\ \A s \in Streams : WF_vars(Reader(s))
  /\ WF_vars(CmdWait \/ Report)

-----------------------------------------------------------------------------
(* Properties.                                                             *)

TypeOK ==
  /\ writers \in {"child", "descendant", "none"}
  /\ written \in [Streams -> 0..MaxWritten]
  /\ reader \in [Streams -> {"read", "append", "callback", "done"}]
  /\ taken \in [Streams -> 0..MaxWritten]
  /\ chunk \in [Streams -> Seq(Char)]
  /\ aggregated \in Seq(Char)
  /\ tail \in Seq(Char)
  /\ builder \in [Streams -> Seq(Char)]
  /\ waiter \in {"wait", "report", "done"}
  /\ timer \in {"none", "armed", "done"}
  /\ reported \in [Streams -> Seq(Char) \cup {Torn}]
  /\ log \in Seq(Char)

\* The last n characters of a text, or all of them if there are fewer.
Newest(text, n) ==
  LET m == IF Len(text) < n THEN Len(text) ELSE n
  IN  [i \in 1..m |-> text[Len(text) - m + i]]

(***************************************************************************)
(* However the appends of the two streams interleave and whatever was cut  *)
(* off before, the session holds the newest MaxOutputChars characters of   *)
(* all output and its tail the newest TailChars.                           *)
(***************************************************************************)
SessionKeepsNewest ==
  /\ aggregated = Newest(log, MaxOutputChars)
  /\ tail = Newest(log, TailChars)

\* The places in the log of the characters of stream s.
Places(text, s) == {p \in 1..Len(text) : text[p][1] = s}

\* The i-th of them is char.
Nth(text, s, i, char) ==
  \E p \in Places(text, s) :
    /\ text[p] = char
    /\ Cardinality({q \in Places(text, s) : q <= p}) = i

(***************************************************************************)
(* The result holds nothing that the session was not given before, in the  *)
(* order of the result: a log request after the result never shows less    *)
(* than the result, except for what MaxOutputChars cut off and for a torn  *)
(* read.                                                                   *)
(***************************************************************************)
ResultIsLogged ==
  \A s \in {t \in Streams : reported[t] # Torn} :
    \A i \in 1..Len(reported[s]) : Nth(log, s, i, reported[s][i])

(***************************************************************************)
(* The readers end once the command is over, even if a descendant of the   *)
(* child keeps the output open for ever.                                   *)
(***************************************************************************)
ReadersEnd ==
  writers # "child" ~> \A s \in Streams : reader[s] = "done"

================================================================================
