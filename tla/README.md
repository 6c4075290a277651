# A TLA+ verification of botster-actuator-g

`actuator-g` runs on a machine, connects to a broker over a WebSocket, executes
the commands the broker sends (shell commands, process management, file
operations) and sends their results back. This directory holds TLA+ modules
that model it, TLC configurations that check them on small instances, and
proofs that TLAPS checks for every instance. `PROJECT.json` is the index: which
definition models which lines, which run checks which property, the mutated
definitions that each property is able to reject, the hazards of the code and
the findings.

To repeat a run: `tlc -config exec_pair.cfg ShellExec`; to repeat the proofs of a
module: `tlapm ShellExecProofs.tla`.

## 1. Inventory of the system

| component | state | operations | hard behaviour | what makes it correct |
|---|---|---|---|---|
| exec commands (`actuator.go` handleExec, `shell.go`, `shell_pty.go`) | the goroutines of each command, `activeCommands`, builders for stdout and stderr | handleExec, ExecuteShell[PTY], timers, waiter, OnDone/OnError/OnYield | five goroutines per command race: exit, deadline, yield, kill, Stop | one outcome per command, it comes, it agrees with the session record |
| session registry (`registry.go`) | sessions: pid, exited, code, signal, backgrounded, output | AddSession, MarkExited, MarkBackgrounded, AppendOutput, KillSession | a SIGKILL five seconds late, pids freed by cmd.Wait, unlocked readers | exit record written once; signals reach only the own process; output is a suffix |
| broker connection (`actuator.go`) | `conn`, `destroyed`, `sendMu` | Start, connect, readLoop, send, scheduleReconnect, Stop | connect under way during Stop, silent losses, writes that block, shared sender | one chain of reconnects, a connection in `a.conn` that is served, ordered pongs, one late connection at most |
| reconnect manager (`reconnect.go`) | `attempt`, `timer` (no lock) | Schedule, Reset, Destroy | a timer that fires cannot be stopped | no retry beside a served connection |
| main (`main.go`) | config, token file | parse, read token, Start, signal.Notify, Stop | Start blocks; main returns while goroutines run | SIGTERM stops gracefully |
| token rotation | `AgentToken`, file | handleTokenRotated, persistToken | crash between truncate and write | a restart uses an accepted token |
| output capture | readers, `Aggregated`, `tail`, builders | AppendOutput, updateTail, OnStdout, OnStderr | cmd.Wait closes the pipes under the readers; builders read and written without a lock | the session keeps the newest output; the result nothing that the session never got |
| process handler (`process.go`) | none of its own | list, poll, log, write, send-keys, resize, kill | reads of sessions without their lock; writes that block; a nil `Stdin` | exits are final, keys typed in order, no answer withheld |
| file executor (`files.go`) | the file system | Read, Write, Edit | overlapping edits, path checks, windows | an edit replaces exactly one occurrence |
| dispatch, wakes (`actuator.go`) | `activeCommands` | handleCommand, handleExec, handleWake, sendResult | every message in its own goroutine; the connection changes under the answer; ids used twice | answers are lost with connections only; Stop finds the children |
| desktop (`sidecar.rs`, `main.rs`, `app.js`) | child, status; badge in JS | start, stop, get_status | answers of polls and clicks out of order; failed spawns and kills | one sidecar; a status that hides none; a badge that settles |
| mock broker (`testutil`) | clients, results | test helper | - | - |

Interactions: readLoop starts a goroutine per command; those call handleExec,
which calls ExecuteShell with callbacks that run in the waiter's and the timers'
goroutines; the callbacks take `a.mu`, then hand a result to `send`, which takes
`sendMu`, then `a.mu`, and writes to whatever connection `a.conn` names at that
moment. A process "kill" and Stop reach the session through KillSession. Stop
holds `a.mu` while it runs all kill functions.

## 2. Modules

| module | models |
|---|---|
| `ShellExec` | the life of the exec commands, their sessions, kills, and Stop as far as it concerns them |
| `CommandOutcome` | what a command promises the broker: the abstract specification of `ShellExec` |
| `SessionLife` | what a session is for those who use it through the registry: implemented by `ShellExec`, and `ProcessHandler` is built on it |
| `ShellExecProofs` | theorems about `ShellExec`, that it implements `SessionLife` and the safety of `CommandOutcome` among them |
| `Connection` | connect, readLoop, send, reconnect, Stop, main, with the broker and the network as environment |
| `BrokerLink` | what the connection is for the rest of the actuator: the abstract specification of `Connection` |
| `ConnectionProofs` | theorems about `Connection`, the implementation of `BrokerLink` among them |
| `Dispatch` | messages, commands, wakes and answers on a `BrokerLink`, `activeCommands` and Stop |
| `DispatchProofs` | theorems about `Dispatch` |
| `ProcessHandler` | list, poll, log, write, send-keys, resize and kill against the sessions of `SessionLife` |
| `ProcessHandlerProofs` | theorems about `ProcessHandler` |
| `TokenStore` | token rotation, the token file, crashes and restarts |
| `TokenStoreProofs` | theorems about `TokenStore` |
| `OutputCapture` | the readers of a command's output, the session buffer, the builders, and the outcome |
| `OutputCaptureProofs` | theorems about `OutputCapture` |
| `FileExecutor` (`MCFileExecutor`) | overlapping read, write and edit requests for one file |
| `LineWindow` (`MCLineWindow`) | the line window of file reads and session logs, the size limit of reads |
| `FileProofs` | theorems about `FileExecutor` and `LineWindow` |
| `Desktop` | the desktop application: sidecar commands, buttons, polls and their answers |
| `DesktopProofs` | theorems about `Desktop` |

Three abstractions hold the parts together. `BrokerLink` is the connection as a
reader of messages and a sender see it: `Connection` implements it (ImplementsLink,
checked and proved), and `Dispatch` is built on it, so that dispatch is checked
without dials, backoff and pings, for every way a connection can come and go.
`CommandOutcome` is what a command promises: `ShellExec` implements it for piped
commands (ImplementsContract, checked; its safety part proved), and `Dispatch`
takes a command to be a child that is launched, ends and is reported once.
`SessionLife` is a command as its session shows it: `ShellExec` implements it for
piped and PTY commands (ImplementsSessionLife, checked and proved), and the
sessions of `ProcessHandler` take its steps, so that requests are checked without
the five goroutines of a command, for every way its session can come and go.

### ShellExec

`pc[a][c]` is the place of goroutine `a` of command `c`: the caller of
ExecuteShell, the waiter in cmd.Wait, the deadline, the yield timer and a kill
request. `session` is the registry's record (whether the pid is published,
stdin, exited, exit code and signal); `proc` is the kernel's view of the child
(running, zombie, reaped) with its exit code and the strongest signal it was
sent; `active` is `activeCommands`; `escalation` holds the commands with a
KillSession goroutine asleep (two of one command count as one: both would do the
same thing); `sent` collects the results handed to `send`; `stray` records
signals sent to pids that were already reaped; `main` says whether the actuator
serves, has run Stop, or is gone.

A step is what another goroutine can see: ExecuteShell's caller takes five
(session added, pipes opened, child started, pid published and goroutines
launched, entry stored in `activeCommands`), the end of a command three
(MarkExited; the deletion from `activeCommands`; the result handed to `send`).
The three places that end a command, the failing spawn, the waiter and the PTY
timer, share these three actions and differ in `Verdict`. The exit code is
abstracted to zero, nonzero, nil; output, wording and durations are left out.
`ProcessExits` lets a child end at any time with any code.

PTY and piped commands differ as in the code: the deadline of a piped command
only kills and leaves the report to the waiter, which then asks whether the
deadline passed; the deadline of a PTY command reports itself.

### Connection

A thread is one call of connect: main's, or one made by the reconnect timer. It
owns at most one WebSocket, so the thread's name is the connection's name; names
are reused when nobody holds the old connection. Stop, the threads and the
goroutines that send results share `conn`, `destroyed`, `timer` and `attempt`.
`holder` holds `sendMu`, `target` is the connection that it copied from `a.conn`.
`link` is the state of each WebSocket: "stalled" is a peer that went silent, so
reads block until TCP keepalive gives up and writes fail after ten seconds.
A small write to a silent peer may also vanish into the kernel's buffer.
Reset and Destroy each test `timer`, load it again for Stop(), and clear it, in
steps of their own, since nothing locks the manager: the second load may find nil,
and `fault` is who panicked on it. Stop holds `a.mu` while it is in Destroy.

`late` counts connections adopted after Stop; `pinged`, `read` and `pongs` count
the pings of a connection and record its pongs.

### BrokerLink and Dispatch

`BrokerLink` keeps `a.conn` (`conn`), the connections that carry messages (`up`),
those whose readLoop runs (`readers`), whether Stop was called and whether a
connection was adopted after that. `Dispatch` instantiates it with its own
variables of these names and adds, per message, the goroutine that handles it
(`pc`), the child of an exec command, and what became of the answer; `active` is
`activeCommands`, a map from ids to kill functions, and `holder`, `target` are
`sendMu` and the copy of `a.conn` that its holder took. Commands that have no
child of their own (files, processes, refusals, everything in brain mode) are one
step up to their answer: what they do is in their own modules. Two messages may
carry the same id; the broker of the repository does not, but nothing in the
actuator relies on it. `steady` and `launched` are history: the answers that got
ready on a connection that has lasted since, and the commands whose handleExec
had returned when Stop came.

### SessionLife and ProcessHandler

`child` is how far a session's command is (added, open once its pipes are made,
running, zombie, reaped, or failed to start), `record` the fields of the session
that a request reads (pid published, Stdin set, exited). `ShellExec` has them as
`Stage`, from the process table and the place of the caller, and `Fields`, from
the record. A goroutine's deadlines, verdicts and reports are no steps of
`SessionLife`: they stutter.

`ProcessHandler` instantiates `SessionLife` with variables of the same names, and
adds what requests see and do. A handler's steps are what other
goroutines can come between: GetSession with the test of Exited, the test of
Stdin, its second load for the call, the write, the info, the output. `unread` is
what the child has not read of its input: a write waits while the input is full,
and fails once the waiter or the end of the child has closed it. LoadStdin is a
data race: of an interface that was cleared the call panics, of one that is half
cleared it finds no file and returns an error. A log request
whose offset and limit are `crossed` may panic when it slices the output
(`LineWindow` says for which ints). `victim` is the request whose
handler panicked either way, after which nothing happens. A key is known by its request and
position, so that `typed` shows lost, doubled and reordered ones. `owed` and
`dead` are history: the output of a session when it was marked exited, and the
sessions that were when a request arrived. What the signals of a kill do is in
`ShellExec`, the window of a log in `LineWindow`.

### TokenStore

Tokens are numbered in the order of their issue. `memory` is
`a.config.AgentToken`, `file` the token file, `inflight` the rotations on the
connection; `writing` is a set, so that it can be a property that it has one
member at most. Truncate and Persist are the two halves of os.WriteFile, either
of which may fail, the second after a first part of the token (`Prefix`). A start
may fail to read the file, and goes on with the token of the environment
(`unread`). Crash stands for every end of the process. `persisted`
remembers the last token that reached the file. What the broker accepts is its
own affair: the module says which token is used, not whether it is refused.

### OutputCapture

A character is its stream and its position, so that order and losses show. The
pipe is `written` minus `taken`; `chunk` is what a reader holds between Read,
AppendOutput and the callback; `log` remembers everything AppendOutput was given.
CmdWait closes the reading ends whatever is in them: that is what
(*exec.Cmd).Wait does with StdoutPipe, and what the PTY waiter does itself. The
builders of handleExec are read by OnDone without a lock; a read that meets a
write is a data race, and its outcome is `Torn` or the old text. A PTY has one
stream, `Terminal`, and its `timer` reports while the terminal is still open.

### FileExecutor and LineWindow

Each request runs in a goroutine of its own, as readLoop starts them. os.ReadFile
is one step here, while the code reads in chunks, so that a read which overlaps a
write sees the file at one moment: of a text longer than a chunk the code may also
see the head of one and the end of another. WriteFile is opening with truncation, then a write at the start of the
file that may stop short with an error. A text is a sequence of a few characters.
What Read answers from the text it has is a pure function, so it is a module of
its own: `LineWindow` takes a text as the lengths of its lines, and computes with
ints that overflow. A read with overlapping writes may see an empty or mixed text
in the code and in `FileExecutor`; the properties claim nothing of it.

### Desktop

A back-end command holds the mutex from its first line to its last, so it is one
step; the front end does not wait, and `call` and `answer` hold the calls under
way and what came back. `held` is `child` of the state, `alive` the processes
that run, `dying` those of them that were killed (kill does not wait for their
end), `badge` what the front end shows; it also decides which button can be
clicked. A kill may fail, and `spared` remembers that one left a sidecar alone.
The sidecar's exit changes nothing but `alive`, as in the code, where the
Terminated event is only printed.

## 3. Runs

All runs but token_store and desktop say CHECK_DEADLOCK FALSE because the system
may really stop: every command or request has ended, or the process is gone.
`TokenStore` restarts its process and `Desktop` polls for ever.

| run | instance | checks |
|---|---|---|
| exec_pair | one piped, one PTY command, Spec | type, SecondOutcomeOnlyFromPtyTimer, StopFindsLiveCommands, RecordAgreesWithOutcome, ExitRecordStable, ImplementsSessionLife: ShellExec implements SessionLife |
| exec_kill_pty | one PTY command with yield and kill requests, KillSpec | ReportedSessionsExited, CompletedMeansExitZero, EscalationSparesReported, KilledProcessDies, EveryCommandAnswered |
| exec_contract | one piped command, yield, kill, LiveSpec | ImplementsContract: ShellExec implements CommandOutcome |
| connection | three threads, one result, two pings, attempts counted to two, LiveSpec | SingleChain, NilTimerNeedsStopWhileAdopting, PongsInOrder, ConnectsAgain, EverySendEnds, ImplementsLink: Connection implements BrokerLink |
| dispatch | two messages with one or two ids, two connections, LiveSpec | LastingConnectionDelivers, StopMissesOnlyDuplicates, EveryDeliveryEnds |
| process_requests | two requests of two keys, one session, an input of one key, one chunk of output, LiveSpec | type, ExitIsFinal, PanicNeedsRaceOrCrossedLimits, KeysAreTypedInOrder, PollShowsWhatPrecededExit, EveryRequestIsAnswered |
| token_store | three rotations, a token file | NewestUnlessTornOrUnread, FileGoesForward |
| output_capture | two streams of three characters, one of them a terminal, a buffer of three and a tail of two, LiveSpec | SessionKeepsNewest, ResultIsLogged, ReadersEnd |
| file_requests | two requests of six kinds, on two texts or no file | UndisturbedIsExact, OnlyRequestedText |
| line_window | every text of up to four lines of up to two characters, every offset and limit of a four-bit int | PanicsOnlyOnBadLimit, RepliesWithAskedLines, UntruncatedReachesEnd |
| exec_stop_without_sigkill | one command, Stop | SigtermIsFollowedBySigkill, violated |
| desktop | three calls under way, three sidecars, LiveSpec | OnlyTheHeldRuns, NotConnectedMeansNothingRuns, BadgeSettles |

The types of `Connection`, `Dispatch` and the others whose row says no "type" were
checked while their proofs were written, and are theorems.

What they show: a piped command reports one outcome, its record agrees with it
and is never rewritten; a broker that knows an outcome finds the session exited;
only a PTY command whose timer fired can report twice. Reconnects form one
chain, and a pong goes to the connection of its ping. An answer is lost only with
a connection: if the one it got ready on lasts, it arrives, whichever connection
its command came on. A request that comes after an exit is told of it, a poll
that shows the exit has read its tail after the exit was recorded (what is appended
later, and all but the tail, it may still miss), keys arrive in order and all of
them unless the answer is an error, and every request is answered. The token file moves
forward only, and the actuator works with the newest token it persisted unless a
later write was cut off or this start could not read the file. The session's log and tail are always the newest output. A write or an
edit that nobody interferes with is exact, and files hold nothing that no request
wrote. The line windows are right for every request but those whose ints are
negative or overflow. The desktop application has killed every sidecar but the
one it holds unless a kill failed, and its badge settles on its status.

One run TLC finds violated, a disagreement of the code with its own text (quoted
in `PROJECT.json`): in exec_stop_without_sigkill main returns after Stop, and the
SIGKILL that KillSession announces for five seconds later never comes.

### Windows that the code leaves open

The properties say exactly how far each of these reaches.

- A PTY command whose timer fires reports the timeout, then the waiter reports
  the exit: two outcomes (SecondOutcomeOnlyFromPtyTimer).
- cmd.Wait, or the waiter of a PTY, closes the output under the readers: the
  result may lack what the child wrote last (ResultIsLogged says a prefix, not
  more). The test helper waits for output "to flush" for that reason
  (`shell_test.go:46`).
- Stop misses a child between cmd.Start and the entry in `activeCommands`
  (StopFindsLiveCommands), and children whose id came twice
  (StopMissesOnlyDuplicates).
- SIGTERM while Start serves the first connection, before signal.Notify, ends
  the process without Stop (DieWithoutStop).
- A dial that is under way during Stop leaves one connection that nobody closes
  (BrokerLink's Adopt after Stop).
- A SIGTERM while a connection is being adopted lets Reset and Destroy meet on
  the timer, and one of them may call Stop() on nil and panic; if it is Destroy,
  the children are not killed (NilTimerNeedsStopWhileAdopting). Go's memory model
  allows it; whether a build loads the field twice is up to the compiler.
- A yield timer that fires as its command ends may send "running" after the
  outcome; no property excludes it.
- A write or send-keys that meets the exit of its session may call Write on a nil
  Stdin and end the process; so may a log request with a negative limit, or one
  that overflows: no handler goroutine recovers (PanicNeedsRaceOrCrossedLimits,
  PanicsOnlyOnBadLimit).
- A SIGTERM can reach a pid that cmd.Wait has just freed (`stray`;
  EscalationSparesReported is about the SIGKILL).
- A log that shows an exit may lack output that came before it, since it reads
  the output first. A poll reads its tail last, but may still miss what is appended
  after the exit was recorded (PollShowsWhatPrecededExit).
- A crash or a failed write inside persistToken loses the token that was in the
  file, and may leave the beginning of the new one, which the next start takes for
  a token. A file that cannot be read is passed over without a word, although
  main.go:113 says that a file that exists overrides the environment
  (NewestUnlessTornOrUnread).
- Overlapping writes of one file may leave the head of one and the end of the
  other, and of two overlapping edits one may be undone, both answered
  "completed" (UndisturbedIsExact).
- A result or pong produced without a connection is dropped and never sent again
  (LastingConnectionDelivers).
- The desktop status stays Connected when the sidecar has exited and Connecting
  when it could not be spawned; a late poll may enable the start button while a
  sidecar runs, which the next start then kills (NotConnectedMeansNothingRuns,
  OnlyTheHeldRuns, BadgeSettles).

### Bounds

Commands are independent but for Stop and `a.mu`, so one command shows every race
inside a command, and two (one of each kind) those through Stop. The calls of
connect form a chain, so three threads are the one that ends, the one it
schedules and a spare name whose old connection a sender or Stop may still hold.
`MaxPings` bounds the pings of a connection: two are needed for an order.
`AttemptCap` is where the attempt counter stops counting; the properties ask only
whether it is zero. No run bounds the number of reconnects, kill requests or
network changes. Three rotations (`MaxToken`) are a token that was persisted, one
whose write is cut off, and one more on its way. Three characters per stream
(`MaxWritten`) overflow a buffer of three (`MaxOutputChars`) from both streams,
more than once. Two file requests show every race of a pair; the texts contain
the text looked for once, twice and overlapping. `LineWindow` runs over every int
of its width, with maxLines and maxFileSize smaller than the largest text. Two
requests and one session show every race of requests with each other and with the
life of the session (sessions share nothing but the registry's map); two keys
(`Keys`) make an order, an input of one (`PipeSize`) makes the second wait. Two
messages compete for `sendMu` and for an id, two connections are the one an
answer got ready on and the next. Of three desktop calls one may be a click, one
a poll before it and one a poll after; three sidecars are one held, one killed
and not dead yet, and one that a failed kill spared.

### Fairness

`ShellExec`: a goroutine that can run does; a process that was sent SIGKILL dies;
with `Deadlines`, an armed timer fires. Nothing is assumed of the broker, of who
stops the actuator, or of a child that is left alone: it may run for ever.
`KillSpec` leaves `Deadlines` out, so that KilledProcessDies does not hold merely
because a deadline helps; EveryCommandAnswered has them as its hypothesis.
`Connection`: threads and timers run, and so do the steps of Stop once SIGTERM came; `sendMu` is given to a
waiter in the end (strong fairness: Go's mutexes hand over to the oldest waiter
after a millisecond); a write ends (its context has ten seconds); a closing
handshake ends; keepalive probes give up on a silent peer. Nothing is assumed of
the network: ConnectsAgain has its recovery as hypothesis. `OutputCapture`:
readers and the waiter run; nothing is assumed of the child, its descendants, or the
timer of a PTY.
`Dispatch`: goroutines run, timeouts expire, a child ends at its deadline at the
latest, `sendMu` is fair as above. `ProcessHandler`: handlers and the goroutines of a command
run, a child ends at its deadline; nothing makes it read its input. `Desktop`:
the interval timer goes off and calls are answered; BadgeSettles has the end of
the user's clicks as hypothesis.
`TokenStore`, `FileExecutor` and `LineWindow` have no liveness properties.

## 4. Proofs

`ShellExecProofs` proves, for any set of commands: type correctness,
SecondOutcomeOnlyFromPtyTimer, ReportedSessionsExited, CompletedMeansExitZero,
StopFindsLiveCommands, RecordAgreesWithOutcome, ExitRecordStable,
EscalationSparesReported, and that every step of `ShellExec` is a step of
`CommandOutcome` or leaves it unchanged (ImplementsContractSafely), and that
ImplementsSessionLife holds (ImplementsLife). The only
assumption is `PayloadAssumption`, that Pty, Yielding and Killable are sets of
commands.

The safety properties are not inductive. The invariant `IInv` adds, per command,
where its goroutines can be together: nothing has started before Launch
(Launched); the timer of a piped command never ends the command, so the caller
(when the spawn failed) and the waiter (when it did not) are the only ones that
can (TimerRunsForPty, OneOutcomeEach); whoever has sent an outcome is past its
three ending steps (ReporterIsPast); whoever is past MarkExited has marked the
session (EndersHaveMarked); the waiter past cmd.Wait has reaped the child
(WaiterHasReaped); and the record of a marked piped session is the verdict of
the one who marked it (MarkedOnce, RecordKept, RecordAgrees). One lemma per
group of actions shows that it is preserved, a command that a step does not
touch keeps its invariant by a frame lemma.

ImplementsLife needs `LifeInv` besides: where the goroutines stand, how far the
child is and what the record says agree. The pid is published from the start of
the waiter on; a child that started and has not been published lives or is a
zombie; a caller that still launches has a piped session's Stdin set and no exit
recorded. Registering, deadlines, verdicts, yields, kills and reports leave the
child and the fields of the record alone (QuietKeeps) and stutter, as does the
second MarkExited of a PTY command. The others are a step each: HandleExec is
AddSession, OpenPipes OpenStdin, StartProcess Start, FailToSpawn StartFails,
Launch Publish, ProcessExits ChildExits, CmdWait Reap.

`ConnectionProofs` proves, for any set of threads and results and any bounds
(`ConnectionAssumption`): type correctness, SingleChain, PongsInOrder, the lemmas
on the way that a.conn is served (ConnIsServed), that a served connection has
reset the backoff (ServedMeansBackoffReset) and that there is one late connection
at most (OneConnectionAfterStop), and with them LinkImplemented: every step of
`Connection` is one of `BrokerLink` or leaves it unchanged. SingleChain is
almost inductive by itself: what hands the chain on (the timer, the end of a
connection) ends the call of connect that had it. Late connections need LateInv:
after Stop such a connection is the end of the chain, no retry is pending.
ServedMeansBackoffReset says that the attempts are zero and no retry is pending.
NilTimerNeedsStopWhileAdopting needs that only a thread between the adoption and
the end of Reset, or Stop in Destroy, has the timer in its hands (DestroyedInv,
FaultInv). PongsInOrder needs PongInv: the pongs keep up with the pings that were read as
long as the connection works and a.conn, or the goroutine that holds `sendMu`,
still knows it; without the second case, a connection that is lost while its pong
is being written would break the order.

`DispatchProofs` proves, for any sets of messages, ids and connections
(`DispatchAssumption`: nil is none of them): type correctness,
LastingConnectionDelivers and StopMissesOnlyDuplicates. The first needs that the
sender that holds `sendMu` for a steady answer has the connection that lasts as
its target; the second that a running child whose handleExec has returned is in
`active` under its id unless another command with that id was read.

`ProcessHandlerProofs` proves, for any sets of sessions and requests and any
bounds: type correctness, ExitIsFinal, PanicNeedsRaceOrCrossedLimits,
PollShowsWhatPrecededExit and KeysAreTypedInOrder. The invariant says for each
place of a handler what the request has seen: a handler between the two looks at
Stdin writes to a session that had one, and a session that had one and lost it is
exited; the output a poll has read after an info that shows the exit is at least
what was there when it was recorded.

KeysAreTypedInOrder says it with the places of a request's keys in an input.
KeysInv adds that there are as many of them as the handler has counted, all in
the input of its own session; the lemma KeyAppended says what one more key does
to the places of its own request and to those of the others.

`OutputCaptureProofs` proves SessionKeepsNewest and ResultIsLogged for any number
of streams, any amounts of output and any limits (`OutputAssumption`: the tail is
shorter than the buffer), and the type invariant they rest on. The first rests on
lemmas about sequences: cutting a text after every append keeps the same
characters as cutting it once at the end (NewestOfMore, NewestOfNewest,
KeepLastIsNewest). For the second, StreamInv follows each stream: its builder and
its chunk are what was read, every character in its place, and the log has of the
stream the builder and, once appended, the chunk. How many places of the log a
stream has is counted by lemmas about appending (PlacesKept, PlacesOfMore,
PlacesOfOthers).

`DesktopProofs` proves OnlyTheHeldRuns and NotConnectedMeansNothingRuns, for any
number of calls and sidecars; the two are inductive together with the type
invariant.

`TokenStoreProofs` proves, for any number of rotations (`TokenAssumption`: the
markers of an absent, an empty and a cut-off file are no tokens): type correctness,
NewestUnlessTornOrUnread and FileGoesForward. The invariant says that what is on its
way is in order and newer than the memory, the memory newer than the file while a
writer runs, and that there is one writer at most; the last is what the mutant
that gives rotations their own goroutines breaks.

`FileProofs` has two parts. For any number of requests on texts of any length
(`FileAssumption`: requests and texts are made of characters) it proves
OnlyRequestedText and UndisturbedIsExact. The invariant says that a request past
its read holds what it will write (BufferInv), and that a request that has opened
the file and shares it with nobody finds it as empty as it left it (OpenInv). Under
them are lemmas about occurrences of a text in another: the first one exists (by
the well-foundedness of < on the naturals), the text splits there, and what
replaces it is what Edit promises (Least, SplitAtOccurrence, ReplaceIsExact).

For texts of any number of lines and ints of any width (`WindowAssumption`: a text
has a line at least, and room for maxLines below the largest int) it proves
PanicsOnlyOnBadLimit, RepliesWithAskedLines and UntruncatedReachesEnd. The lemmas
say what slicing gives for a count that fits and for one that does not.

TLC checked each inductive invariant as an invariant of small instances first.

With these every invariant and every safety property of the runs is a theorem.
Only model-checked are the liveness properties (EveryCommandAnswered,
KilledProcessDies, ConnectsAgain, EverySendEnds, EveryDeliveryEnds,
EveryRequestIsAnswered, ReadersEnd, BadgeSettles and the liveness half of
ImplementsContract): they need fairness, and with it ENABLED, which TLAPS does
not reason about here.

## 5. What each part rests on

1. `ShellExec` implements `CommandOutcome` and `SessionLife`; `ProcessHandler` is
   built on the latter, so what is shown of requests holds for the sessions of
   real commands. `OutputCapture` is a command seen from its output. It shares the
   moments (pid published, child reaped, marked exited, reported) with the others
   and no variable: a property that needs two of these views, such as
   PollShowsWhatPrecededExit, carries what it needs of the other in its own module.
2. `Connection` implements `BrokerLink`, on which `Dispatch` is built.
   `TokenStore` takes from it only that the thread of an old connection has come
   back before there is a new one (SingleChain).
3. `FileExecutor` and `LineWindow` are what file requests and logs do between
   HandleAtOnce's two ends.
4. `Desktop` runs the whole actuator as a process that may exit at any time.

## 6. Not modelled

- The length of the reconnect delay (`reconnect.go:50`): a minimum of floating
  point numbers with a random part. A pending timer may fire at any time, so
  nothing shown depends on it. At the cap the jitter is gone, since it is added
  before the minimum is taken.
- The byte sequences of convertKeySequence (`process.go:193`): a table, and a
  key is known by its place in the request.
- Which paths validatePath refuses (`files.go:27`), beyond that it may refuse.
- Argument parsing and the environment in `main.go`, the wire types, which have
  no behaviour, and the mock broker of the tests: the broker is an environment of
  the models, less obliging than that one.
- The copy of the builders that OnYield sends: ShellExec has the message, and
  OutputCapture the output of the final outcome only.
- get_logs of the desktop application, whose lines nothing fills, its tray icon,
  form fields and their storage.
- Memory effects of the unlocked reads of `session.Exited` and `session.Pid`
  beyond seeing an older value in an earlier step: the Go race detector is the
  tool for them. Stdin, whose tearing matters, has its outcomes in LoadStdin.
- That nothing removes sessions from the registry (`registry.go:67`): no bound is
  promised anywhere in the code.
