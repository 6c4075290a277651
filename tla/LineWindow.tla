------------------------------ MODULE LineWindow ------------------------------
(***************************************************************************)
(* Which lines a request with an offset and a limit gets: Read of a file   *)
(* (internal/executor/files.go) and the log of a session                   *)
(* (internal/executor/process.go). A text is known by the lengths of its   *)
(* lines; strings.Split never gives fewer than one line. Both handlers are *)
(* pure once they have the text, so a request is one step.                 *)
(***************************************************************************)
EXTENDS Integers, Sequences, Functions

CONSTANTS
  MaxLines,     \* maxLines
  MaxFileSize,  \* maxFileSize
  MaxInt,       \* the largest int
  Nil,          \* the request has no offset, or no limit
  LineTexts     \* bound: the texts

ASSUME WindowAssumption ==
  /\ MaxLines \in Nat \ {0}
  /\ MaxFileSize \in Nat
  /\ MaxInt \in Nat /\ MaxInt >= MaxLines
  /\ Nil \notin Int
  /\ \A t \in LineTexts : t \in Seq(Nat) /\ Len(t) \in 1..(MaxInt - MaxLines)

MinInt == -(MaxInt + 1)

Numbers == MinInt..MaxInt

\* The sum of two ints.
Add(i, j) ==
  IF i + j > MaxInt THEN i + j - 2 * (MaxInt + 1)
  ELSE IF i + j < MinInt THEN i + j + 2 * (MaxInt + 1)
  ELSE i + j

VARIABLES lines, offset, limit, reply

window == <<lines, offset, limit, reply>>

Ask ==
  /\ lines \in LineTexts
  /\ offset \in Numbers \cup {Nil}
  /\ limit \in Numbers \cup {Nil}
  /\ reply = [kind |-> "none"]

\* The characters in lines first..last of a text, joined.
Size(text, first, last) ==
  IF last < first THEN 0
  ELSE FoldFunction(+, last - first, SubSeq(text, first, last))

-----------------------------------------------------------------------------
\* Mutant: the offset counts from zero.
StartFromZero == IF offset = Nil \/ offset < 0 THEN 0 ELSE offset

\* The lines before the window.
startLine ==
  IF offset = Nil \/ Add(offset, -1) < 0 THEN 0 ELSE Add(offset, -1)

\* Mutant: the end is not limited by the text.
EndUnchecked(count) == Add(startLine, count)

\* The end of a window of count lines.
endLine(count) ==
  IF Add(startLine, count) > Len(lines) THEN Len(lines) ELSE Add(startLine, count)

\* What slicing lines[startLine:endLine] gives, or that it cannot be done.
Slice(count) ==
  IF endLine(count) < startLine \/ endLine(count) > Len(lines)
  THEN [kind |-> "panic"]
  ELSE [kind |-> "lines", first |-> startLine + 1, last |-> endLine(count)]

Nothing == [kind |-> "lines", first |-> 1, last |-> 0]

Chars(slice) == Size(lines, slice.first, slice.last)

\* Mutant: cutting the text off does not count as truncation.
TruncatedByLinesOnly(slice) == slice.last < Len(lines)

Truncated(slice) == slice.last < Len(lines) \/ Chars(slice) > MaxFileSize

ReadLimit == IF limit # Nil /\ limit < MaxLines THEN limit ELSE MaxLines

\* Read, once it has the file.
Read ==
  /\ reply.kind = "none"
  /\ reply' =
       IF startLine >= Len(lines)
       THEN [from |-> "read", slice |-> Nothing, kind |-> "lines",
             chars |-> 0, truncated |-> FALSE]
       ELSE LET slice == Slice(ReadLimit)
            IN  IF slice.kind = "panic" THEN [from |-> "read", kind |-> "panic"]
                ELSE [from |-> "read", slice |-> slice, kind |-> "lines",
                      chars |-> IF Chars(slice) > MaxFileSize
                                THEN MaxFileSize ELSE Chars(slice),
                      truncated |-> Truncated(slice)]
  /\ UNCHANGED <<lines, offset, limit>>

\* Without a limit the window goes on to the last line.
LogLimit == IF limit = Nil THEN Len(lines) - startLine ELSE limit

\* getSessionLog, once it has the output.
Log ==
  /\ reply.kind = "none"
  /\ reply' =
       LET slice == IF startLine >= Len(lines) THEN Nothing ELSE Slice(LogLimit)
       IN  IF slice.kind = "panic" THEN [from |-> "log", kind |-> "panic"]
           ELSE [from |-> "log", slice |-> slice, kind |-> "lines",
                 chars |-> Chars(slice), truncated |-> FALSE]
  /\ UNCHANGED <<lines, offset, limit>>

Reply == Read \/ Log

WindowSpec == Ask /\ [][Reply]_window

-----------------------------------------------------------------------------
(* Properties.                                                             *)

\* The number of the first line asked for.
From == IF offset = Nil \/ offset < 1 THEN 1 ELSE offset

\* The lines asked for.
Asked == {n \in 1..Len(lines) : n >= From /\ (limit # Nil => n < From + limit)}

\* The end of the window of a log request is not an int.
EndOverflows ==
  reply.from = "log" /\ limit # Nil /\ startLine + limit > MaxInt

(***************************************************************************)
(* Slicing panics, and takes the actuator down, for an offset in the text  *)
(* with a negative limit, or with one whose end overflows, and for no      *)
(* other request.                                                          *)
(***************************************************************************)
PanicsOnlyOnBadLimit ==
  reply.kind # "none" =>
    (reply.kind = "panic" <=>
       /\ limit # Nil /\ (limit < 0 \/ EndOverflows)
       /\ startLine < Len(lines))

(***************************************************************************)
(* A reply has the lines asked for and no other, of which Read gives the   *)
(* first MaxLines; only the least int is not the offset that it seems.     *)
(***************************************************************************)
RepliesWithAskedLines ==
  reply.kind = "lines" /\ offset # MinInt /\ ~EndOverflows =>
    reply.slice.first..reply.slice.last =
      {n \in Asked : reply.from = "read" =>
                       \A m \in Asked : n < m + MaxLines}

(***************************************************************************)
(* What Read does not call truncated reaches to the end of the file.       *)
(***************************************************************************)
UntruncatedReachesEnd ==
  /\ reply.kind = "lines" /\ reply.from = "read" /\ ~reply.truncated
  /\ offset # MinInt
  => reply.chars = Size(lines, From, Len(lines))
==============================================================================
