----------------------------- MODULE FileExecutor -----------------------------
(***************************************************************************)
(* The read, write and edit requests for one file                          *)
(* (internal/executor/files.go). readLoop starts a goroutine for every     *)
(* command (internal/actuator/actuator.go), so requests overlap, and       *)
(* nothing locks the file.                                                 *)
(*                                                                         *)
(* os.ReadFile is one step. os.WriteFile is two, opening with O_TRUNC and  *)
(* writing at the start of the file: another request that has the file     *)
(* open keeps its own place in it. A short write is an error.              *)
(***************************************************************************)
EXTENDS Naturals, Sequences

CONSTANTS
  Char,      \* what texts are made of
  Requests,  \* the commands
  Ops,       \* bound: what they ask for
  Texts,     \* bound: what the file holds first
  Absent     \* there is no such file

ASSUME FileAssumption ==
  /\ Ops \subseteq [kind : {"read"}]
               \cup [kind : {"write"}, text : Seq(Char)]
               \cup [kind : {"edit"}, old : Seq(Char), new : Seq(Char)]
  /\ Texts \subseteq Seq(Char)

VARIABLES
  file,      \* the text of the file, or Absent
  pc,        \* pc[r]: "idle", "read", "open", "write", "done"
  op,        \* op[r]: what request r asks for
  buffer,    \* buffer[r]: what it has read, or will write
  answer,    \* answer[r]: "none", "completed" or "failed"
  before,    \* history: before[r] is the file as an edit has read it
  shared,    \* history: requests that others touched the file under
  opened     \* history: requests that have truncated the file

vars == <<file, pc, op, buffer, answer, before, shared, opened>>

Init ==
  /\ file \in Texts \cup {Absent}
  /\ pc = [r \in Requests |-> "idle"]
  /\ op \in [Requests -> Ops]
  /\ buffer = [r \in Requests |-> <<>>]
  /\ answer = [r \in Requests |-> "none"]
  /\ before = [r \in Requests |-> <<>>]
  /\ shared = {}
  /\ opened = {}

Answer(r, status) ==
  /\ answer' = [answer EXCEPT ![r] = status]
  /\ pc' = [pc EXCEPT ![r] = "done"]

\* The requests that are between their first look at the file and their answer.
Busy == {r \in Requests : pc[r] \in {"open", "write"}}

-----------------------------------------------------------------------------
(* Text.                                                                   *)

OccursAt(old, text, i) ==
  i + Len(old) <= Len(text) /\ old = SubSeq(text, i + 1, i + Len(old))

\* Mutant: some occurrence, not the first.
IndexOfAny(text, old) ==
  CHOOSE i \in 0..Len(text) :
    /\ OccursAt(old, text, i)
    /\ \A j \in 0..Len(text) : OccursAt(old, text, j) => j <= i

\* strings.Index: where the first occurrence begins.
Index(text, old) ==
  CHOOSE i \in 0..Len(text) :
    /\ OccursAt(old, text, i)
    /\ \A j \in 0..Len(text) : OccursAt(old, text, j) => i <= j

Contains(text, old) == \E i \in 0..Len(text) : OccursAt(old, text, i)

\* newContent in Edit.
Replace(text, old, new) ==
  LET idx == Index(text, old)
  IN  SubSeq(text, 1, idx) \o new \o SubSeq(text, idx + Len(old) + 1, Len(text))

\* A write at the start of the file leaves what lies behind it.
Overlay(text, new) ==
  new \o SubSeq(text, Len(new) + 1, Len(text))

-----------------------------------------------------------------------------
(* The handlers.                                                           *)

\* A path outside of the root, or a directory that cannot be made.
Refuse(r) ==
  /\ pc[r] = "idle"
  /\ Answer(r, "failed")
  /\ UNCHANGED <<file, op, buffer, before, shared, opened>>

\* Write goes on to os.WriteFile, Read and Edit to os.ReadFile.
Begin(r) ==
  /\ pc[r] = "idle"
  /\ \/ /\ op[r].kind = "write"
        /\ pc' = [pc EXCEPT ![r] = "open"]
        /\ buffer' = [buffer EXCEPT ![r] = op[r].text]
     \/ /\ op[r].kind \in {"read", "edit"}
        /\ pc' = [pc EXCEPT ![r] = "read"]
        /\ UNCHANGED buffer
  /\ UNCHANGED <<file, op, answer, before, shared, opened>>

\* os.ReadFile fails, or an edit does not find its text.
ReadFails(r) ==
  /\ pc[r] = "read"
  /\ \/ file = Absent
     \/ file # Absent /\ op[r].kind = "edit" /\ ~Contains(file, op[r].old)
  /\ Answer(r, "failed")
  /\ UNCHANGED <<file, op, buffer, before, shared, opened>>

ReadText(r) ==
  /\ pc[r] = "read" /\ op[r].kind = "read" /\ file # Absent
  /\ buffer' = [buffer EXCEPT ![r] = file]
  /\ Answer(r, "completed")
  /\ UNCHANGED <<file, op, before, shared, opened>>

ReadAndReplace(r) ==
  /\ pc[r] = "read" /\ op[r].kind = "edit"
  /\ file # Absent /\ Contains(file, op[r].old)
  /\ buffer' = [buffer EXCEPT ![r] = Replace(file, op[r].old, op[r].new)]
  /\ before' = [before EXCEPT ![r] = file]
  /\ pc' = [pc EXCEPT ![r] = "open"]
  /\ UNCHANGED <<file, op, answer, shared, opened>>

\* Mutant: the file is opened without O_TRUNC.
OpenKeepsText(r) ==
  /\ pc[r] = "open"
  /\ file' = IF file = Absent THEN <<>> ELSE file
  /\ pc' = [pc EXCEPT ![r] = "write"]
  /\ opened' = opened \cup {r}
  /\ shared' = shared \cup (Busy \ {r})
  /\ UNCHANGED <<op, buffer, answer, before>>

\* os.WriteFile opens the file and empties it ...
Open(r) ==
  /\ pc[r] = "open"
  /\ file' = <<>>
  /\ pc' = [pc EXCEPT ![r] = "write"]
  /\ opened' = opened \cup {r}
  /\ shared' = shared \cup (Busy \ {r})
  /\ UNCHANGED <<op, buffer, answer, before>>

OpenFails(r) ==
  /\ pc[r] = "open"
  /\ Answer(r, "failed")
  /\ UNCHANGED <<file, op, buffer, before, shared, opened>>

\* ... and writes what it can.
Write(r) ==
  /\ pc[r] = "write"
  /\ \E n \in 0..Len(buffer[r]) :
       /\ file' = Overlay(file, SubSeq(buffer[r], 1, n))
       /\ Answer(r, IF n = Len(buffer[r]) THEN "completed" ELSE "failed")
  /\ shared' = shared \cup (Busy \ {r})
  /\ UNCHANGED <<op, buffer, before, opened>>

Next ==
  \E r \in Requests :
    \/ Refuse(r) \/ Begin(r)
    \/ ReadFails(r) \/ ReadText(r) \/ ReadAndReplace(r)
    \/ Open(r) \/ OpenFails(r) \/ Write(r)

Spec == Init /\ [][Next]_vars

-----------------------------------------------------------------------------
(* Properties.                                                             *)

\* The first occurrence of o.old in text was replaced, and nothing else.
FirstOccurrenceReplaced(text, new, o) ==
  \E i \in 0..Len(text) :
    /\ i + Len(o.old) <= Len(text)
    /\ text = SubSeq(text, 1, i) \o o.old \o SubSeq(text, i + Len(o.old) + 1, Len(text))
    /\ new = SubSeq(text, 1, i) \o o.new \o SubSeq(text, i + Len(o.old) + 1, Len(text))
    /\ \A j \in 0..(i - 1) :
         \E k \in 1..Len(o.old) : text[j + k] # o.old[k]

(***************************************************************************)
(* A request that is answered completed has done what it was asked for,    *)
(* unless another one wrote under it: "Write writes content to a file" and *)
(* "Edit replaces exact text in a file" (files.go) need nothing but that   *)
(* requests for one file do not overlap, whatever failed before.           *)
(***************************************************************************)
UndisturbedIsExact ==
  [][\A r \in Requests :
       r \notin shared' /\ answer[r] = "none" /\ answer'[r] = "completed" =>
         /\ op[r].kind = "write" => file' = op[r].text
         /\ op[r].kind = "edit" => FirstOccurrenceReplaced(before[r], file', op[r])]_vars

(***************************************************************************)
(* However the requests overlap and fail, every character of the file      *)
(* stands where one of those that opened it wants it: truncation leaves    *)
(* nothing behind of what was there before.                                *)
(***************************************************************************)
OnlyRequestedText ==
  opened # {} =>
    \A i \in 1..Len(file) :
      \E r \in opened : i <= Len(buffer[r]) /\ file[i] = buffer[r][i]
==============================================================================
