------------------------------- MODULE FileProofs -------------------------------
(***************************************************************************)
(* Proofs about the two modules of internal/executor/files.go.             *)
(* FileExecutor: any number of requests, whatever they ask for and         *)
(* whatever the file holds first. LineWindow: texts of any length and ints *)
(* of any width.                                                           *)
(***************************************************************************)
EXTENDS FileExecutor, LineWindow, SequenceTheorems, WellFoundedInduction, TLAPS

-----------------------------------------------------------------------------
(* FileExecutor: text.                                                     *)

\* Some number of a set of naturals is the least.
LEMMA Least ==
  ASSUME NEW T \in SUBSET Nat, T # {}
  PROVE  \E m \in T : \A k \in T : m <= k
<1> DEFINE Less == OpToRel(<, Nat)
<1>1. IsWellFoundedOn(Less, Nat)
  BY NatLessThanWellFounded
<1>2. \A i, j \in Nat : i < j => <<i, j>> \in Less
  BY DEF OpToRel
<1> HIDE DEF Less
<1>3. PICK m \in T : \A k \in T : ~ (<<k, m>> \in Less)
  BY <1>1, WFMin
<1>4. ASSUME NEW k \in T PROVE m <= k
  <2>1. m \in Nat /\ k \in Nat
    OBVIOUS
  <2>2. ~ (k < m)
    BY <1>2, <1>3, <2>1
  <2> QED
    BY <2>1, <2>2
<1> QED
  BY <1>4

\* strings.Index finds the first occurrence, if there is any.
LEMMA IndexIsFirst ==
  ASSUME NEW text \in Seq(Char), NEW old \in Seq(Char), Contains(text, old)
  PROVE  /\ Index(text, old) \in 0..Len(text)
         /\ OccursAt(old, text, Index(text, old))
         /\ \A j \in 0..Len(text) : OccursAt(old, text, j) => Index(text, old) <= j
<1> DEFINE places == {i \in 0..Len(text) : OccursAt(old, text, i)}
<1>1. places \in SUBSET Nat /\ places # {}
  BY LenProperties DEF Contains
<1>2. \E m \in places : \A k \in places : m <= k
  BY <1>1, Least
<1>3. \E i \in 0..Len(text) :
        /\ OccursAt(old, text, i)
        /\ \A j \in 0..Len(text) : OccursAt(old, text, j) => i <= j
  BY <1>2
<1> QED
  BY <1>3 DEF Index

\* A text is what is before an occurrence, the occurrence and what is behind.
LEMMA SplitAtOccurrence ==
  ASSUME NEW text \in Seq(Char), NEW old \in Seq(Char),
         NEW i \in 0..Len(text), OccursAt(old, text, i)
  PROVE  text = SubSeq(text, 1, i) \o old \o SubSeq(text, i + Len(old) + 1, Len(text))
<1>1. Len(text) \in Nat /\ Len(old) \in Nat
  BY LenProperties
<1>2. i + Len(old) <= Len(text) /\ old = SubSeq(text, i + 1, i + Len(old))
  BY DEF OccursAt
<1> DEFINE k == i + Len(old)
<1>3. /\ 1 \in 1..(Len(text) + 1) /\ i \in (1 - 1)..Len(text) /\ k \in i..Len(text)
      /\ k \in (1 - 1)..Len(text) /\ Len(text) \in k..Len(text)
  BY <1>1, <1>2
<1> HIDE DEF k
<1>4. SubSeq(text, 1, i) \o SubSeq(text, i + 1, k) = SubSeq(text, 1, k)
  BY <1>3, ConcatAdjacentSubSeq
<1>5. SubSeq(text, 1, k) \o SubSeq(text, k + 1, Len(text)) = SubSeq(text, 1, Len(text))
  BY <1>3, ConcatAdjacentSubSeq
<1>6. SubSeq(text, 1, Len(text)) = text
  BY SubSeqFull
<1> QED
  BY <1>2, <1>4, <1>5, <1>6 DEF k

\* Where a text does not occur some character differs.
LEMMA NoOccurrence ==
  ASSUME NEW text \in Seq(Char), NEW old \in Seq(Char), NEW j \in Nat,
         j + Len(old) <= Len(text), ~OccursAt(old, text, j)
  PROVE  \E k \in 1..Len(old) : text[j + k] # old[k]
<1>1. Len(text) \in Nat /\ Len(old) \in Nat
  BY LenProperties
<1> DEFINE here == SubSeq(text, j + 1, j + Len(old))
<1>2. \A i \in (j + 1)..(j + Len(old)) : text[i] \in Char
  BY <1>1, ElementOfSeq
<1>3. /\ here \in Seq(Char)
      /\ Len(here) = IF j + 1 <= j + Len(old) THEN j + Len(old) - (j + 1) + 1 ELSE 0
      /\ \A i \in 1..(j + Len(old) - (j + 1) + 1) : here[i] = text[j + 1 + i - 1]
  <2>1. j + 1 \in Int /\ j + Len(old) \in Int
    BY <1>1
  <2> QED
    BY <1>2, <2>1, SubSeqProperties
<1>4. old # here
  BY DEF OccursAt
<1> HIDE DEF here
<1>5. Len(here) = Len(old) /\ \A i \in 1..Len(old) : here[i] = text[j + i]
  <2>1. /\ Len(here) = IF j + 1 <= j + Len(old) THEN j + Len(old) - (j + 1) + 1 ELSE 0
        /\ \A i \in 1..(j + Len(old) - (j + 1) + 1) : here[i] = text[j + 1 + i - 1]
    BY <1>3
  <2>2. Len(here) = Len(old) /\ j + Len(old) - (j + 1) + 1 = Len(old)
    BY <1>1, <2>1
  <2>3. \A i \in 1..Len(old) : j + 1 + i - 1 = j + i
    BY <1>1
  <2> QED
    BY <2>1, <2>2, <2>3
<1>6. \E k \in 1..Len(old) : here[k] # old[k]
  <2> SUFFICES ASSUME \A k \in 1..Len(old) : old[k] = here[k]
               PROVE  FALSE
    OBVIOUS
  <2>1. here \in Seq(Char) /\ Len(old) = Len(here)
    BY <1>3, <1>5
  <2>2. old = here
    BY <2>1, SeqEqual
  <2> QED
    BY <1>4, <2>2
<1> QED
  BY <1>5, <1>6

\* An edit replaces the first occurrence and nothing else.
LEMMA ReplaceIsExact ==
  ASSUME NEW text \in Seq(Char), NEW o, o.old \in Seq(Char), o.new \in Seq(Char),
         Contains(text, o.old)
  PROVE  /\ Replace(text, o.old, o.new) \in Seq(Char)
         /\ FirstOccurrenceReplaced(text, Replace(text, o.old, o.new), o)
<1> DEFINE i == Index(text, o.old)
           behind == SubSeq(text, i + Len(o.old) + 1, Len(text))
<1>1. /\ i \in 0..Len(text) /\ OccursAt(o.old, text, i)
      /\ \A j \in 0..Len(text) : OccursAt(o.old, text, j) => i <= j
  BY IndexIsFirst
<1>2. Len(text) \in Nat /\ Len(o.old) \in Nat
  BY LenProperties
<1>3. i + Len(o.old) <= Len(text)
  BY <1>1 DEF OccursAt
<1>4. text = SubSeq(text, 1, i) \o o.old \o behind
  BY <1>1, SplitAtOccurrence
<1>5. Replace(text, o.old, o.new) = SubSeq(text, 1, i) \o o.new \o behind
  BY DEF Replace
<1> HIDE DEF i
<1>6. ASSUME NEW j \in 0..(i - 1)
      PROVE  \E k \in 1..Len(o.old) : text[j + k] # o.old[k]
  <2>1. j \in Nat /\ j \in 0..Len(text) /\ j + Len(o.old) <= Len(text) /\ ~(i <= j)
    BY <1>1, <1>2, <1>3
  <2>2. ~OccursAt(o.old, text, j)
    BY <1>1, <2>1
  <2> QED
    BY <2>1, <2>2, NoOccurrence
<1>7. SubSeq(text, 1, i) \in Seq(Char) /\ behind \in Seq(Char)
  <2>1. \A k \in 1..Len(text) : text[k] \in Char
    BY ElementOfSeq
  <2>2. \A k \in 1..i : text[k] \in Char
    BY <1>1, <1>2, <2>1
  <2>3. \A k \in (i + Len(o.old) + 1)..Len(text) : text[k] \in Char
    BY <1>1, <1>2, <2>1
  <2>4. 1 \in Int /\ i \in Int /\ i + Len(o.old) + 1 \in Int /\ Len(text) \in Int
    BY <1>1, <1>2
  <2> QED
    BY <2>2, <2>3, <2>4, SubSeqProperties
<1> HIDE DEF behind
<1>8. Replace(text, o.old, o.new) \in Seq(Char)
  BY <1>5, <1>7, ConcatProperties
<1>9. FirstOccurrenceReplaced(text, Replace(text, o.old, o.new), o)
  BY <1>1, <1>3, <1>4, <1>5, <1>6 DEF FirstOccurrenceReplaced, behind
<1> QED
  BY <1>8, <1>9

\* Each character after a write is the writer's, or was there before.
LEMMA OverlayProperties ==
  ASSUME NEW text \in Seq(Char), NEW new \in Seq(Char)
  PROVE  /\ Overlay(text, new) \in Seq(Char)
         /\ \A i \in 1..Len(Overlay(text, new)) :
              \/ i <= Len(new) /\ Overlay(text, new)[i] = new[i]
              \/ i <= Len(text) /\ Overlay(text, new)[i] = text[i]
         /\ text = <<>> => Overlay(text, new) = new
<1> DEFINE rest == SubSeq(text, Len(new) + 1, Len(text))
<1>1. Len(text) \in Nat /\ Len(new) \in Nat
  BY LenProperties
<1>2. /\ rest \in Seq(Char)
      /\ Len(rest) = IF Len(new) + 1 <= Len(text) THEN Len(text) - (Len(new) + 1) + 1 ELSE 0
      /\ \A i \in 1..(Len(text) - (Len(new) + 1) + 1) : rest[i] = text[Len(new) + 1 + i - 1]
  <2>1. Len(new) + 1 \in Int /\ Len(text) \in Int
    BY <1>1
  <2>2. \A i \in (Len(new) + 1)..Len(text) : text[i] \in Char
    BY <1>1, ElementOfSeq
  <2> QED
    BY <2>1, <2>2, SubSeqProperties
<1>3. Overlay(text, new) = new \o rest
  BY DEF Overlay
<1> HIDE DEF rest
<1>4. /\ new \o rest \in Seq(Char) /\ Len(new \o rest) = Len(new) + Len(rest)
      /\ \A i \in 1..(Len(new) + Len(rest)) :
           (new \o rest)[i] = IF i <= Len(new) THEN new[i] ELSE rest[i - Len(new)]
  BY <1>2, ConcatProperties
<1>5. ASSUME NEW i \in 1..(Len(new) + Len(rest)), ~(i <= Len(new))
      PROVE  i <= Len(text) /\ (new \o rest)[i] = text[i]
  <2>1. /\ Len(rest) = Len(text) - Len(new) /\ i \in Nat /\ i - Len(new) \in 1..Len(rest)
    BY <1>1, <1>2, <1>5
  <2>2. rest[i - Len(new)] = text[Len(new) + 1 + (i - Len(new)) - 1]
    BY <1>1, <1>2, <2>1
  <2>3. Len(new) + 1 + (i - Len(new)) - 1 = i /\ i <= Len(text)
    BY <1>1, <2>1
  <2> QED
    BY <1>4, <1>5, <2>2, <2>3
<1>6. ASSUME text = <<>> PROVE new \o rest = new
  <2>1. Len(rest) = 0
    BY <1>1, <1>2, <1>6
  <2>2. rest = <<>>
    BY <1>2, <2>1, EmptySeq
  <2> QED
    BY <2>2, ConcatEmptySeq
<1> QED
  BY <1>3, <1>4, <1>5, <1>6

\* What of a text has been written so far.
LEMMA Prefix ==
  ASSUME NEW text \in Seq(Char), NEW n \in 0..Len(text)
  PROVE  /\ SubSeq(text, 1, n) \in Seq(Char)
         /\ Len(SubSeq(text, 1, n)) = n
         /\ \A i \in 1..n : SubSeq(text, 1, n)[i] = text[i]
         /\ n = Len(text) => SubSeq(text, 1, n) = text
<1>1. Len(text) \in Nat
  BY LenProperties
<1>2. \A i \in 1..n : text[i] \in Char
  BY <1>1, ElementOfSeq
<1>3. 1 \in Int /\ n \in Int
  BY <1>1
<1>4. /\ SubSeq(text, 1, n) \in Seq(Char)
      /\ Len(SubSeq(text, 1, n)) = IF 1 <= n THEN n - 1 + 1 ELSE 0
      /\ \A i \in 1..(n - 1 + 1) : SubSeq(text, 1, n)[i] = text[1 + i - 1]
  BY <1>2, <1>3, SubSeqProperties
<1>5. n = Len(text) => SubSeq(text, 1, n) = text
  BY SubSeqFull
<1> QED
  BY <1>1, <1>4, <1>5
-----------------------------------------------------------------------------
(* FileExecutor: the invariant.                                            *)

Types ==
  /\ file \in Seq(Char) \cup {Absent}
  /\ pc \in [Requests -> {"idle", "read", "open", "write", "done"}]
  /\ op \in [Requests -> Ops]
  /\ buffer \in [Requests -> Seq(Char)]
  /\ answer \in [Requests -> {"none", "completed", "failed"}]
  /\ before \in [Requests -> Seq(Char)]
  /\ shared \subseteq Requests
  /\ opened \subseteq Requests

\* What request r will write, once it knows.
BufferInv(r) ==
  pc[r] \in {"open", "write"} =>
    /\ op[r].kind = "write" => buffer[r] = op[r].text
    /\ op[r].kind = "edit" => FirstOccurrenceReplaced(before[r], buffer[r], op[r])

\* The requests that have emptied the file: one that nobody has disturbed
\* since still finds it empty.
OpenInv(r) ==
  /\ pc[r] = "write" => r \in opened
  /\ r \in opened => pc[r] \in {"write", "done"}
  /\ pc[r] = "write" /\ r \notin shared => file = <<>>

IInv ==
  /\ Types
  /\ \A r \in Requests : BufferInv(r) /\ OpenInv(r)
  /\ opened # {} => file \in Seq(Char)
  /\ OnlyRequestedText

\* The initial states satisfy the invariant.
LEMMA InvInit == Init => IInv
<1> SUFFICES ASSUME Init PROVE IInv
  OBVIOUS
<1>1. Types
  BY FileAssumption, EmptySeq DEF Init, Types
<1>2. \A r \in Requests : BufferInv(r) /\ OpenInv(r)
  BY DEF Init, BufferInv, OpenInv
<1>3. opened = {}
  BY DEF Init
<1> QED
  BY <1>1, <1>2, <1>3 DEF IInv, OnlyRequestedText

-----------------------------------------------------------------------------
(* FileExecutor: each handler preserves the invariant.                     *)

\* The texts that a request brings.
LEMMA OpTypes ==
  ASSUME Types, NEW r \in Requests
  PROVE  /\ op[r].kind \in {"read", "write", "edit"}
         /\ op[r].kind = "write" => op[r].text \in Seq(Char)
         /\ op[r].kind = "edit" => op[r].old \in Seq(Char) /\ op[r].new \in Seq(Char)
<1>1. op[r] \in [kind : {"read"}] \cup [kind : {"write"}, text : Seq(Char)]
                 \cup [kind : {"edit"}, old : Seq(Char), new : Seq(Char)]
  BY FileAssumption DEF Types
<1> QED
  BY <1>1

\* A step that only answers keeps the invariant.
LEMMA AnswerStep ==
  ASSUME IInv, NEW r \in Requests, pc[r] # "write", r \notin opened,
         NEW status \in {"completed", "failed"}, Answer(r, status),
         UNCHANGED <<file, op, before, shared, opened>>,
         buffer' \in [Requests -> Seq(Char)],
         \A s \in Requests \ {r} : buffer'[s] = buffer[s]
  PROVE  IInv'
<1>1. /\ pc' = [pc EXCEPT ![r] = "done"] /\ answer' = [answer EXCEPT ![r] = status]
  BY DEF Answer
<1>2. Types'
  BY <1>1 DEF IInv, Types
<1>3. ASSUME NEW s \in Requests PROVE BufferInv(s)' /\ OpenInv(s)'
  <2>1. CASE s = r
    BY <1>1, <2>1 DEF IInv, Types, BufferInv, OpenInv
  <2>2. CASE s # r
    <3>1. pc'[s] = pc[s] /\ buffer'[s] = buffer[s]
      BY <1>1, <2>2 DEF IInv, Types
    <3> QED
      BY <3>1 DEF IInv, BufferInv, OpenInv
  <2> QED
    BY <2>1, <2>2
<1>4. \A s \in opened : s \in Requests \ {r}
  BY DEF IInv, Types
<1>5. OnlyRequestedText'
  BY <1>4 DEF IInv, OnlyRequestedText
<1> QED
  BY <1>2, <1>3, <1>5 DEF IInv

\* A request that goes on to read or to open the file.
LEMMA GoOnStep ==
  ASSUME IInv, NEW r \in Requests, NEW step \in {"read", "open"},
         pc[r] \notin {"write", "done"},
         pc' = [pc EXCEPT ![r] = step],
         UNCHANGED <<file, op, answer, shared, opened>>,
         buffer' \in [Requests -> Seq(Char)], before' \in [Requests -> Seq(Char)],
         \A s \in Requests \ {r} : buffer'[s] = buffer[s] /\ before'[s] = before[s],
         step = "open" =>
           /\ op[r].kind = "write" => buffer'[r] = op[r].text
           /\ op[r].kind = "edit" => FirstOccurrenceReplaced(before'[r], buffer'[r], op[r])
  PROVE  IInv'
<1>1. r \notin opened
  BY DEF IInv, OpenInv
<1>2. Types'
  BY DEF IInv, Types
<1>3. ASSUME NEW s \in Requests PROVE BufferInv(s)' /\ OpenInv(s)'
  <2>1. CASE s = r
    <3>1. pc'[r] = step
      BY DEF IInv, Types
    <3> QED
      BY <1>1, <2>1, <3>1 DEF BufferInv, OpenInv
  <2>2. CASE s # r
    <3>1. pc'[s] = pc[s] /\ buffer'[s] = buffer[s] /\ before'[s] = before[s]
      BY <2>2 DEF IInv, Types
    <3> QED
      BY <3>1 DEF IInv, BufferInv, OpenInv
  <2> QED
    BY <2>1, <2>2
<1>4. \A s \in opened : s \in Requests \ {r}
  BY <1>1 DEF IInv, Types
<1>5. OnlyRequestedText'
  BY <1>4 DEF IInv, OnlyRequestedText
<1> QED
  BY <1>2, <1>3, <1>5 DEF IInv

LEMMA BeginStep == ASSUME IInv, NEW r \in Requests, Begin(r) PROVE IInv'
<1>1. /\ pc[r] = "idle"
      /\ UNCHANGED <<file, op, answer, before, shared, opened>>
  BY DEF Begin
<1>2. CASE op[r].kind = "write" /\ pc' = [pc EXCEPT ![r] = "open"]
             /\ buffer' = [buffer EXCEPT ![r] = op[r].text]
  <2>1. buffer' \in [Requests -> Seq(Char)]
    BY <1>2, OpTypes DEF IInv, Types
  <2>2. /\ \A s \in Requests \ {r} : buffer'[s] = buffer[s]
        /\ buffer'[r] = op[r].text
    BY <1>2 DEF IInv, Types
  <2> QED
    BY <1>1, <1>2, <2>1, <2>2, GoOnStep DEF IInv, Types
<1>3. CASE pc' = [pc EXCEPT ![r] = "read"] /\ UNCHANGED buffer
  BY <1>1, <1>3, GoOnStep DEF IInv, Types
<1> QED
  BY <1>2, <1>3 DEF Begin

LEMMA ReadStep ==
  ASSUME IInv, NEW r \in Requests, ReadFails(r) \/ ReadText(r) \/ ReadAndReplace(r)
  PROVE  IInv'
<1>1. pc[r] = "read" /\ r \notin opened
  BY DEF ReadFails, ReadText, ReadAndReplace, IInv, OpenInv
<1>2. CASE ReadFails(r)
  BY <1>1, <1>2, AnswerStep DEF ReadFails, IInv, Types
<1>3. CASE ReadText(r)
  <2>1. /\ file \in Seq(Char) /\ buffer' = [buffer EXCEPT ![r] = file]
        /\ Answer(r, "completed") /\ UNCHANGED <<file, op, before, shared, opened>>
    BY <1>3 DEF ReadText, IInv, Types
  <2>2. /\ buffer' \in [Requests -> Seq(Char)]
        /\ \A s \in Requests \ {r} : buffer'[s] = buffer[s]
    BY <2>1 DEF IInv, Types
  <2> QED
    BY <1>1, <2>1, <2>2, AnswerStep
<1>4. CASE ReadAndReplace(r)
  <2> DEFINE new == Replace(file, op[r].old, op[r].new)
  <2>1. /\ file \in Seq(Char) /\ Contains(file, op[r].old) /\ op[r].kind = "edit"
        /\ buffer' = [buffer EXCEPT ![r] = new]
        /\ before' = [before EXCEPT ![r] = file]
        /\ pc' = [pc EXCEPT ![r] = "open"]
        /\ UNCHANGED <<file, op, answer, shared, opened>>
    BY <1>4 DEF ReadAndReplace, IInv, Types
  <2>2. op[r].old \in Seq(Char) /\ op[r].new \in Seq(Char)
    BY <2>1, OpTypes DEF IInv
  <2>3. new \in Seq(Char) /\ FirstOccurrenceReplaced(file, new, op[r])
    BY <2>1, <2>2, ReplaceIsExact
  <2> HIDE DEF new
  <2>4. /\ buffer' \in [Requests -> Seq(Char)] /\ before' \in [Requests -> Seq(Char)]
        /\ \A s \in Requests \ {r} : buffer'[s] = buffer[s] /\ before'[s] = before[s]
        /\ buffer'[r] = new /\ before'[r] = file
    BY <2>1, <2>3 DEF IInv, Types
  <2> QED
    BY <1>1, <2>1, <2>3, <2>4, GoOnStep
<1> QED
  BY <1>2, <1>3, <1>4

LEMMA OpenStep == ASSUME IInv, NEW r \in Requests, Open(r) PROVE IInv'
<1>1. /\ pc[r] = "open" /\ file' = <<>>
      /\ pc' = [pc EXCEPT ![r] = "write"]
      /\ opened' = opened \cup {r}
      /\ shared' = shared \cup (Busy \ {r})
      /\ UNCHANGED <<op, buffer, answer, before>>
  BY DEF Open
<1>2. Types'
  BY <1>1, EmptySeq DEF IInv, Types, Busy
<1>3. ASSUME NEW s \in Requests PROVE BufferInv(s)' /\ OpenInv(s)'
  <2>1. CASE s = r
    BY <1>1, <2>1 DEF IInv, Types, BufferInv, OpenInv
  <2>2. CASE s # r
    <3>1. pc'[s] = pc[s]
      BY <1>1, <2>2 DEF IInv, Types
    <3> QED
      BY <1>1, <2>2, <3>1 DEF IInv, BufferInv, OpenInv
  <2> QED
    BY <2>1, <2>2
<1>4. file' \in Seq(Char) /\ Len(file') = 0
  BY <1>1, EmptySeq
<1>5. OnlyRequestedText'
  BY <1>4 DEF OnlyRequestedText
<1> QED
  BY <1>2, <1>3, <1>4, <1>5 DEF IInv

\* What a write leaves in the file.
LEMMA Written ==
  ASSUME IInv, NEW r \in Requests, pc[r] = "write", NEW n \in 0..Len(buffer[r])
  PROVE  LET new == Overlay(file, SubSeq(buffer[r], 1, n)) IN
         /\ new \in Seq(Char)
         /\ \A i \in 1..Len(new) :
              \E s \in opened : i <= Len(buffer[s]) /\ new[i] = buffer[s][i]
         /\ r \notin shared /\ n = Len(buffer[r]) => new = buffer[r]
<1> DEFINE part == SubSeq(buffer[r], 1, n)
           new == Overlay(file, part)
<1>1. r \in opened /\ file \in Seq(Char) /\ buffer[r] \in Seq(Char)
  BY DEF IInv, OpenInv, Types
<1>2. Len(buffer[r]) \in Nat /\ Len(file) \in Nat
  BY <1>1, LenProperties
<1>3. /\ part \in Seq(Char) /\ Len(part) = n
      /\ \A i \in 1..n : part[i] = buffer[r][i]
      /\ n = Len(buffer[r]) => part = buffer[r]
  BY <1>1, Prefix
<1> HIDE DEF part
<1>4. /\ new \in Seq(Char)
      /\ \A i \in 1..Len(new) :
           \/ i <= Len(part) /\ new[i] = part[i]
           \/ i <= Len(file) /\ new[i] = file[i]
      /\ file = <<>> => new = part
  BY <1>1, <1>3, OverlayProperties
<1>5. Len(new) \in Nat
  BY <1>4, LenProperties
<1> HIDE DEF new
<1>6. ASSUME NEW i \in 1..Len(new)
      PROVE  \E s \in opened : i <= Len(buffer[s]) /\ new[i] = buffer[s][i]
  <2>1. CASE i <= Len(part) /\ new[i] = part[i]
    <3>1. i \in 1..n /\ i <= Len(buffer[r])
      BY <1>2, <1>3, <1>5, <2>1
    <3> QED
      BY <1>1, <1>3, <2>1, <3>1
  <2>2. CASE i <= Len(file) /\ new[i] = file[i]
    <3>1. i \in 1..Len(file)
      BY <1>2, <1>5, <2>2
    <3>2. OnlyRequestedText /\ opened # {}
      BY <1>1 DEF IInv
    <3> QED
      BY <2>2, <3>1, <3>2 DEF OnlyRequestedText
  <2> QED
    BY <1>4, <2>1, <2>2
<1>7. r \notin shared => file = <<>>
  BY DEF IInv, OpenInv
<1> QED
  BY <1>3, <1>4, <1>6, <1>7 DEF new, part

LEMMA WriteStep == ASSUME IInv, NEW r \in Requests, Write(r) PROVE IInv'
<1>1. PICK n \in 0..Len(buffer[r]) :
        /\ file' = Overlay(file, SubSeq(buffer[r], 1, n))
        /\ Answer(r, IF n = Len(buffer[r]) THEN "completed" ELSE "failed")
  BY DEF Write
<1>2. /\ pc[r] = "write" /\ pc' = [pc EXCEPT ![r] = "done"]
      /\ shared' = shared \cup (Busy \ {r})
      /\ UNCHANGED <<op, buffer, before, opened>>
  BY <1>1 DEF Write, Answer
<1>3. answer' \in [Requests -> {"none", "completed", "failed"}]
  BY <1>1 DEF Answer, IInv, Types
<1>4. /\ file' \in Seq(Char)
      /\ \A i \in 1..Len(file') :
           \E s \in opened : i <= Len(buffer[s]) /\ file'[i] = buffer[s][i]
  BY <1>1, <1>2, Written
<1>5. Types'
  BY <1>2, <1>3, <1>4 DEF IInv, Types, Busy
<1>6. ASSUME NEW s \in Requests PROVE BufferInv(s)' /\ OpenInv(s)'
  <2>1. CASE s = r
    BY <1>2, <2>1 DEF IInv, Types, BufferInv, OpenInv
  <2>2. CASE s # r
    <3>1. pc'[s] = pc[s]
      BY <1>2, <2>2 DEF IInv, Types
    <3>2. pc[s] = "write" => s \in shared'
      BY <1>2, <2>2 DEF Busy
    <3> QED
      BY <1>2, <3>1, <3>2 DEF IInv, BufferInv, OpenInv
  <2> QED
    BY <2>1, <2>2
<1>7. OnlyRequestedText'
  BY <1>2, <1>4 DEF OnlyRequestedText
<1> QED
  BY <1>4, <1>5, <1>6, <1>7 DEF IInv

\* The invariant holds in every reachable state.
LEMMA Invariance == Spec => []IInv
<1>1. IInv /\ [Next]_vars => IInv'
  <2> SUFFICES ASSUME IInv, [Next]_vars PROVE IInv'
    OBVIOUS
  <2>1. CASE UNCHANGED vars
    <3>1. UNCHANGED <<file, pc, op, buffer, answer, before, shared, opened>>
      BY <2>1 DEF vars
    <3> QED
      BY <3>1 DEF IInv, Types, BufferInv, OpenInv, OnlyRequestedText
  <2>2. ASSUME NEW r \in Requests, Refuse(r) \/ OpenFails(r) PROVE IInv'
    <3>1. pc[r] \in {"idle", "open"} /\ r \notin opened
      BY <2>2 DEF Refuse, OpenFails, IInv, OpenInv
    <3> QED
      BY <2>2, <3>1, AnswerStep DEF Refuse, OpenFails, IInv, Types
  <2> QED
    BY <2>1, <2>2, BeginStep, ReadStep, OpenStep, WriteStep DEF Next
<1> QED
  BY <1>1, InvInit, PTL DEF Spec

-----------------------------------------------------------------------------
\* However the requests overlap and fail, every character of the file stands
\* where one of those that opened it wants it.
THEOREM RequestedText == Spec => []OnlyRequestedText
<1>1. IInv => OnlyRequestedText
  BY DEF IInv
<1> QED
  BY <1>1, Invariance, PTL

\* A request that is answered completed and under which no other one wrote has
\* done what it was asked for: the file is the text written, or the text read
\* with its first occurrence of the old text replaced.
THEOREM UndisturbedExact == Spec => UndisturbedIsExact
<1>1. ASSUME IInv, [Next]_vars, NEW r \in Requests,
             r \notin shared', answer[r] = "none", answer'[r] = "completed"
      PROVE  /\ op[r].kind = "write" => file' = op[r].text
             /\ op[r].kind = "edit" => FirstOccurrenceReplaced(before[r], file', op[r])
  <2>1. PICK s \in Requests :
          \/ Refuse(s) \/ Begin(s)
          \/ ReadFails(s) \/ ReadText(s) \/ ReadAndReplace(s)
          \/ Open(s) \/ OpenFails(s) \/ Write(s)
    BY <1>1 DEF Next, vars
  <2>2. ReadText(r) \/ Write(r)
    BY <1>1, <2>1 DEF IInv, Types, Answer, Refuse, Begin, ReadFails, ReadText,
                      ReadAndReplace, Open, OpenFails, Write
  <2>3. CASE ReadText(r)
    BY <2>3 DEF ReadText
  <2>4. CASE Write(r)
    <3>1. PICK n \in 0..Len(buffer[r]) :
            /\ file' = Overlay(file, SubSeq(buffer[r], 1, n))
            /\ Answer(r, IF n = Len(buffer[r]) THEN "completed" ELSE "failed")
      BY <2>4 DEF Write
    <3>2. n = Len(buffer[r])
      BY <1>1, <3>1 DEF Answer, IInv, Types
    <3>3. pc[r] = "write" /\ r \notin shared
      BY <1>1, <2>4 DEF Write
    <3>4. file' = buffer[r]
      BY <1>1, <3>1, <3>2, <3>3, Written
    <3> QED
      BY <1>1, <3>3, <3>4 DEF IInv, BufferInv
  <2> QED
    BY <2>2, <2>3, <2>4
<1>2. IInv /\ [Next]_vars =>
        \A r \in Requests :
          r \notin shared' /\ answer[r] = "none" /\ answer'[r] = "completed" =>
            /\ op[r].kind = "write" => file' = op[r].text
            /\ op[r].kind = "edit" => FirstOccurrenceReplaced(before[r], file', op[r])
  BY <1>1
<1> QED
  BY <1>2, Invariance, PTL DEF Spec, UndisturbedIsExact

-----------------------------------------------------------------------------
(* LineWindow: the request.                                                *)

\* What a request is, and how long its text may be.
RequestOK ==
  /\ Len(lines) \in Nat /\ Len(lines) >= 1 /\ Len(lines) + MaxLines <= MaxInt
  /\ offset \in Numbers \cup {Nil}
  /\ limit \in Numbers \cup {Nil}

-----------------------------------------------------------------------------
(* LineWindow: the window.                                                 *)

LEMMA StartType ==
  ASSUME RequestOK
  PROVE  /\ startLine \in Nat /\ startLine <= MaxInt
         /\ offset # MinInt => startLine = From - 1
<1>1. CASE offset = Nil
  BY <1>1, WindowAssumption DEF startLine, From, MinInt
<1>2. CASE offset \in Numbers
  BY <1>2, WindowAssumption DEF startLine, From, Add, Numbers, MinInt
<1> QED
  BY <1>1, <1>2 DEF RequestOK

\* A window that can be counted.
LEMMA SliceOfCount ==
  ASSUME RequestOK, startLine < Len(lines),
         NEW count \in Nat, startLine + count <= MaxInt
  PROVE  /\ Slice(count).kind = "lines"
         /\ Slice(count).first = startLine + 1
         /\ Slice(count).last =
              IF startLine + count > Len(lines) THEN Len(lines) ELSE startLine + count
<1>1. startLine \in Nat
  BY StartType
<1>2. Add(startLine, count) = startLine + count
  BY <1>1, WindowAssumption DEF Add, MinInt
<1>3. endLine(count) = IF startLine + count > Len(lines) THEN Len(lines) ELSE startLine + count
  BY <1>2 DEF endLine
<1>4. endLine(count) >= startLine /\ endLine(count) <= Len(lines)
  BY <1>1, <1>3 DEF RequestOK
<1>5. Slice(count) = [kind |-> "lines", first |-> startLine + 1, last |-> endLine(count)]
  BY <1>1, <1>3, <1>4 DEF Slice, RequestOK
<1> QED
  BY <1>3, <1>5

\* A window that cannot.
LEMMA SliceOfBadCount ==
  ASSUME RequestOK, startLine < Len(lines),
         NEW count \in Numbers, count < 0 \/ startLine + count > MaxInt
  PROVE  Slice(count) = [kind |-> "panic"]
<1>1. startLine \in Nat /\ startLine <= MaxInt
  BY StartType
<1>2. Add(startLine, count) < startLine /\ Add(startLine, count) \in Int
  BY <1>1, WindowAssumption DEF Add, MinInt, Numbers
<1>3. endLine(count) = Add(startLine, count)
  BY <1>1, <1>2 DEF endLine, RequestOK
<1> QED
  BY <1>2, <1>3, <1>1 DEF Slice, RequestOK

-----------------------------------------------------------------------------
(* LineWindow: the handlers.                                               *)

LEMMA ReadReply ==
  ASSUME RequestOK, Read
  PROVE  /\ reply'.from = "read" /\ reply'.kind \in {"panic", "lines"}
         /\ reply'.kind = "panic" <=>
              limit # Nil /\ limit < 0 /\ startLine < Len(lines)
         /\ reply'.kind = "lines" =>
              reply'.slice = IF startLine >= Len(lines) THEN Nothing ELSE Slice(ReadLimit)
<1> USE DEF RequestOK
<1>1. startLine \in Nat /\ startLine <= MaxInt
  BY StartType
<1>2. CASE startLine >= Len(lines)
  <2>1. reply' = [from |-> "read", slice |-> Nothing, kind |-> "lines",
                  chars |-> 0, truncated |-> FALSE]
    BY <1>2 DEF Read
  <2> QED
    BY <1>1, <1>2, <2>1
<1>3. CASE startLine < Len(lines) /\ limit # Nil /\ limit < 0
  <2>1. ReadLimit = limit /\ limit \in Numbers
    BY <1>3, WindowAssumption DEF ReadLimit, Numbers, MinInt
  <2>2. Slice(ReadLimit).kind = "panic"
    BY <1>3, <2>1, SliceOfBadCount
  <2>3. reply' = [from |-> "read", kind |-> "panic"]
    BY <1>1, <1>3, <2>2 DEF Read
  <2> QED
    BY <1>3, <2>3
<1>4. CASE startLine < Len(lines) /\ ~(limit # Nil /\ limit < 0)
  <2>1. ReadLimit \in Nat /\ ReadLimit <= MaxLines
    BY <1>4, WindowAssumption DEF ReadLimit, Numbers, MinInt
  <2>2. startLine + ReadLimit <= MaxInt
    BY <1>1, <1>4, <2>1, WindowAssumption
  <2>3. Slice(ReadLimit).kind = "lines"
    BY <1>4, <2>1, <2>2, SliceOfCount
  <2>4. /\ reply'.from = "read" /\ reply'.kind = "lines"
        /\ reply'.slice = Slice(ReadLimit)
    BY <1>1, <1>4, <2>3 DEF Read
  <2> QED
    BY <1>1, <1>4, <2>4
<1> QED
  BY <1>1, <1>2, <1>3, <1>4

LEMMA LogReply ==
  ASSUME RequestOK, Log
  PROVE  /\ reply'.from = "log" /\ reply'.kind \in {"panic", "lines"}
         /\ reply'.kind = "panic" <=>
              /\ limit # Nil /\ (limit < 0 \/ startLine + limit > MaxInt)
              /\ startLine < Len(lines)
         /\ reply'.kind = "lines" =>
              reply'.slice = IF startLine >= Len(lines) THEN Nothing ELSE Slice(LogLimit)
<1> USE DEF RequestOK
<1> DEFINE slice == IF startLine >= Len(lines) THEN Nothing ELSE Slice(LogLimit)
<1>1. startLine \in Nat /\ startLine <= MaxInt
  BY StartType
<1>2. reply' = IF slice.kind = "panic" THEN [from |-> "log", kind |-> "panic"]
               ELSE [from |-> "log", slice |-> slice, kind |-> "lines",
                     chars |-> Chars(slice), truncated |-> FALSE]
  BY DEF Log
<1>3. /\ reply'.from = "log" /\ reply'.kind \in {"panic", "lines"}
      /\ reply'.kind = "panic" <=> slice.kind = "panic"
      /\ reply'.kind = "lines" => reply'.slice = slice
  <2> HIDE DEF slice
  <2> QED
    BY <1>2
<1>4. CASE startLine >= Len(lines)
  BY <1>1, <1>3, <1>4 DEF Nothing
<1>5. CASE startLine < Len(lines) /\ limit # Nil /\ (limit < 0 \/ startLine + limit > MaxInt)
  <2>1. LogLimit = limit /\ limit \in Numbers
    BY <1>5 DEF LogLimit
  <2>2. slice = [kind |-> "panic"]
    BY <1>1, <1>5, <2>1, SliceOfBadCount
  <2> QED
    BY <1>3, <1>5, <2>2
<1>6. CASE startLine < Len(lines) /\ ~(limit # Nil /\ (limit < 0 \/ startLine + limit > MaxInt))
  <2>1. LogLimit \in Nat /\ startLine + LogLimit <= MaxInt
    <3>1. CASE limit = Nil
      BY <1>1, <1>6, <3>1, WindowAssumption DEF LogLimit
    <3>2. CASE limit # Nil
      BY <1>1, <1>6, <3>2, WindowAssumption DEF LogLimit, Numbers, MinInt
    <3> QED
      BY <3>1, <3>2
  <2>2. slice.kind = "lines"
    BY <1>1, <1>6, <2>1, SliceOfCount
  <2> QED
    BY <1>1, <1>3, <1>6, <2>2
<1> QED
  BY <1>1, <1>4, <1>5, <1>6

-----------------------------------------------------------------------------
(* LineWindow: the invariant.                                              *)

\* The inductive invariant: a request stays as it is, and what was replied
\* fits it.
WindowInv == RequestOK /\ PanicsOnlyOnBadLimit /\ RepliesWithAskedLines

LEMMA WindowInit == Ask => WindowInv
<1> SUFFICES ASSUME Ask PROVE WindowInv
  OBVIOUS
<1>1. Len(lines) \in 1..(MaxInt - MaxLines)
  BY WindowAssumption DEF Ask
<1>2. RequestOK
  BY <1>1, WindowAssumption DEF Ask, RequestOK
<1>3. reply.kind = "none"
  BY DEF Ask
<1> QED
  BY <1>2, <1>3 DEF WindowInv, PanicsOnlyOnBadLimit, RepliesWithAskedLines

\* The window of count lines is what was asked for.
LEMMA WindowIsAsked ==
  ASSUME RequestOK, offset # MinInt, startLine < Len(lines),
         NEW count \in Nat, startLine + count <= MaxInt
  PROVE  Slice(count).first..Slice(count).last =
           {n \in 1..Len(lines) : n >= From /\ n < From + count}
<1>1. startLine \in Nat /\ startLine = From - 1 /\ From \in Nat
  BY StartType, WindowAssumption DEF From, RequestOK, Numbers, MinInt
<1>2. /\ Slice(count).first = From
      /\ Slice(count).last =
           IF startLine + count > Len(lines) THEN Len(lines) ELSE startLine + count
  BY <1>1, SliceOfCount
<1> QED
  BY <1>1, <1>2 DEF RequestOK

LEMMA NoneAsked ==
  ASSUME RequestOK, offset # MinInt, startLine >= Len(lines)
  PROVE  Asked = {} /\ Nothing.first..Nothing.last = {}
<1>1. startLine \in Nat /\ startLine = From - 1 /\ From \in Nat
  BY StartType, WindowAssumption DEF From, RequestOK, Numbers, MinInt
<1>2. Asked = {}
  BY <1>1 DEF Asked, RequestOK
<1> QED
  BY <1>2 DEF Nothing

LEMMA ReadKeepsInv == ASSUME WindowInv, Read PROVE WindowInv'
<1>1. RequestOK /\ RequestOK'
  BY DEF WindowInv, RequestOK, Read
<1>2. /\ startLine' = startLine /\ From' = From /\ Asked' = Asked
      /\ lines' = lines /\ limit' = limit /\ offset' = offset
  BY DEF Read, startLine, From, Asked
<1>3. reply'.from = "read"
  BY <1>1, ReadReply
<1>4. startLine \in Nat
  BY <1>1, StartType
<1>5. PanicsOnlyOnBadLimit'
  BY <1>1, <1>2, <1>3, <1>4, ReadReply DEF PanicsOnlyOnBadLimit, EndOverflows, RequestOK
<1>6. RepliesWithAskedLines'
  <2> SUFFICES ASSUME reply'.kind = "lines", offset # MinInt
               PROVE  reply'.slice.first..reply'.slice.last =
                        {n \in Asked : \A m \in Asked : n < m + MaxLines}
    BY <1>2, <1>3 DEF RepliesWithAskedLines
  <2>1. CASE startLine >= Len(lines)
    BY <1>1, <2>1, ReadReply, NoneAsked
  <2>2. CASE startLine < Len(lines)
    <3>1. ~(limit # Nil /\ limit < 0) /\ reply'.slice = Slice(ReadLimit)
      BY <1>1, <1>4, <2>2, ReadReply DEF RequestOK
    <3>2. ReadLimit \in Nat /\ ReadLimit <= MaxLines
      BY <1>1, <3>1, WindowAssumption DEF ReadLimit, RequestOK, Numbers, MinInt
    <3>3. startLine + ReadLimit <= MaxInt
      BY <1>1, <1>4, <2>2, <3>2, WindowAssumption DEF RequestOK
    <3>4. reply'.slice.first..reply'.slice.last =
            {n \in 1..Len(lines) : n >= From /\ n < From + ReadLimit}
      BY <1>1, <2>2, <3>1, <3>2, <3>3, WindowIsAsked
    <3>5. From \in Nat /\ From <= Len(lines)
      BY <1>1, <1>4, <2>2, StartType, WindowAssumption DEF From, RequestOK, Numbers, MinInt
    <3>6. {n \in Asked : \A m \in Asked : n < m + MaxLines}
            = {n \in Asked : n < From + MaxLines}
      <4>1. ASSUME NEW n \in Asked, n < From + MaxLines, NEW m \in Asked
            PROVE  n < m + MaxLines
        BY <3>5, <4>1, WindowAssumption DEF Asked
      <4>2. ASSUME NEW n \in Asked, \A m \in Asked : n < m + MaxLines
            PROVE  n < From + MaxLines
        <5>1. n \in Nat /\ n >= From /\ (limit # Nil => n < From + limit)
          BY <1>1, <4>2 DEF Asked, RequestOK
        <5>2. limit = Nil \/ limit \in Int
          BY <1>1, WindowAssumption DEF RequestOK, Numbers, MinInt
        <5>3. From \in 1..Len(lines)
          BY <1>1, <3>5, WindowAssumption DEF From, RequestOK, Numbers, MinInt
        <5>4. From \in Asked
          <6>1. limit # Nil => From < From + limit
            BY <3>5, <5>1, <5>2
          <6> QED
            BY <3>5, <5>3, <6>1 DEF Asked
        <5> QED
          BY <4>2, <5>4
      <4> QED
        BY <4>1, <4>2
    <3>7. {n \in Asked : n < From + MaxLines}
            = {n \in 1..Len(lines) : n >= From /\ n < From + ReadLimit}
      <4>1. CASE limit = Nil
        BY <3>5, <4>1 DEF Asked, ReadLimit
      <4>2. CASE limit # Nil
        <5>1. limit \in Int
          BY <1>1, <4>2, WindowAssumption DEF RequestOK, Numbers, MinInt
        <5> QED
          BY <1>1, <3>5, <4>2, <5>1, WindowAssumption DEF Asked, ReadLimit, RequestOK
      <4> QED
        BY <4>1, <4>2
    <3> QED
      BY <3>4, <3>6, <3>7
  <2> QED
    BY <1>1, <1>4, <2>1, <2>2 DEF RequestOK
<1> QED
  BY <1>1, <1>5, <1>6 DEF WindowInv

LEMMA LogKeepsInv == ASSUME WindowInv, Log PROVE WindowInv'
<1>1. RequestOK /\ RequestOK'
  BY DEF WindowInv, RequestOK, Log
<1>2. /\ startLine' = startLine /\ From' = From /\ Asked' = Asked
      /\ lines' = lines /\ limit' = limit /\ offset' = offset
  BY DEF Log, startLine, From, Asked
<1>3. reply'.from = "log"
  BY <1>1, LogReply
<1>4. startLine \in Nat
  BY <1>1, StartType
<1>5. PanicsOnlyOnBadLimit'
  BY <1>1, <1>2, <1>3, <1>4, LogReply DEF PanicsOnlyOnBadLimit, EndOverflows, RequestOK
<1>6. RepliesWithAskedLines'
  <2> SUFFICES ASSUME reply'.kind = "lines", offset # MinInt,
                      ~(limit # Nil /\ startLine + limit > MaxInt)
               PROVE  reply'.slice.first..reply'.slice.last = Asked
    BY <1>2, <1>3 DEF RepliesWithAskedLines, EndOverflows
  <2>1. CASE startLine >= Len(lines)
    BY <1>1, <2>1, LogReply, NoneAsked
  <2>2. CASE startLine < Len(lines)
    <3>1. ~(limit # Nil /\ limit < 0) /\ reply'.slice = Slice(LogLimit)
      BY <1>1, <1>4, <2>2, LogReply DEF RequestOK
    <3>2. CASE limit = Nil
      <4>1. LogLimit \in Nat /\ startLine + LogLimit = Len(lines)
        BY <1>1, <1>4, <2>2, <3>2 DEF LogLimit, RequestOK
      <4>2. startLine + LogLimit <= MaxInt
        BY <1>1, <4>1, WindowAssumption DEF RequestOK
      <4>3. reply'.slice.first..reply'.slice.last =
              {n \in 1..Len(lines) : n >= From /\ n < From + LogLimit}
        BY <1>1, <2>2, <3>1, <4>1, <4>2, WindowIsAsked
      <4>4. From \in Nat /\ From + LogLimit = Len(lines) + 1
        BY <1>1, <1>4, <4>1, StartType, WindowAssumption DEF From, RequestOK, Numbers, MinInt
      <4> QED
        BY <1>1, <3>2, <4>3, <4>4 DEF Asked, RequestOK
    <3>3. CASE limit # Nil
      <4>1. LogLimit = limit /\ limit \in Nat
        BY <1>1, <3>1, <3>3, WindowAssumption DEF LogLimit, RequestOK, Numbers, MinInt
      <4>2. startLine + LogLimit <= MaxInt
        BY <1>4, <3>3, <4>1, WindowAssumption
      <4>3. reply'.slice.first..reply'.slice.last =
              {n \in 1..Len(lines) : n >= From /\ n < From + limit}
        BY <1>1, <2>2, <3>1, <4>1, <4>2, WindowIsAsked
      <4> QED
        BY <3>3, <4>3 DEF Asked
    <3> QED
      BY <3>2, <3>3
  <2> QED
    BY <1>1, <1>4, <2>1, <2>2 DEF RequestOK
<1> QED
  BY <1>1, <1>5, <1>6 DEF WindowInv

LEMMA StutterKeepsInv == ASSUME WindowInv, UNCHANGED window PROVE WindowInv'
<1>1. UNCHANGED <<lines, offset, limit, reply>>
  BY DEF window
<1> QED
  BY <1>1 DEF WindowInv, RequestOK, PanicsOnlyOnBadLimit, RepliesWithAskedLines,
              EndOverflows, startLine, From, Asked

LEMMA WindowInvariance == WindowSpec => []WindowInv
<1>1. WindowInv /\ [Reply]_window => WindowInv'
  BY ReadKeepsInv, LogKeepsInv, StutterKeepsInv DEF Reply
<1> QED
  BY <1>1, WindowInit, PTL DEF WindowSpec

(***************************************************************************)
(* A request with no negative limit, and none near the largest int, never  *)
(* makes the handlers slice out of bounds.                                 *)
(***************************************************************************)
THEOREM PanicsOnBadLimit == WindowSpec => []PanicsOnlyOnBadLimit
<1>1. WindowInv => PanicsOnlyOnBadLimit
  BY DEF WindowInv
<1> QED
  BY <1>1, WindowInvariance, PTL

(***************************************************************************)
(* Read and log reply with the lines asked for.                            *)
(***************************************************************************)
THEOREM AskedLines == WindowSpec => []RepliesWithAskedLines
<1>1. WindowInv => RepliesWithAskedLines
  BY DEF WindowInv
<1> QED
  BY <1>1, WindowInvariance, PTL

-----------------------------------------------------------------------------
(* Truncation. The sum of the lengths, Size, is never taken apart: Read    *)
(* takes it of the whole rest of the text or says that it did not.         *)

\* A read of lines from the text, that it does not call truncated.
LEMMA UntruncatedRead ==
  ASSUME RequestOK, Read, reply'.kind = "lines", ~reply'.truncated, offset # MinInt
  PROVE  reply'.chars = Size(lines, From, Len(lines))
<1>1. startLine \in Nat /\ startLine = From - 1 /\ From \in Nat
  BY StartType, WindowAssumption DEF From, RequestOK, Numbers, MinInt
<1>2. CASE startLine >= Len(lines)
  <2>1. reply'.chars = 0
    BY <1>2 DEF Read
  <2>2. Len(lines) < From
    BY <1>1, <1>2 DEF RequestOK
  <2> QED
    BY <2>1, <2>2 DEF Size
<1>3. CASE startLine < Len(lines)
  <2> DEFINE slice == Slice(ReadLimit)
  <2>1. ~(startLine >= Len(lines))
    BY <1>1, <1>3 DEF RequestOK
  <2>2. slice.kind # "panic"
    BY <1>3, <2>1 DEF Read
  <2>3. /\ reply'.chars = IF Chars(slice) > MaxFileSize THEN MaxFileSize ELSE Chars(slice)
        /\ reply'.truncated = Truncated(slice)
    <3> HIDE DEF slice
    <3>1. reply' = [from |-> "read", slice |-> slice, kind |-> "lines",
                    chars |-> IF Chars(slice) > MaxFileSize THEN MaxFileSize ELSE Chars(slice),
                    truncated |-> Truncated(slice)]
      BY <2>1, <2>2 DEF Read, slice
    <3> QED
      BY <3>1
  <2>4. ~(slice.last < Len(lines)) /\ reply'.chars = Chars(slice)
    BY <2>3 DEF Truncated
  <2>5. ~(limit # Nil /\ limit < 0)
    BY <1>3, ReadReply
  <2>6. ReadLimit \in Nat /\ startLine + ReadLimit <= MaxInt
    BY <1>1, <1>3, <2>5, WindowAssumption DEF ReadLimit, RequestOK, Numbers, MinInt
  <2>7. /\ slice.first = startLine + 1
        /\ slice.last = IF startLine + ReadLimit > Len(lines) THEN Len(lines) ELSE startLine + ReadLimit
    BY <1>3, <2>6, SliceOfCount
  <2> HIDE DEF slice
  <2>8. slice.first = From /\ slice.last = Len(lines)
    BY <1>1, <2>4, <2>6, <2>7 DEF RequestOK
  <2> QED
    BY <2>4, <2>8 DEF Chars
<1> QED
  BY <1>1, <1>2, <1>3 DEF RequestOK

(***************************************************************************)
(* What Read does not call truncated reaches to the end of the file.       *)
(***************************************************************************)
THEOREM UntruncatedIsWhole == WindowSpec => []UntruncatedReachesEnd
<1>1. Ask => UntruncatedReachesEnd
  BY DEF Ask, UntruncatedReachesEnd
<1>2. RequestOK /\ UntruncatedReachesEnd /\ [Reply]_window => UntruncatedReachesEnd'
  <2> SUFFICES ASSUME RequestOK, UntruncatedReachesEnd, [Reply]_window
               PROVE  UntruncatedReachesEnd'
    OBVIOUS
  <2>1. UNCHANGED <<lines, offset, limit>>
    BY DEF Reply, Read, Log, window
  <2>2. From' = From /\ Len(lines)' = Len(lines)
    BY <2>1 DEF From
  <2>3. Size(lines, From, Len(lines))' = Size(lines, From, Len(lines))
    BY <2>1, <2>2
  <2>4. CASE Read
    BY <2>1, <2>3, <2>4, UntruncatedRead DEF UntruncatedReachesEnd
  <2>5. CASE Log
    BY <2>5, LogReply DEF UntruncatedReachesEnd
  <2>6. CASE UNCHANGED window
    BY <2>3, <2>6 DEF UntruncatedReachesEnd, window
  <2> QED
    BY <2>4, <2>5, <2>6 DEF Reply
<1>3. WindowInv => RequestOK
  BY DEF WindowInv
<1> QED
  BY <1>1, <1>2, <1>3, WindowInvariance, PTL DEF WindowSpec
==============================================================================
