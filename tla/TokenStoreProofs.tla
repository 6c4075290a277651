--------------------------- MODULE TokenStoreProofs ---------------------------
(***************************************************************************)
(* Proofs about TokenStore, for any number of rotations.                   *)
(***************************************************************************)
EXTENDS TokenStore, TLAPS

-----------------------------------------------------------------------------
(* The inductive invariant.                                                *)

\* A token of the file is the last one persisted; without a file there is none.
FileInv ==
  /\ file \in Tokens => file = persisted
  /\ file = Absent => persisted = 0
  /\ ~UseFile => file = Absent /\ writing = {}

\* There is one writer at most; it writes the token of the memory, which is
\* newer than any that was persisted.
WriterInv ==
  \A w \in writing :
    /\ writing = {w}
    /\ main = "up"
    /\ w.token = memory
    /\ persisted < w.token

\* What is on its way is newer still, and in the order of its issue.
InflightInv ==
  /\ inflight # <<>> => main = "up"
  /\ conn => main = "up"
  /\ persisted <= issued
  /\ main = "up" => memory \in Tokens \cup {Prefix}
  /\ main = "up" /\ memory \in Tokens => memory <= issued
  /\ \A i \in 1..Len(inflight) :
       /\ memory \in Tokens => memory < inflight[i]
       /\ persisted < inflight[i] /\ inflight[i] <= issued
       /\ \A j \in 1..Len(inflight) : i < j => inflight[i] < inflight[j]

IInv == TypeOK /\ FileInv /\ WriterInv /\ InflightInv /\ NewestUnlessTornOrUnread

-----------------------------------------------------------------------------
\* What is not a token.
LEMMA NotTokens ==
  /\ Absent \notin Tokens /\ Empty \notin Tokens /\ Prefix \notin Tokens /\ NoToken \notin Tokens
  /\ Absent # Empty /\ Prefix # Absent /\ MaxToken \in Nat /\ 0 \in Tokens
<1>1. Absent \notin Nat /\ Empty \notin Nat /\ Prefix \notin Nat /\ NoToken \notin Nat
  BY TokenAssumption
<1>2. Tokens \subseteq Nat
  BY DEF Tokens
<1> QED
  BY <1>1, <1>2, TokenAssumption DEF Tokens

\* Nothing was issued and nothing written.
LEMMA InvInit == Init => IInv
<1> SUFFICES ASSUME Init PROVE IInv
  OBVIOUS
<1>1. TypeOK
  <2>1. << >> \in Seq(Tokens) /\ {} \subseteq Write
    OBVIOUS
  <2>2. conn \in BOOLEAN
    BY DEF Init
  <2> QED
    BY <2>1, <2>2, NotTokens DEF Init, TypeOK
<1>2. FileInv /\ WriterInv /\ NewestUnlessTornOrUnread
  BY NotTokens DEF Init, FileInv, WriterInv, NewestUnlessTornOrUnread
<1>3. InflightInv
  BY DEF Init, InflightInv
<1> QED
  BY <1>1, <1>2, <1>3 DEF IInv

\* Every step keeps the parts of the invariant together.
LEMMA InvNext == ASSUME IInv, [Next]_vars PROVE IInv'
<1>1. CASE Start
  <2>1. /\ main' = "up" /\ inflight' = inflight /\ conn' = conn /\ writing' = writing
        /\ file' = file /\ persisted' = persisted /\ issued' = issued
    BY <1>1 DEF Start
  <2>2. \/ memory' = (IF UseFile /\ file \in Tokens \cup {Prefix} THEN file ELSE 0) /\ unread' = FALSE
        \/ memory' = 0 /\ unread' = TRUE
    BY <1>1 DEF Start
  <2>3. writing = {} /\ inflight = <<>> /\ ~conn
    BY <1>1 DEF Start, IInv, WriterInv, InflightInv, TypeOK
  <2>4. memory' \in Tokens \cup {Prefix} /\ unread' \in BOOLEAN
    BY <2>2, NotTokens
  <2>5. TypeOK' /\ FileInv' /\ WriterInv'
    BY <2>1, <2>3, <2>4, NotTokens DEF IInv, TypeOK, FileInv, WriterInv
  <2>6. memory' \in Tokens => memory' <= issued
    <3>1. memory' \in Tokens => memory' = 0 \/ memory' = persisted
      BY <2>2, NotTokens DEF IInv, FileInv
    <3>2. persisted <= issued /\ 0 <= issued
      BY TokenAssumption DEF IInv, InflightInv, TypeOK, Tokens
    <3> QED
      BY <3>1, <3>2
  <2>7. InflightInv'
    BY <2>1, <2>3, <2>4, <2>6 DEF IInv, InflightInv
  <2>8. NewestUnlessTornOrUnread'
    <3>1. CASE file \in Tokens /\ ~unread'
      <4>1. UseFile
        BY <3>1, NotTokens DEF IInv, FileInv
      <4>2. memory' = persisted
        BY <2>2, <3>1, <4>1 DEF IInv, FileInv
      <4>3. persisted \in Tokens /\ persisted >= persisted
        BY TokenAssumption DEF IInv, TypeOK, Tokens
      <4> QED
        BY <2>1, <4>2, <4>3 DEF NewestUnlessTornOrUnread
    <3>2. CASE file = Absent /\ ~unread'
      <4>1. memory' = 0 /\ persisted = 0
        BY <2>2, <3>2, NotTokens DEF IInv, FileInv
      <4> QED
        BY <2>1, <4>1, NotTokens DEF NewestUnlessTornOrUnread
    <3>3. CASE file \in {Empty, Prefix} \/ unread'
      BY <2>1, <3>3 DEF NewestUnlessTornOrUnread
    <3> QED
      BY <3>1, <3>2, <3>3 DEF IInv, TypeOK
  <2> QED
    BY <2>5, <2>7, <2>8 DEF IInv
<1>2. CASE Connect \/ LoseConnection \/ Crash
  <2>1. /\ file' = file /\ persisted' = persisted /\ issued' = issued
        /\ memory' \in {memory, NoToken} /\ conn' \in BOOLEAN
        /\ inflight' = inflight \/ inflight' = <<>>
        /\ writing' = writing \/ writing' = {}
        /\ unread' \in BOOLEAN
    BY <1>2 DEF Connect, LoseConnection, Crash, IInv, TypeOK
  <2>2. \/ main' = main /\ memory' = memory /\ unread' = unread
        \/ main' = "down" /\ inflight' = <<>> /\ writing' = {} /\ conn' = FALSE
    BY <1>2 DEF Connect, LoseConnection, Crash
  <2>3. conn' => main = "up"
    BY <1>2 DEF Connect, LoseConnection, Crash, IInv, InflightInv
  <2>4. TypeOK'
    <3>1. << >> \in Seq(Tokens) /\ {} \subseteq Write
      OBVIOUS
    <3> QED
      BY <2>1, <2>2, <3>1 DEF IInv, TypeOK
  <2>5. FileInv' /\ NewestUnlessTornOrUnread'
    BY <2>1, <2>2 DEF IInv, FileInv, NewestUnlessTornOrUnread
  <2>6. WriterInv'
    BY <2>1, <2>2 DEF IInv, WriterInv
  <2>7. InflightInv'
    BY <2>1, <2>2, <2>3 DEF IInv, InflightInv
  <2> QED
    BY <2>4, <2>5, <2>6, <2>7 DEF IInv
<1>3. CASE Rotate
  <2>1. /\ issued' = issued + 1 /\ inflight' = Append(inflight, issued + 1) /\ issued + 1 \in Tokens
        /\ UNCHANGED <<file, main, memory, conn, writing, unread, persisted>>
    BY <1>3, NotTokens DEF Rotate, IInv, TypeOK, Tokens
  <2>2. main = "up" /\ persisted \in Nat /\ issued \in Nat /\ \A m \in Tokens : m \in Nat
    BY <1>3 DEF Rotate, IInv, InflightInv, TypeOK, Tokens
  <2>3. inflight \in Seq(Tokens) /\ \A k \in 1..Len(inflight) : inflight[k] \in Nat
    <3>1. inflight \in Seq(Tokens)
      BY DEF IInv, TypeOK
    <3>2. \A k \in 1..Len(inflight) : inflight[k] \in Tokens
      BY <3>1
    <3>3. \A n \in Tokens : n \in Nat
      BY DEF Tokens
    <3> QED
      BY <3>1, <3>2, <3>3
  <2>4. /\ Len(inflight') = Len(inflight) + 1 /\ inflight'[Len(inflight) + 1] = issued + 1
        /\ \A k \in 1..Len(inflight) : inflight'[k] = inflight[k]
    BY <2>1, <2>3
  <2>5. TypeOK' /\ FileInv' /\ WriterInv' /\ NewestUnlessTornOrUnread'
    BY <2>1, <2>3 DEF IInv, TypeOK, FileInv, WriterInv, NewestUnlessTornOrUnread
  <2>6. ASSUME NEW k \in 1..Len(inflight')
        PROVE  /\ memory \in Tokens => memory < inflight'[k]
               /\ persisted < inflight'[k] /\ inflight'[k] <= issued + 1
               /\ \A n \in 1..Len(inflight') : k < n => inflight'[k] < inflight'[n]
    <3>1. CASE k = Len(inflight) + 1
      <4>1. memory \in Tokens => memory \in Nat /\ memory <= issued
        BY <2>2 DEF IInv, InflightInv
      <4> QED
        BY <2>2, <2>3, <2>4, <3>1, <4>1 DEF IInv, InflightInv
    <3>2. CASE k \in 1..Len(inflight)
      <4>1. inflight'[k] = inflight[k] /\ inflight[k] \in Nat
        BY <2>3, <2>4, <3>2
      <4>2. /\ memory \in Tokens => memory < inflight[k]
            /\ persisted < inflight[k] /\ inflight[k] <= issued
            /\ \A n \in 1..Len(inflight) : k < n => inflight[k] < inflight[n]
        BY <3>2 DEF IInv, InflightInv
      <4> QED
        BY <2>2, <2>3, <2>4, <4>1, <4>2
    <3> QED
      BY <2>3, <2>4, <3>1, <3>2
  <2>7. InflightInv'
    BY <2>1, <2>2, <2>6 DEF IInv, InflightInv
  <2> QED
    BY <2>5, <2>7 DEF IInv
<1>4. CASE HandleTokenRotated
  <2>1. /\ memory' = Head(inflight) /\ unread' = FALSE /\ inflight' = Tail(inflight) /\ inflight # <<>> /\ main = "up"
        /\ writing' = IF UseFile THEN {[token |-> Head(inflight), step |-> "open"]} ELSE {}
        /\ UNCHANGED <<file, main, conn, issued, persisted>>
    BY <1>4 DEF HandleTokenRotated, IInv, InflightInv
  <2>2. inflight \in Seq(Tokens) /\ Len(inflight) \in Nat /\ Len(inflight) >= 1
    BY <2>1 DEF IInv, TypeOK
  <2>3. Head(inflight) = inflight[1] /\ inflight[1] \in Tokens /\ Tail(inflight) \in Seq(Tokens)
    BY <2>1, <2>2
  <2>4. /\ Len(inflight') = Len(inflight) - 1
        /\ \A k \in 1..Len(inflight') : inflight'[k] = inflight[k + 1]
    BY <2>1, <2>2
  <2>5. persisted < inflight[1] /\ inflight[1] <= issued
    BY <2>2 DEF IInv, InflightInv
  <2>6. TypeOK' /\ FileInv'
    <3>1. writing' \subseteq Write /\ unread' \in BOOLEAN
      <4>1. Head(inflight) \in Tokens
        BY <2>3
      <4>2. ASSUME NEW n \in Tokens PROVE [token |-> n, step |-> "open"] \in Write
        BY DEF Write
      <4> QED
        BY <2>1, <4>1, <4>2, Zenon
    <3>2. memory' \in Tokens \cup {Prefix, NoToken} /\ inflight' \in Seq(Tokens)
      BY <2>1, <2>3, Zenon
    <3>3. TypeOK'
      <4>1. /\ file' \in Tokens \cup {Absent, Empty, Prefix} /\ main' \in {"up", "down"}
            /\ conn' \in BOOLEAN /\ issued' \in Tokens /\ persisted' \in Tokens
        BY <2>1 DEF IInv, TypeOK
      <4> QED
        BY <3>1, <3>2, <4>1 DEF TypeOK
    <3>4. FileInv'
      BY <2>1 DEF IInv, FileInv
    <3> QED
      BY <3>3, <3>4
  <2>7. WriterInv'
    BY <2>1, <2>3, <2>5 DEF WriterInv
  <2>8. ASSUME NEW k \in 1..Len(inflight')
        PROVE  /\ inflight[1] < inflight'[k] /\ persisted < inflight'[k] /\ inflight'[k] <= issued
               /\ \A n \in 1..Len(inflight') : k < n => inflight'[k] < inflight'[n]
    <3>1. /\ k \in Nat /\ k + 1 \in 1..Len(inflight) /\ 1 \in 1..Len(inflight) /\ 1 < k + 1
          /\ inflight'[k] = inflight[k + 1]
      BY <2>2, <2>4
    <3>2. inflight[1] < inflight[k + 1] /\ persisted < inflight[k + 1] /\ inflight[k + 1] <= issued
      BY <3>1 DEF IInv, InflightInv
    <3>3. ASSUME NEW n \in 1..Len(inflight'), k < n PROVE inflight'[k] < inflight'[n]
      <4>1. n + 1 \in 1..Len(inflight) /\ k + 1 < n + 1 /\ inflight'[n] = inflight[n + 1]
        BY <2>2, <2>4, <3>1, <3>3
      <4> QED
        BY <3>1, <4>1 DEF IInv, InflightInv
    <3> QED
      BY <3>1, <3>2, <3>3
  <2>9. InflightInv'
    BY <2>1, <2>3, <2>5, <2>8 DEF IInv, InflightInv
  <2>10. NewestUnlessTornOrUnread'
    BY <2>1, <2>3, <2>5 DEF IInv, TypeOK, Tokens, NewestUnlessTornOrUnread
  <2> QED
    BY <2>6, <2>7, <2>9, <2>10 DEF IInv
<1>5. ASSUME NEW w \in writing, Truncate(w) PROVE IInv'
  <2>1. writing = {w} /\ w \in Write /\ main = "up" /\ w.token = memory /\ persisted < w.token
    BY DEF IInv, TypeOK, WriterInv
  <2>2. /\ UNCHANGED <<main, memory, conn, inflight, unread, issued, persisted>>
        /\ \/ file' = Empty /\ writing' = {[w EXCEPT !.step = "write"]}
           \/ file' = file /\ writing' = {}
    BY <1>5, <2>1 DEF Truncate
  <2>3. [w EXCEPT !.step = "write"] \in Write /\ [w EXCEPT !.step = "write"].token = w.token
    BY <2>1 DEF Write
  <2>4. TypeOK' /\ FileInv'
    BY <2>1, <2>2, <2>3, NotTokens DEF IInv, TypeOK, FileInv
  <2>5. WriterInv'
    BY <2>1, <2>2, <2>3 DEF WriterInv
  <2>6. InflightInv' /\ NewestUnlessTornOrUnread'
    BY <2>2 DEF IInv, InflightInv, NewestUnlessTornOrUnread
  <2> QED
    BY <2>4, <2>5, <2>6 DEF IInv
<1>6. ASSUME NEW w \in writing, Persist(w) PROVE IInv'
  <2>1. writing = {w} /\ w \in Write /\ main = "up" /\ w.token = memory /\ w.token \in Tokens
    BY DEF IInv, TypeOK, WriterInv, Write
  <2>2. /\ UNCHANGED <<main, memory, conn, inflight, unread, issued>> /\ writing' = {}
        /\ \/ file' = w.token /\ persisted' = w.token
           \/ file' \in {file, Prefix} /\ persisted' = persisted
    BY <1>6, <2>1 DEF Persist
  <2>3. TypeOK' /\ FileInv' /\ WriterInv'
    BY <2>1, <2>2, NotTokens DEF IInv, TypeOK, FileInv, WriterInv
  <2>4. InflightInv'
    BY <2>1, <2>2 DEF IInv, InflightInv
  <2>5. NewestUnlessTornOrUnread'
    BY <2>1, <2>2 DEF IInv, TypeOK, Tokens, NewestUnlessTornOrUnread
  <2> QED
    BY <2>3, <2>4, <2>5 DEF IInv
<1>7. CASE UNCHANGED vars
  BY <1>7 DEF vars, IInv, TypeOK, FileInv, WriterInv, InflightInv, NewestUnlessTornOrUnread
<1> QED
  BY <1>1, <1>2, <1>3, <1>4, <1>5, <1>6, <1>7 DEF Next

-----------------------------------------------------------------------------
(* The theorems.                                                           *)

\* Every reachable state satisfies the inductive invariant.
THEOREM Invariance == Spec => []IInv
BY InvInit, InvNext, PTL DEF Spec

\* The variables keep their types; in particular the memory never holds what
\* an empty or missing file would give.
THEOREM TypeCorrect == Spec => []TypeOK
<1>1. IInv => TypeOK
  BY DEF IInv
<1> QED
  BY <1>1, Invariance, PTL

\* A token older than a persisted one, or a part of one, is only used after a
\* persistToken was cut off in the file, or when main could not read the file.
THEOREM NewestToken == Spec => []NewestUnlessTornOrUnread
<1>1. IInv => NewestUnlessTornOrUnread
  BY DEF IInv
<1> QED
  BY <1>1, Invariance, PTL

\* The token file never goes back to an older token.
THEOREM FileForward == Spec => FileGoesForward
<1>1. ASSUME IInv, [Next]_vars PROVE file' # file /\ file' \in Tokens => file' > persisted
  <2>1. CASE \E w \in writing : Truncate(w)
    <3>1. file' = file \/ file' = Empty
      BY <2>1 DEF Truncate
    <3> QED
      BY <3>1, NotTokens
  <2>2. ASSUME NEW w \in writing, Persist(w)
        PROVE  file' # file /\ file' \in Tokens => file' > persisted
    <3>1. w.token \in Tokens /\ persisted \in Tokens /\ persisted < w.token
      BY <1>1, <2>2 DEF IInv, TypeOK, WriterInv, Write
    <3>2. file' \in {file, Prefix, w.token}
      BY <2>2 DEF Persist
    <3> QED
      BY <2>2, <3>1, <3>2, TokenAssumption, NotTokens DEF Tokens
  <2>3. CASE Start \/ Connect \/ LoseConnection \/ Crash \/ Rotate \/ HandleTokenRotated
    BY <2>3 DEF Start, Connect, LoseConnection, Crash, Rotate, HandleTokenRotated
  <2>4. CASE UNCHANGED vars
    BY <2>4 DEF vars
  <2> QED
    BY <1>1, <2>1, <2>2, <2>3, <2>4 DEF Next
<1> QED
  BY <1>1, Invariance, PTL DEF Spec, FileGoesForward
===============================================================================
