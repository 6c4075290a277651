-------------------------- MODULE OutputCaptureProofs --------------------------
(***************************************************************************)
(* Proofs about OutputCapture, for any streams, amount of output and       *)
(* limits of the session.                                                  *)
(***************************************************************************)
EXTENDS OutputCapture, SequenceTheorems, FiniteSetTheorems, TLAPS

\* How much of a text is kept.
Size(text, n) == IF Len(text) < n THEN Len(text) ELSE n

-----------------------------------------------------------------------------
(* Texts and their ends.                                                   *)

\* What Newest is, character by character.
LEMMA NewestProperties ==
  ASSUME NEW S, NEW text \in Seq(S), NEW n \in Nat
  PROVE  /\ Newest(text, n) \in Seq(S)
         /\ Len(Newest(text, n)) = Size(text, n)
         /\ \A i \in 1..Size(text, n) : Newest(text, n)[i] = text[Len(text) - Size(text, n) + i]
<1> DEFINE m == Size(text, n)
<1>1. Len(text) \in Nat /\ m \in 0..Len(text)
  BY LenProperties DEF Size
<1>2. \A i \in 1..m : text[Len(text) - m + i] \in S
  <2> SUFFICES ASSUME NEW i \in 1..m PROVE text[Len(text) - m + i] \in S
    OBVIOUS
  <2>1. Len(text) - m + i \in 1..Len(text)
    BY <1>1
  <2> QED
    BY <2>1, ElementOfSeq
<1>3. Newest(text, n) = [i \in 1..m |-> text[Len(text) - m + i]]
  BY DEF Newest, Size
<1> HIDE DEF m
<1>4. Newest(text, n) \in [1..m -> S]
  BY <1>2, <1>3
<1>5. Newest(text, n) \in Seq(S)
  BY <1>1, <1>4
<1>6. Len(Newest(text, n)) = m
  BY <1>1, <1>4, <1>5
<1> QED
  BY <1>3, <1>5, <1>6 DEF m

\* KeepLast, which cuts with a slice, keeps the newest.
LEMMA KeepLastIsNewest ==
  ASSUME NEW S, NEW text \in Seq(S), NEW n \in Nat
  PROVE  KeepLast(text, n) = Newest(text, n)
<1>1. Len(text) \in Nat
  BY LenProperties
<1>2. /\ Newest(text, n) \in Seq(S)
      /\ Len(Newest(text, n)) = Size(text, n)
      /\ \A i \in 1..Size(text, n) : Newest(text, n)[i] = text[Len(text) - Size(text, n) + i]
  BY NewestProperties
<1>3. CASE Len(text) > n
  <2> DEFINE cut == SubSeq(text, Len(text) - n + 1, Len(text))
  <2>1. \A i \in (Len(text) - n + 1)..Len(text) : text[i] \in S
    BY <1>1, <1>3, ElementOfSeq
  <2>2. Len(text) - n + 1 \in Int /\ Len(text) \in Int
    BY <1>1
  <2>3. /\ cut \in Seq(S)
        /\ Len(cut) = (IF Len(text) - n + 1 <= Len(text) THEN Len(text) - (Len(text) - n + 1) + 1 ELSE 0)
        /\ \A i \in 1..(Len(text) - (Len(text) - n + 1) + 1) : cut[i] = text[Len(text) - n + 1 + i - 1]
    BY <2>1, <2>2, SubSeqProperties
  <2> HIDE DEF cut
  <2>4. Len(cut) = n /\ Size(text, n) = n
    BY <1>1, <1>3, <2>3 DEF Size
  <2>5. \A i \in 1..n : cut[i] = Newest(text, n)[i]
    BY <1>1, <1>2, <2>3, <2>4
  <2>6. cut = Newest(text, n)
    BY <1>2, <2>3, <2>4, <2>5, SeqEqual
  <2> QED
    BY <1>3, <2>6 DEF KeepLast, cut
<1>4. CASE ~(Len(text) > n)
  <2>1. Size(text, n) = Len(text)
    BY <1>1, <1>4 DEF Size
  <2>2. \A i \in 1..Len(text) : text[i] = Newest(text, n)[i]
    BY <1>1, <1>2, <2>1
  <2>3. text = Newest(text, n)
    BY <1>2, <2>1, <2>2, SeqEqual
  <2> QED
    BY <1>4, <2>3 DEF KeepLast
<1> QED
  BY <1>3, <1>4

\* What was cut off before does not matter to the newest part.
LEMMA NewestOfMore ==
  ASSUME NEW S, NEW text \in Seq(S), NEW more \in Seq(S), NEW n \in Nat
  PROVE  Newest(Newest(text, n) \o more, n) = Newest(text \o more, n)
<1> DEFINE kept == Newest(text, n)
           short == kept \o more
           long == text \o more
           m == Size(long, n)
<1>1. Len(text) \in Nat /\ Len(more) \in Nat
  BY LenProperties
<1>2. /\ kept \in Seq(S) /\ Len(kept) = Size(text, n)
      /\ \A i \in 1..Size(text, n) : kept[i] = text[Len(text) - Size(text, n) + i]
  BY NewestProperties
<1>3. Len(kept) \in Nat /\ Len(kept) <= Len(text) /\ (Len(kept) = Len(text) \/ Len(kept) = n)
  BY <1>1, <1>2 DEF Size
<1> HIDE DEF kept
<1>4. /\ short \in Seq(S) /\ Len(short) = Len(kept) + Len(more)
      /\ \A i \in 1..(Len(kept) + Len(more)) :
           short[i] = (IF i <= Len(kept) THEN kept[i] ELSE more[i - Len(kept)])
  BY <1>2, ConcatProperties
<1>5. /\ long \in Seq(S) /\ Len(long) = Len(text) + Len(more)
      /\ \A i \in 1..(Len(text) + Len(more)) :
           long[i] = (IF i <= Len(text) THEN text[i] ELSE more[i - Len(text)])
  BY ConcatProperties
<1> HIDE DEF short, long
<1>t. /\ Len(short) \in Nat /\ Len(long) \in Nat
      /\ Len(long) - Len(short) = Len(text) - Len(kept) /\ Len(short) <= Len(long)
      /\ Len(short) = Len(kept) + Len(more)
  BY <1>1, <1>3, <1>4, <1>5
<1>6. m = Size(short, n) /\ m \in 0..Len(short)
  <2>1. CASE Len(kept) = Len(text)
    <3>1. Len(short) = Len(long)
      BY <1>1, <1>3, <1>t, <2>1
    <3> QED
      BY <1>t, <3>1 DEF Size
  <2>2. CASE Len(kept) = n
    <3>1. ~(Len(short) < n) /\ ~(Len(long) < n)
      BY <1>1, <1>3, <1>t, <2>2
    <3> QED
      BY <1>t, <3>1 DEF Size
  <2> QED
    BY <1>3, <2>1, <2>2
<1> HIDE DEF m
<1>7. \A i \in 1..Len(short) : short[i] = long[Len(long) - Len(short) + i]
  <2> SUFFICES ASSUME NEW i \in 1..Len(short) PROVE short[i] = long[Len(long) - Len(short) + i]
    OBVIOUS
  <2> DEFINE j == Len(text) - Len(kept) + i
  <2>1. Len(long) - Len(short) + i = j /\ j \in 1..(Len(text) + Len(more))
    BY <1>1, <1>3, <1>4, <1>5
  <2>2. CASE i <= Len(kept)
    <3>1. short[i] = kept[i] /\ kept[i] = text[j]
      BY <1>1, <1>2, <1>3, <1>4, <2>2
    <3>2. j <= Len(text)
      BY <1>1, <1>3, <2>2
    <3>3. long[j] = text[j]
      BY <1>5, <2>1, <3>2
    <3> QED
      BY <2>1, <3>1, <3>3
  <2>3. CASE ~(i <= Len(kept))
    <3>1. short[i] = more[i - Len(kept)]
      BY <1>4, <2>3
    <3>2. ~(j <= Len(text)) /\ j - Len(text) = i - Len(kept)
      BY <1>1, <1>3, <2>3
    <3>3. long[j] = more[i - Len(kept)]
      BY <1>5, <2>1, <3>2
    <3> QED
      BY <2>1, <3>1, <3>3
  <2> QED
    BY <2>2, <2>3
<1>8. /\ Newest(short, n) \in Seq(S) /\ Len(Newest(short, n)) = m
      /\ \A i \in 1..m : Newest(short, n)[i] = short[Len(short) - m + i]
  BY <1>4, <1>6, NewestProperties
<1>9. /\ Newest(long, n) \in Seq(S) /\ Len(Newest(long, n)) = m
      /\ \A i \in 1..m : Newest(long, n)[i] = long[Len(long) - m + i]
  BY <1>5, NewestProperties DEF m
<1>10. \A i \in 1..m : Newest(short, n)[i] = Newest(long, n)[i]
  <2> SUFFICES ASSUME NEW i \in 1..m PROVE Newest(short, n)[i] = Newest(long, n)[i]
    OBVIOUS
  <2> DEFINE k == Len(short) - m + i
  <2>1. k \in 1..Len(short) /\ Len(long) - Len(short) + k = Len(long) - m + i
    <3>1. m \in Nat /\ m <= Len(short) /\ i \in Nat /\ 1 <= i /\ i <= m
      BY <1>t, <1>6
    <3>2. Len(short) \in Nat /\ Len(long) \in Nat
      BY <1>t
    <3> QED
      BY <3>1, <3>2
  <2>2. short[k] = long[Len(long) - m + i]
    BY <1>7, <2>1
  <2> QED
    BY <1>8, <1>9, <2>2
<1>11. Newest(short, n) = Newest(long, n)
  BY <1>8, <1>9, <1>10, SeqEqual
<1> QED
  BY <1>11 DEF short, long, kept

\* The tail of what is kept is the tail of all.
LEMMA NewestOfNewest ==
  ASSUME NEW S, NEW text \in Seq(S), NEW n \in Nat, NEW k \in 0..n
  PROVE  Newest(Newest(text, n), k) = Newest(text, k)
<1> DEFINE kept == Newest(text, n)
           m == Size(text, k)
<1>1. Len(text) \in Nat
  BY LenProperties
<1>2. /\ kept \in Seq(S) /\ Len(kept) = Size(text, n)
      /\ \A i \in 1..Size(text, n) : kept[i] = text[Len(text) - Size(text, n) + i]
  BY NewestProperties
<1> HIDE DEF kept
<1>3. Len(kept) \in Nat /\ Len(kept) <= Len(text) /\ m = Size(kept, k) /\ m \in 0..Len(kept)
  <2>1. Len(kept) = (IF Len(text) < n THEN Len(text) ELSE n) /\ k <= n /\ k \in Nat
    BY <1>2 DEF Size
  <2>2. CASE Len(text) < n
    BY <1>1, <2>1, <2>2 DEF Size
  <2>3. CASE ~(Len(text) < n)
    BY <1>1, <2>1, <2>3 DEF Size
  <2> QED
    BY <2>2, <2>3
<1>k. k \in Nat
  OBVIOUS
<1>4. /\ Newest(kept, k) \in Seq(S) /\ Len(Newest(kept, k)) = Size(kept, k)
      /\ \A i \in 1..Size(kept, k) : Newest(kept, k)[i] = kept[Len(kept) - Size(kept, k) + i]
  BY <1>2, <1>k, NewestProperties
<1>5. /\ Newest(text, k) \in Seq(S) /\ Len(Newest(text, k)) = m
      /\ \A i \in 1..m : Newest(text, k)[i] = text[Len(text) - m + i]
  BY <1>k, NewestProperties
<1> HIDE DEF m
<1>6. \A i \in 1..m : Newest(kept, k)[i] = Newest(text, k)[i]
  <2> SUFFICES ASSUME NEW i \in 1..m PROVE Newest(kept, k)[i] = Newest(text, k)[i]
    OBVIOUS
  <2>1. Len(kept) - m + i \in 1..Len(kept)
    BY <1>3
  <2>2. kept[Len(kept) - m + i] = text[Len(text) - Len(kept) + (Len(kept) - m + i)]
    BY <1>2, <2>1
  <2>3. Len(text) - Len(kept) + (Len(kept) - m + i) = Len(text) - m + i
    BY <1>1, <1>3
  <2> QED
    BY <1>3, <1>4, <1>5, <2>2, <2>3
<1>7. Newest(kept, k) = Newest(text, k)
  BY <1>3, <1>4, <1>5, <1>6, SeqEqual
<1> QED
  BY <1>7 DEF kept

-----------------------------------------------------------------------------
(* The places of one stream's characters in the log.                       *)

\* There are finitely many.
LEMMA PlacesFinite ==
  ASSUME NEW text \in Seq(Char), NEW s
  PROVE  /\ IsFiniteSet(Places(text, s)) /\ Cardinality(Places(text, s)) \in Nat
         /\ Places(text, s) \subseteq 1..Len(text)
<1>1. Len(text) \in Nat
  BY LenProperties
<1>2. IsFiniteSet(1..Len(text)) /\ Places(text, s) \in SUBSET (1..Len(text))
  BY <1>1, FS_Interval DEF Places
<1> QED
  BY <1>2, FS_Subset, FS_CardinalityType

\* What is appended to the log moves none of them.
LEMMA PlacesKept ==
  ASSUME NEW text \in Seq(Char), NEW more \in Seq(Char), NEW s
  PROVE  /\ \A p \in 1..Len(text) :
              /\ (text \o more)[p] = text[p]
              /\ p \in Places(text \o more, s) <=> p \in Places(text, s)
              /\ {q \in Places(text \o more, s) : q <= p} = {q \in Places(text, s) : q <= p}
         /\ \A i, char : Nth(text, s, i, char) => Nth(text \o more, s, i, char)
<1> DEFINE long == text \o more
<1>1. Len(text) \in Nat /\ Len(more) \in Nat
  BY LenProperties
<1>2. /\ Len(long) = Len(text) + Len(more)
      /\ \A p \in 1..Len(text) : long[p] = text[p]
  BY <1>1, ConcatProperties
<1> HIDE DEF long
<1>3. \A p \in 1..Len(text) : p \in Places(long, s) <=> p \in Places(text, s)
  BY <1>1, <1>2 DEF Places
<1>4. ASSUME NEW p \in 1..Len(text)
      PROVE  {q \in Places(long, s) : q <= p} = {q \in Places(text, s) : q <= p}
  <2>1. \A q \in Places(long, s) \cup Places(text, s) : q <= p => q \in 1..Len(text)
    BY <1>1 DEF Places
  <2> QED
    BY <1>3, <2>1
<1>5. ASSUME NEW i, NEW char, Nth(text, s, i, char) PROVE Nth(long, s, i, char)
  <2>1. PICK p \in Places(text, s) :
          text[p] = char /\ Cardinality({q \in Places(text, s) : q <= p}) = i
    BY <1>5 DEF Nth
  <2>2. p \in 1..Len(text)
    BY DEF Places
  <2>3. /\ p \in Places(long, s) /\ long[p] = char
        /\ Cardinality({q \in Places(long, s) : q <= p}) = i
    BY <1>2, <1>3, <1>4, <2>1, <2>2
  <2> QED
    BY <2>3 DEF Nth
<1> QED
  BY <1>2, <1>3, <1>4, <1>5 DEF long

\* What another stream appends adds none.
LEMMA PlacesOfOthers ==
  ASSUME NEW text \in Seq(Char), NEW more \in Seq(Char), NEW s,
         \A k \in 1..Len(more) : more[k][1] # s
  PROVE  Places(text \o more, s) = Places(text, s)
<1> DEFINE long == text \o more
<1>1. Len(text) \in Nat /\ Len(more) \in Nat
  BY LenProperties
<1>2. /\ Len(long) = Len(text) + Len(more)
      /\ \A p \in 1..(Len(text) + Len(more)) :
           long[p] = IF p <= Len(text) THEN text[p] ELSE more[p - Len(text)]
  BY <1>1, ConcatProperties
<1> HIDE DEF long
<1>3. \A p \in 1..Len(long) : ~(p <= Len(text)) => p - Len(text) \in 1..Len(more)
  BY <1>1, <1>2
<1>4. \A p \in 1..Len(long) : ~(p <= Len(text)) => long[p][1] # s
  BY <1>2, <1>3
<1>5. \A p : p \in Places(long, s) => p \in 1..Len(text) /\ long[p] = text[p]
  BY <1>1, <1>2, <1>4 DEF Places
<1>6. \A p \in 1..Len(text) : p \in Places(long, s) <=> p \in Places(text, s)
  BY PlacesKept DEF long
<1>7. \A p : p \in Places(text, s) => p \in 1..Len(text)
  BY DEF Places
<1> QED
  BY <1>5, <1>6, <1>7 DEF long

\* What a text holds of a stream is the first n characters, in their order.
HoldsFirst(text, s, n) ==
  /\ Cardinality(Places(text, s)) = n
  /\ \A i \in 1..n : Nth(text, s, i, <<s, i>>)

\* A text is what stream s has after its first n characters.
IsAfter(more, s, n) == \A k \in 1..Len(more) : more[k] = <<s, n + k>>

\* What the stream itself appends comes after what is there of it.
LEMMA PlacesOfMore ==
  ASSUME NEW text \in Seq(Char), NEW more \in Seq(Char), NEW s, NEW n \in Nat,
         HoldsFirst(text, s, n), IsAfter(more, s, n)
  PROVE  HoldsFirst(text \o more, s, n + Len(more))
<1> DEFINE long == text \o more
           m == Len(text)
           upTo(k) == {q \in Places(long, s) : q <= m + k}
<1>1. m \in Nat /\ Len(more) \in Nat
  BY LenProperties
<1>2. /\ Len(long) = m + Len(more)
      /\ \A p \in 1..(m + Len(more)) : long[p] = IF p <= m THEN text[p] ELSE more[p - m]
  BY <1>1, ConcatProperties
<1>3. \A p \in 1..m : p \in Places(long, s) <=> p \in Places(text, s)
  BY PlacesKept
<1> HIDE DEF long
<1>4. \A p \in (m + 1)..(m + Len(more)) :
        p - m \in 1..Len(more) /\ long[p] = more[p - m] /\ p \in 1..Len(long)
  BY <1>1, <1>2
<1>5. \A p \in (m + 1)..(m + Len(more)) : p \in Places(long, s) /\ long[p] = <<s, n + (p - m)>>
  BY <1>4 DEF Places, IsAfter
<1>6. ASSUME NEW k \in 0..Len(more)
      PROVE  Cardinality(upTo(k)) = n + k
  <2>1. upTo(k) = Places(text, s) \cup ((m + 1)..(m + k))
    <3>1. ASSUME NEW p \in upTo(k) PROVE p \in Places(text, s) \cup ((m + 1)..(m + k))
      <4>1. p \in Places(long, s) /\ p \in 1..(m + k)
        BY <1>1, <1>2 DEF Places
      <4>2. p \in 1..m \/ p \in (m + 1)..(m + k)
        BY <1>1, <4>1
      <4> QED
        BY <1>3, <4>1, <4>2
    <3>2. ASSUME NEW p \in Places(text, s) PROVE p \in upTo(k)
      <4>1. p \in 1..m
        BY DEF Places
      <4>2. p <= m + k
        BY <1>1, <4>1
      <4> QED
        BY <1>3, <4>1, <4>2
    <3>3. ASSUME NEW p \in (m + 1)..(m + k) PROVE p \in upTo(k)
      <4>1. p \in (m + 1)..(m + Len(more)) /\ p <= m + k
        BY <1>1
      <4> QED
        BY <1>5, <4>1
    <3> QED
      BY <3>1, <3>2, <3>3
  <2>2. IsFiniteSet(Places(text, s)) /\ Places(text, s) \subseteq 1..m
    BY PlacesFinite
  <2>3. IsFiniteSet((m + 1)..(m + k)) /\ Cardinality((m + 1)..(m + k)) = k
    <3> DEFINE first == m + 1
               last == m + k
    <3>1. first \in Int /\ last \in Int /\ (first > last => k = 0) /\ last - first + 1 = k
      BY <1>1
    <3> HIDE DEF first, last
    <3>2. IsFiniteSet(first..last) /\ Cardinality(first..last) = k
      BY <3>1, FS_Interval
    <3> QED
      BY <3>2 DEF first, last
  <2>4. Places(text, s) \cap ((m + 1)..(m + k)) = {}
    BY <1>1, <2>2
  <2>5. Cardinality(Places(text, s) \cup ((m + 1)..(m + k)))
          = Cardinality(Places(text, s)) + Cardinality((m + 1)..(m + k)) - Cardinality({})
    BY <2>2, <2>3, <2>4, FS_Union
  <2>6. Cardinality(upTo(k)) = Cardinality(Places(text, s) \cup ((m + 1)..(m + k)))
    BY <2>1
  <2> QED
    BY <2>3, <2>5, <2>6, FS_EmptySet DEF HoldsFirst
<1>7. Places(long, s) = upTo(Len(more))
  BY <1>1, <1>2 DEF Places
<1> HIDE DEF upTo
<1>8. ASSUME NEW k \in 1..Len(more) PROVE Nth(long, s, n + k, <<s, n + k>>)
  <2>1. m + k \in (m + 1)..(m + Len(more)) /\ m + k - m = k /\ k \in 0..Len(more)
    <3>1. \A i, j \in Nat : \A l \in 1..j : i + l \in (i + 1)..(i + j) /\ i + l - i = l
      OBVIOUS
    <3> QED
      BY <1>1, <3>1
  <2>2. m + k \in Places(long, s) /\ long[m + k] = <<s, n + k>>
    BY <1>5, <2>1
  <2>3. Cardinality({q \in Places(long, s) : q <= m + k}) = n + k
    BY <1>6, <2>1 DEF upTo
  <2> QED
    BY <2>2, <2>3 DEF Nth
<1>9. Cardinality(Places(long, s)) = n + Len(more)
  <2>1. Len(more) \in 0..Len(more)
    BY <1>1
  <2> QED
    BY <1>6, <1>7, <2>1
<1>10. ASSUME NEW i \in 1..(n + Len(more)) PROVE Nth(long, s, i, <<s, i>>)
  <2>1. CASE i \in 1..n
    <3>1. Nth(text, s, i, <<s, i>>)
      BY <2>1 DEF HoldsFirst
    <3> QED
      BY <3>1, PlacesKept DEF long
  <2>2. CASE i \notin 1..n
    <3>1. i - n \in 1..Len(more) /\ n + (i - n) = i
      BY <1>1, <2>2
    <3> QED
      BY <1>8, <3>1
  <2> QED
    BY <2>1, <2>2
<1> QED
  BY <1>9, <1>10 DEF HoldsFirst, long

-----------------------------------------------------------------------------
(* The session.                                                            *)

\* What a reader holds was written: a range of the stream's characters.
LEMMA CharsType ==
  ASSUME NEW s \in Streams, NEW i \in 0..MaxWritten, NEW j \in i..MaxWritten
  PROVE  Chars(s, i, j) \in Seq(Char)
<1>1. j - i \in Nat
  BY OutputAssumption
<1>2. \A k \in 1..(j - i) : <<s, i + k>> \in Char
  BY OutputAssumption DEF Char
<1>3. Chars(s, i, j) \in [1..(j - i) -> Char]
  BY <1>2 DEF Chars
<1> QED
  BY <1>1, <1>3

IInv == TypeOK /\ SessionKeepsNewest

\* The initial states satisfy the invariant.
LEMMA InvInit == Init => IInv
<1> SUFFICES ASSUME Init PROVE IInv
  OBVIOUS
<1>1. <<>> \in Seq(Char) /\ Len(<<>>) = 0
  OBVIOUS
<1>2. TypeOK
  BY <1>1, OutputAssumption DEF Init, TypeOK
<1>3. ASSUME NEW n \in Nat PROVE Newest(<<>>, n) = <<>>
  <2>1. Newest(<<>>, n) \in Seq(Char) /\ Len(Newest(<<>>, n)) = Size(<<>>, n)
    BY <1>1, NewestProperties
  <2>2. Size(<<>>, n) = 0
    BY <1>1 DEF Size
  <2> QED
    BY <2>1, <2>2
<1>4. SessionKeepsNewest
  BY <1>3, OutputAssumption DEF Init, SessionKeepsNewest
<1> QED
  BY <1>2, <1>4 DEF IInv

\* An append to the session keeps the newest of all that was appended.
LEMMA AppendStep ==
  ASSUME IInv, NEW s \in Streams, AppendOutput(s)
  PROVE  /\ aggregated' \in Seq(Char) /\ tail' \in Seq(Char) /\ log' \in Seq(Char)
         /\ SessionKeepsNewest'
<1>1. aggregated \in Seq(Char) /\ log \in Seq(Char) /\ chunk[s] \in Seq(Char)
  BY DEF IInv, TypeOK
<1>2. MaxOutputChars \in Nat /\ TailChars \in Nat /\ TailChars \in 0..MaxOutputChars
  BY OutputAssumption
<1>3. /\ aggregated' = KeepLast(aggregated \o chunk[s], MaxOutputChars)
      /\ tail' = KeepLast(aggregated', TailChars)
      /\ log' = log \o chunk[s]
  BY DEF AppendOutput
<1>4. aggregated \o chunk[s] \in Seq(Char) /\ log \o chunk[s] \in Seq(Char)
  BY <1>1, ConcatProperties
<1>5. aggregated = Newest(log, MaxOutputChars)
  BY DEF IInv, SessionKeepsNewest
<1>6. aggregated' = Newest(aggregated \o chunk[s], MaxOutputChars)
  BY <1>2, <1>3, <1>4, KeepLastIsNewest
<1>7. Newest(Newest(log, MaxOutputChars) \o chunk[s], MaxOutputChars) = Newest(log \o chunk[s], MaxOutputChars)
  BY <1>1, <1>2, NewestOfMore
<1>8. aggregated' = Newest(log', MaxOutputChars)
  BY <1>3, <1>5, <1>6, <1>7
<1>9. aggregated' \in Seq(Char)
  BY <1>2, <1>4, <1>6, NewestProperties
<1>10. tail' = Newest(aggregated', TailChars)
  BY <1>2, <1>3, <1>9, KeepLastIsNewest
<1>11. tail' \in Seq(Char)
  BY <1>2, <1>9, <1>10, NewestProperties
<1>12. tail' = Newest(log', TailChars)
  <2>1. Newest(Newest(log', MaxOutputChars), TailChars) = Newest(log', TailChars)
    BY <1>2, <1>3, <1>4, NewestOfNewest
  <2> QED
    BY <1>8, <1>10, <2>1
<1> QED
  BY <1>3, <1>4, <1>8, <1>9, <1>11, <1>12 DEF SessionKeepsNewest

\* The other steps of a reader leave the session alone.
LEMMA ReaderStep ==
  ASSUME IInv, NEW s \in Streams, Reader(s)
  PROVE  IInv'
<1> USE DEF IInv
<1>1. CASE Read(s)
  <2>1. UNCHANGED <<writers, written, aggregated, tail, builder, waiter, timer, reported, log>>
    BY <1>1 DEF Read
  <2>2. PICK upTo \in (taken[s] + 1)..written[s] :
          /\ chunk' = [chunk EXCEPT ![s] = Chars(s, taken[s], upTo)]
          /\ taken' = [taken EXCEPT ![s] = upTo]
    BY <1>1 DEF Read
  <2>3. taken[s] \in 0..MaxWritten /\ written[s] \in 0..MaxWritten
    BY DEF TypeOK
  <2>4. upTo \in taken[s]..MaxWritten /\ upTo \in 0..MaxWritten
    BY <2>2, <2>3, OutputAssumption
  <2>5. Chars(s, taken[s], upTo) \in Seq(Char)
    BY <2>3, <2>4, CharsType
  <2>6. chunk' \in [Streams -> Seq(Char)] /\ taken' \in [Streams -> 0..MaxWritten]
    BY <2>2, <2>4, <2>5 DEF TypeOK
  <2>7. reader' \in [Streams -> {"read", "append", "callback", "done"}]
    BY <1>1 DEF Read, TypeOK
  <2>8. TypeOK'
    BY <2>1, <2>6, <2>7 DEF TypeOK
  <2> QED
    BY <2>1, <2>8 DEF SessionKeepsNewest
<1>2. CASE ReadFails(s)
  <2>1. UNCHANGED <<writers, written, taken, chunk, aggregated, tail, builder, waiter, timer, reported, log>>
    BY <1>2 DEF ReadFails
  <2>2. reader' \in [Streams -> {"read", "append", "callback", "done"}]
    BY <1>2 DEF ReadFails, TypeOK
  <2>3. TypeOK'
    BY <2>1, <2>2 DEF TypeOK
  <2> QED
    BY <2>1, <2>3 DEF SessionKeepsNewest
<1>3. CASE AppendOutput(s)
  <2>1. UNCHANGED <<writers, written, taken, chunk, builder, waiter, timer, reported>>
    BY <1>3 DEF AppendOutput
  <2>2. reader' \in [Streams -> {"read", "append", "callback", "done"}]
    BY <1>3 DEF AppendOutput, TypeOK
  <2>3. aggregated' \in Seq(Char) /\ tail' \in Seq(Char) /\ log' \in Seq(Char) /\ SessionKeepsNewest'
    BY <1>3, AppendStep
  <2> QED
    BY <2>1, <2>2, <2>3 DEF TypeOK
<1>4. CASE Callback(s)
  <2>1. UNCHANGED <<writers, written, taken, aggregated, tail, waiter, timer, reported, log>>
    BY <1>4 DEF Callback
  <2>2. reader' \in [Streams -> {"read", "append", "callback", "done"}]
    BY <1>4 DEF Callback, TypeOK
  <2>3. chunk' \in [Streams -> Seq(Char)]
    BY <1>4 DEF Callback, TypeOK
  <2>4. builder[s] \o chunk[s] \in Seq(Char)
    BY ConcatProperties DEF TypeOK
  <2>5. builder' \in [Streams -> Seq(Char)]
    BY <1>4, <2>4 DEF Callback, TypeOK
  <2>6. TypeOK'
    BY <2>1, <2>2, <2>3, <2>5 DEF TypeOK
  <2> QED
    BY <2>1, <2>6 DEF SessionKeepsNewest
<1> QED
  BY <1>1, <1>2, <1>3, <1>4 DEF Reader

\* So do the child, its descendants, the waiter and the timer.
LEMMA OtherStep ==
  ASSUME IInv, (\E s \in Streams : Produce(s)) \/ ChildExits \/ DescendantExits \/ CmdWait
               \/ Report \/ TimerReports
  PROVE  IInv'
<1> USE DEF IInv
<1>1. UNCHANGED <<reader, taken, chunk, aggregated, tail, builder, log>>
  BY DEF Produce, ChildExits, DescendantExits, CmdWait, Report, TimerReports, ReadBuilders
<1>2. /\ writers' \in {"child", "descendant", "none"} /\ waiter' \in {"wait", "report", "done"}
      /\ timer' \in {"none", "armed", "done"}
  BY DEF Produce, ChildExits, DescendantExits, CmdWait, Report, TimerReports, ReadBuilders, TypeOK
<1>3. written' \in [Streams -> 0..MaxWritten]
  <2>1. ASSUME NEW s \in Streams, Produce(s) PROVE written' \in [Streams -> 0..MaxWritten]
    BY <2>1, OutputAssumption DEF Produce, TypeOK
  <2>2. CASE ChildExits \/ DescendantExits \/ CmdWait \/ Report \/ TimerReports
    BY <2>2 DEF ChildExits, DescendantExits, CmdWait, Report, TimerReports, ReadBuilders, TypeOK
  <2> QED
    BY <2>1, <2>2
<1>4. reported' \in [Streams -> Seq(Char) \cup {Torn}]
  <2>1. CASE ReadBuilders
    <3>1. PICK torn \in SUBSET Streams : reported' = [s \in Streams |-> IF s \in torn THEN Torn ELSE builder[s]]
      BY <2>1 DEF ReadBuilders
    <3>2. \A s \in Streams : builder[s] \in Seq(Char)
      BY DEF TypeOK
    <3> QED
      BY <3>1, <3>2
  <2>2. CASE ~ReadBuilders
    <3>1. UNCHANGED reported
      BY <2>2 DEF Produce, ChildExits, DescendantExits, CmdWait, Report, TimerReports
    <3> QED
      BY <3>1 DEF TypeOK
  <2> QED
    BY <2>1, <2>2
<1>5. TypeOK'
  BY <1>1, <1>2, <1>3, <1>4 DEF TypeOK
<1> QED
  BY <1>1, <1>5 DEF SessionKeepsNewest

\* The invariant holds in every reachable state.
LEMMA Invariance == Spec => []IInv
<1>1. IInv /\ [Next]_vars => IInv'
  <2> SUFFICES ASSUME IInv, [Next]_vars PROVE IInv'
    OBVIOUS
  <2>1. CASE UNCHANGED vars
    <3>1. UNCHANGED <<writers, written, reader, taken, chunk, aggregated, tail, builder, waiter, timer, reported, log>>
      BY <2>1 DEF vars
    <3> QED
      BY <3>1 DEF IInv, TypeOK, SessionKeepsNewest
  <2>2. CASE Next
    BY <2>2, ReaderStep, OtherStep DEF Next
  <2> QED
    BY <2>1, <2>2
<1> QED
  BY <1>1, InvInit, PTL DEF Spec

-----------------------------------------------------------------------------
(* The result and the log.                                                 *)

\* How much of stream s the session was given: all that the builder has, and
\* the chunk on its way there, once it was appended.
InLog(s) ==
  IF reader[s] = "append" THEN Len(builder[s]) ELSE Len(builder[s]) + Len(chunk[s])

\* The inductive invariant of stream s: builder and chunk are what was read,
\* each character in its place, and so is what the log has of the stream.
StreamInv(s) ==
  /\ reader[s] \in {"read", "done"} => chunk[s] = <<>>
  /\ Len(builder[s]) + Len(chunk[s]) = taken[s]
  /\ \A i \in 1..Len(builder[s]) : builder[s][i] = <<s, i>>
  /\ IsAfter(chunk[s], s, Len(builder[s]))
  /\ HoldsFirst(log, s, InLog(s))
  /\ reported[s] # Torn =>
       /\ Len(reported[s]) <= InLog(s)
       /\ \A i \in 1..Len(reported[s]) : reported[s][i] = <<s, i>>

StreamsInv == \A s \in Streams : StreamInv(s)

\* A text of the module is a sequence, and has a length.
LEMMA Lengths ==
  ASSUME TypeOK, NEW s \in Streams
  PROVE  /\ Len(builder[s]) \in Nat /\ Len(chunk[s]) \in Nat
         /\ builder[s] \in Seq(Char) /\ chunk[s] \in Seq(Char)
         /\ reported[s] # Torn => reported[s] \in Seq(Char) /\ Len(reported[s]) \in Nat
         /\ InLog(s) \in Nat
<1>1. /\ builder[s] \in Seq(Char) /\ chunk[s] \in Seq(Char)
      /\ reported[s] # Torn => reported[s] \in Seq(Char)
  BY DEF TypeOK
<1>2. \A text \in Seq(Char) : Len(text) \in Nat
  BY LenProperties
<1>3. /\ Len(builder[s]) \in Nat /\ Len(chunk[s]) \in Nat
      /\ reported[s] # Torn => Len(reported[s]) \in Nat
  BY <1>1, <1>2
<1>4. Len(builder[s]) + Len(chunk[s]) \in Nat
  <2>1. \A i, j \in Nat : i + j \in Nat
    OBVIOUS
  <2> QED
    BY <1>3, <2>1, Zenon
<1>5. InLog(s) \in Nat
  <2>1. CASE reader[s] = "append"
    BY <1>3, <2>1 DEF InLog
  <2>2. CASE reader[s] # "append"
    BY <1>4, <2>2 DEF InLog
  <2> QED
    BY <2>1, <2>2
<1> QED
  BY <1>1, <1>3, <1>5

LEMMA StreamsInit == Init => StreamsInv
<1> SUFFICES ASSUME Init, NEW s \in Streams PROVE StreamInv(s)
  BY DEF StreamsInv
<1>1. /\ chunk[s] = <<>> /\ builder[s] = <<>> /\ reported[s] = <<>> /\ log = <<>>
      /\ taken[s] = 0
  BY DEF Init
<1>2. Len(<<>>) = 0 /\ 1..0 = {}
  OBVIOUS
<1>3. InLog(s) = 0
  BY <1>1, <1>2 DEF InLog
<1>4. Places(log, s) = {}
  BY <1>1, <1>2 DEF Places
<1>5. HoldsFirst(log, s, 0)
  BY <1>2, <1>4, FS_EmptySet DEF HoldsFirst
<1> QED
  BY <1>1, <1>2, <1>3, <1>5 DEF StreamInv, IsAfter

\* What does not touch stream s, nor the log, keeps its invariant.
LEMMA StreamUntouched ==
  ASSUME StreamsInv, NEW s \in Streams, log' = log,
         reader'[s] = reader[s] \/ (reader[s] = "read" /\ reader'[s] = "done"),
         builder'[s] = builder[s], chunk'[s] = chunk[s],
         taken'[s] = taken[s], reported'[s] = reported[s]
  PROVE  StreamInv(s)'
<1>1. StreamInv(s)
  BY DEF StreamsInv
<1>2. InLog(s)' = InLog(s)
  BY DEF InLog
<1>3. reader'[s] \in {"read", "done"} => chunk[s] = <<>>
  BY <1>1 DEF StreamInv
<1> QED
  BY <1>1, <1>2, <1>3 DEF StreamInv

LEMMA StreamsRead ==
  ASSUME IInv, StreamsInv, NEW s \in Streams, Read(s) PROVE StreamsInv'
<1> SUFFICES ASSUME NEW t \in Streams PROVE StreamInv(t)'
  BY DEF StreamsInv
<1>1. PICK upTo \in (taken[s] + 1)..written[s] :
        /\ chunk' = [chunk EXCEPT ![s] = Chars(s, taken[s], upTo)]
        /\ taken' = [taken EXCEPT ![s] = upTo]
  BY DEF Read
<1>2. /\ reader[s] = "read" /\ reader' = [reader EXCEPT ![s] = "append"]
      /\ UNCHANGED <<builder, reported, log>>
  BY DEF Read
<1>3. /\ reader \in [Streams -> {"read", "append", "callback", "done"}]
      /\ chunk \in [Streams -> Seq(Char)] /\ taken \in [Streams -> 0..MaxWritten]
      /\ taken[s] \in 0..MaxWritten /\ written[s] \in 0..MaxWritten
  BY DEF IInv, TypeOK
<1>4. CASE t # s
  BY <1>1, <1>2, <1>3, <1>4, StreamUntouched
<1>5. CASE t = s
  <2>1. StreamInv(s) /\ Len(<<>>) = 0
    BY DEF StreamsInv
  <2>2. chunk[s] = <<>> /\ Len(builder[s]) = taken[s] /\ InLog(s) = taken[s]
    BY <1>2, <1>3, <2>1, Lengths DEF StreamInv, InLog, IInv
  <2>3. upTo - taken[s] \in Nat /\ upTo \in Nat
    BY <1>3, OutputAssumption
  <2>4. /\ Len(chunk'[s]) = upTo - taken[s]
        /\ \A i \in 1..(upTo - taken[s]) : chunk'[s][i] = <<s, taken[s] + i>>
    BY <1>1, <1>3, <2>3 DEF Chars
  <2>5. reader'[s] = "append" /\ taken'[s] = upTo
    BY <1>1, <1>2, <1>3
  <2>6. InLog(s)' = InLog(s)
    BY <1>2, <2>2, <2>5 DEF InLog
  <2>7. Len(builder[s]) + Len(chunk'[s]) = upTo
    BY <1>3, <2>2, <2>3, <2>4
  <2>8. IsAfter(chunk'[s], s, Len(builder[s]))
    BY <2>2, <2>4 DEF IsAfter
  <2> QED
    BY <1>2, <1>5, <2>1, <2>5, <2>6, <2>7, <2>8 DEF StreamInv
<1> QED
  BY <1>4, <1>5

LEMMA StreamsAppend ==
  ASSUME IInv, StreamsInv, NEW s \in Streams, AppendOutput(s) PROVE StreamsInv'
<1> SUFFICES ASSUME NEW t \in Streams PROVE StreamInv(t)'
  BY DEF StreamsInv
<1>1. /\ reader[s] = "append" /\ reader' = [reader EXCEPT ![s] = "callback"]
      /\ log' = log \o chunk[s]
      /\ UNCHANGED <<taken, chunk, builder, reported>>
  BY DEF AppendOutput
<1>2. /\ reader \in [Streams -> {"read", "append", "callback", "done"}]
      /\ log \in Seq(Char) /\ chunk[s] \in Seq(Char)
  BY DEF IInv, TypeOK
<1>3. StreamInv(s) /\ StreamInv(t)
  BY DEF StreamsInv
<1>4. Len(builder[t]) \in Nat /\ Len(chunk[t]) \in Nat
  BY Lengths DEF IInv
<1>5. CASE t # s
  <2>1. \A k \in 1..Len(chunk[s]) : chunk[s][k][1] # t
    BY <1>3, <1>5 DEF StreamInv, IsAfter
  <2>2. Places(log', t) = Places(log, t)
    BY <1>1, <1>2, <2>1, PlacesOfOthers
  <2>3. \A i, char : Nth(log, t, i, char) => Nth(log', t, i, char)
    BY <1>1, <1>2, PlacesKept
  <2>4. reader'[t] = reader[t] /\ InLog(t)' = InLog(t)
    BY <1>1, <1>2, <1>5 DEF InLog
  <2>5. HoldsFirst(log', t, InLog(t))
    BY <1>3, <2>2, <2>3 DEF StreamInv, HoldsFirst
  <2> QED
    BY <1>1, <1>3, <2>4, <2>5 DEF StreamInv
<1>6. CASE t = s
  <2> DEFINE n == Len(builder[s])
  <2>1. InLog(s) = n /\ InLog(s)' = n + Len(chunk[s]) /\ reader'[s] = "callback"
    BY <1>1, <1>2 DEF InLog
  <2>2. n \in Nat /\ Len(chunk[s]) \in Nat
    BY <1>4, <1>6
  <2>3. HoldsFirst(log, s, n) /\ IsAfter(chunk[s], s, n)
    BY <1>3, <2>1 DEF StreamInv
  <2> HIDE DEF n
  <2>4. HoldsFirst(log \o chunk[s], s, n + Len(chunk[s]))
    BY <1>2, <2>2, <2>3, PlacesOfMore
  <2>5. HoldsFirst(log', s, InLog(s)')
    BY <1>1, <2>1, <2>4 DEF n
  <2>6. reported[s] # Torn => /\ Len(reported[s]) <= InLog(s)'
                              /\ \A i \in 1..Len(reported[s]) : reported[s][i] = <<s, i>>
    <3>1. reported[s] # Torn => /\ Len(reported[s]) \in Nat /\ Len(reported[s]) <= n
                                /\ \A i \in 1..Len(reported[s]) : reported[s][i] = <<s, i>>
      BY <1>3, <2>1, Lengths DEF StreamInv, IInv, n
    <3>2. reported[s] # Torn => Len(reported[s]) <= n + Len(chunk[s])
      BY <2>2, <3>1
    <3> QED
      BY <2>1, <3>1, <3>2 DEF n
  <2> QED
    BY <1>1, <1>3, <1>6, <2>1, <2>5, <2>6 DEF StreamInv
<1> QED
  BY <1>5, <1>6

LEMMA StreamsCallback ==
  ASSUME IInv, StreamsInv, NEW s \in Streams, Callback(s) PROVE StreamsInv'
<1> SUFFICES ASSUME NEW t \in Streams PROVE StreamInv(t)'
  BY DEF StreamsInv
<1>1. /\ reader[s] = "callback" /\ reader' = [reader EXCEPT ![s] = "read"]
      /\ builder' = [builder EXCEPT ![s] = @ \o chunk[s]]
      /\ chunk' = [chunk EXCEPT ![s] = <<>>]
      /\ UNCHANGED <<taken, reported, log>>
  BY DEF Callback
<1>2. /\ reader \in [Streams -> {"read", "append", "callback", "done"}]
      /\ chunk \in [Streams -> Seq(Char)] /\ builder \in [Streams -> Seq(Char)]
      /\ chunk[s] \in Seq(Char) /\ builder[s] \in Seq(Char)
  BY DEF IInv, TypeOK
<1>3. CASE t # s
  BY <1>1, <1>2, <1>3, StreamUntouched
<1>4. CASE t = s
  <2> DEFINE n == Len(builder[s])
             m == Len(chunk[s])
  <2>1. StreamInv(s) /\ n \in Nat /\ m \in Nat /\ Len(<<>>) = 0
    BY Lengths DEF StreamsInv, IInv
  <2>2. reader'[s] = "read" /\ chunk'[s] = <<>> /\ builder'[s] = builder[s] \o chunk[s]
    BY <1>1, <1>2
  <2>3. /\ Len(builder'[s]) = n + m
        /\ \A i \in 1..(n + m) :
             builder'[s][i] = IF i <= n THEN builder[s][i] ELSE chunk[s][i - n]
    BY <1>2, <2>2, ConcatProperties
  <2>4. /\ n + m = taken[s] /\ InLog(s) = n + m
        /\ \A i \in 1..n : builder[s][i] = <<s, i>>
        /\ \A i \in 1..m : chunk[s][i] = <<s, n + i>>
    BY <1>1, <2>1 DEF StreamInv, InLog, IsAfter
  <2>5. InLog(s)' = Len(builder'[s]) + 0
    BY <2>1, <2>2 DEF InLog
  <2> HIDE DEF n, m
  <2>6. ASSUME NEW i \in 1..(n + m) PROVE builder'[s][i] = <<s, i>>
    <3>1. CASE i <= n
      <4>1. i \in 1..n /\ builder'[s][i] = builder[s][i]
        BY <2>1, <2>3, <3>1
      <4> QED
        BY <2>4, <4>1
    <3>2. CASE ~(i <= n)
      <4>1. i - n \in 1..m /\ n + (i - n) = i
        BY <2>1, <3>2
      <4> QED
        BY <2>3, <2>4, <3>2, <4>1
    <3> QED
      BY <3>1, <3>2
  <2>7. InLog(s)' = InLog(s) /\ Len(builder'[s]) + Len(chunk'[s]) = taken[s]
    BY <2>1, <2>2, <2>3, <2>4, <2>5
  <2>8. /\ \A i \in 1..Len(builder'[s]) : builder'[s][i] = <<s, i>>
        /\ IsAfter(chunk'[s], s, Len(builder'[s]))
    <3>1. Len(chunk'[s]) = 0 /\ 1..0 = {}
      BY <2>1, <2>2
    <3> QED
      BY <2>3, <2>6, <3>1 DEF IsAfter
  <2> QED
    BY <1>1, <1>4, <2>1, <2>2, <2>7, <2>8 DEF StreamInv
<1> QED
  BY <1>3, <1>4

\* The builders that a report reads untorn hold what the log has.
LEMMA StreamsReport ==
  ASSUME IInv, StreamsInv, ReadBuilders PROVE StreamsInv'
<1> SUFFICES ASSUME NEW s \in Streams PROVE StreamInv(s)'
  BY DEF StreamsInv
<1>1. PICK torn \in SUBSET {r \in Streams : reader[r] = "callback"} :
        reported' = [r \in Streams |-> IF r \in torn THEN Torn ELSE builder[r]]
  BY DEF ReadBuilders
<1>2. UNCHANGED <<reader, taken, chunk, builder, log>>
  BY DEF ReadBuilders
<1>3. StreamInv(s) /\ Len(builder[s]) \in Nat /\ Len(chunk[s]) \in Nat
  BY Lengths DEF StreamsInv, IInv
<1>4. InLog(s)' = InLog(s) /\ Len(builder[s]) <= InLog(s)
  <2>1. InLog(s)' = InLog(s)
    BY <1>2 DEF InLog
  <2>2. Len(builder[s]) <= Len(builder[s]) + Len(chunk[s]) /\ Len(builder[s]) <= Len(builder[s])
    <3>1. \A i, j \in Nat : i <= i + j /\ i <= i
      OBVIOUS
    <3> QED
      BY <1>3, <3>1, Zenon
  <2>3. CASE reader[s] = "append"
    BY <2>1, <2>2, <2>3 DEF InLog
  <2>4. CASE reader[s] # "append"
    BY <2>1, <2>2, <2>4 DEF InLog
  <2> QED
    BY <2>3, <2>4
<1>5. reported'[s] # Torn => reported'[s] = builder[s]
  BY <1>1
<1> QED
  BY <1>2, <1>3, <1>4, <1>5 DEF StreamInv

\* The invariant of the streams holds in every reachable state.
LEMMA StreamsInvariance == Spec => []StreamsInv
<1>1. IInv /\ StreamsInv /\ [Next]_vars => StreamsInv'
  <2> SUFFICES ASSUME IInv, StreamsInv, [Next]_vars PROVE StreamsInv'
    OBVIOUS
  <2>1. ASSUME UNCHANGED <<reader, taken, chunk, builder, reported, log>> PROVE StreamsInv'
    BY <2>1, StreamUntouched DEF StreamsInv
  <2>2. ASSUME NEW s \in Streams, ReadFails(s) PROVE StreamsInv'
    <3>1. /\ reader[s] = "read" /\ reader' = [reader EXCEPT ![s] = "done"]
          /\ UNCHANGED <<taken, chunk, builder, reported, log>>
      BY <2>2 DEF ReadFails
    <3>2. reader \in [Streams -> {"read", "append", "callback", "done"}]
      BY DEF IInv, TypeOK
    <3>3. \A t \in Streams : reader'[t] = reader[t] \/ (reader[t] = "read" /\ reader'[t] = "done")
      BY <3>1, <3>2
    <3> QED
      BY <3>1, <3>3, StreamUntouched DEF StreamsInv
  <2>3. CASE \E s \in Streams : Reader(s)
    BY <2>2, <2>3, StreamsRead, StreamsAppend, StreamsCallback DEF Reader
  <2>4. CASE Report \/ TimerReports
    BY <2>4, StreamsReport DEF Report, TimerReports
  <2>5. CASE (\E s \in Streams : Produce(s)) \/ ChildExits \/ DescendantExits \/ CmdWait
    BY <2>1, <2>5 DEF Produce, ChildExits, DescendantExits, CmdWait
  <2>6. CASE UNCHANGED vars
    BY <2>1, <2>6 DEF vars
  <2> QED
    BY <2>3, <2>4, <2>5, <2>6 DEF Next
<1> QED
  BY <1>1, StreamsInit, Invariance, PTL DEF Spec

-----------------------------------------------------------------------------
\* Readers, buffers and the result have the values that their types allow.
THEOREM TypeCorrect == Spec => []TypeOK
<1>1. IInv => TypeOK
  BY DEF IInv
<1> QED
  BY <1>1, Invariance, PTL

\* However the streams interleave and whatever was cut off before: the session
\* holds the newest MaxOutputChars characters, its tail the newest TailChars.
THEOREM KeepsNewest == Spec => []SessionKeepsNewest
<1>1. IInv => SessionKeepsNewest
  BY DEF IInv
<1> QED
  BY <1>1, Invariance, PTL
\* The session was given all that the result holds, in the order of the result:
\* whatever the streams, the reads and the appends of the two of them do.
THEOREM ResultLogged == Spec => []ResultIsLogged
<1>1. IInv /\ StreamsInv => ResultIsLogged
  <2> SUFFICES ASSUME IInv, StreamsInv, NEW s \in Streams, reported[s] # Torn,
                      NEW i \in 1..Len(reported[s])
               PROVE  Nth(log, s, i, reported[s][i])
    BY DEF ResultIsLogged
  <2>1. /\ reported[s][i] = <<s, i>> /\ Len(reported[s]) <= InLog(s)
        /\ \A k \in 1..InLog(s) : Nth(log, s, k, <<s, k>>)
    BY DEF StreamsInv, StreamInv, HoldsFirst
  <2>2. i \in 1..InLog(s)
    BY <2>1, Lengths DEF IInv
  <2> QED
    BY <2>1, <2>2
<1> QED
  BY <1>1, Invariance, StreamsInvariance, PTL
================================================================================
