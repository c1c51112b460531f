---------------------------- MODULE RxReadProofs ----------------------------
(***************************************************************************)
(* What read() returns from an rx channel, for any number of clients,      *)
(* requests and messages, any lengths and any queue size: every step keeps *)
(* ReadInv.                                                                *)
(***************************************************************************)
EXTENDS RxInvariants, CanQueueProofs

-----------------------------------------------------------------------------
(* Bytes in order.                                                          *)

\* Facts about sequences.
LEMMA Concatenation ==
  ASSUME NEW S, NEW s \in Seq(S), NEW t \in Seq(S)
  PROVE  /\ s \o t \in Seq(S) /\ Len(s \o t) = Len(s) + Len(t)
         /\ \A i \in 1 .. Len(s) + Len(t) :
              (s \o t)[i] = IF i <= Len(s) THEN s[i] ELSE t[i - Len(s)]
OBVIOUS

LEMMA EmptyAppended == ASSUME NEW S, NEW s \in Seq(S) PROVE s \o <<>> = s
<1>1. <<>> \in Seq(S) /\ Len(<<>>) = 0
  OBVIOUS
<1> QED
  BY <1>1, Concatenation, SameSequence

LEMMA WholeSequence == ASSUME NEW S, NEW s \in Seq(S) PROVE SubSeq(s, 1, Len(s)) = s
OBVIOUS

LEMMA ConcatenationAssociates ==
  ASSUME NEW S, NEW s \in Seq(S), NEW t \in Seq(S), NEW u \in Seq(S)
  PROVE  (s \o t) \o u = s \o (t \o u)
<1> DEFINE l == (s \o t) \o u
           r == s \o (t \o u)
<1>1. /\ s \o t \in Seq(S) /\ Len(s \o t) = Len(s) + Len(t)
      /\ \A i \in 1 .. Len(s) + Len(t) : (s \o t)[i] = IF i <= Len(s) THEN s[i] ELSE t[i - Len(s)]
  BY Concatenation
<1>2. /\ t \o u \in Seq(S) /\ Len(t \o u) = Len(t) + Len(u)
      /\ \A i \in 1 .. Len(t) + Len(u) : (t \o u)[i] = IF i <= Len(t) THEN t[i] ELSE u[i - Len(t)]
  BY Concatenation
<1>3. /\ l \in Seq(S) /\ Len(l) = Len(s) + Len(t) + Len(u)
      /\ \A i \in 1 .. Len(l) : l[i] = IF i <= Len(s) + Len(t) THEN (s \o t)[i]
                                                               ELSE u[i - (Len(s) + Len(t))]
  BY <1>1, Concatenation
<1>4. /\ r \in Seq(S) /\ Len(r) = Len(s) + (Len(t) + Len(u))
      /\ \A i \in 1 .. Len(r) : r[i] = IF i <= Len(s) THEN s[i] ELSE (t \o u)[i - Len(s)]
  BY <1>2, Concatenation
<1> HIDE DEF l, r
<1>5. Len(s) \in Nat /\ Len(t) \in Nat /\ Len(u) \in Nat /\ Len(r) = Len(l)
  BY <1>3, <1>4
<1>6. ASSUME NEW i \in 1 .. Len(l) PROVE l[i] = r[i]
  <2>1. /\ i \in Int /\ 1 <= i /\ i <= Len(s) + Len(t) + Len(u)
        /\ l[i] = IF i <= Len(s) + Len(t) THEN (s \o t)[i] ELSE u[i - (Len(s) + Len(t))]
        /\ r[i] = IF i <= Len(s) THEN s[i] ELSE (t \o u)[i - Len(s)]
    BY <1>3, <1>4, <1>5
  <2>2. CASE i <= Len(s)
    <3>1. i <= Len(s) + Len(t) /\ i \in 1 .. Len(s) + Len(t)
      BY ONLY <1>5, <2>1, <2>2
    <3> QED
      BY ONLY <1>1, <2>1, <2>2, <3>1
  <2>3. CASE ~(i <= Len(s)) /\ i <= Len(s) + Len(t)
    <3>1. i - Len(s) \in 1 .. Len(t) + Len(u) /\ i - Len(s) <= Len(t) /\ i \in 1 .. Len(s) + Len(t)
      BY ONLY <1>5, <2>1, <2>3
    <3> QED
      BY ONLY <1>1, <1>2, <2>1, <2>3, <3>1
  <2>4. CASE ~(i <= Len(s) + Len(t))
    <3>1. /\ i - Len(s) \in 1 .. Len(t) + Len(u) /\ ~(i - Len(s) <= Len(t)) /\ ~(i <= Len(s))
          /\ (i - Len(s)) - Len(t) = i - (Len(s) + Len(t))
      BY ONLY <1>5, <2>1, <2>4
    <3> QED
      BY ONLY <1>2, <2>1, <2>4, <3>1
  <2> QED
    BY <2>2, <2>3, <2>4
<1>7. l = r
  BY <1>3, <1>4, <1>5, <1>6, SameSequence
<1> QED
  BY <1>7 DEF l, r

LEMMA EmptyInOrder == ASSUME NEW top PROVE InOrder(<<>>, top)
BY DEF InOrder

LEMMA InOrderLater ==
  ASSUME NEW s, NEW top \in Nat, NEW more \in Nat, top <= more, InOrder(s, top)
  PROVE  InOrder(s, more)
<1>1. \A i \in 1 .. Len(s) : s[i][1] \in 1 .. more
  BY DEF InOrder
<1> QED
  BY <1>1 DEF InOrder

\* What was returned is in order when it is in order with what the buffer holds.
LEMMA PrefixInOrder ==
  ASSUME NEW s \in Seq(Byte), NEW t \in Seq(Byte), NEW top, InOrder(s \o t, top)
  PROVE  InOrder(s, top)
<1>1. /\ Len(s) \in Nat /\ Len(t) \in Nat /\ Len(s \o t) = Len(s) + Len(t)
      /\ \A i \in 1 .. Len(s) : (s \o t)[i] = s[i]
  BY Concatenation
<1>2. s # <<>> => 1 \in 1 .. Len(s) /\ s \o t # <<>>
  BY <1>1
<1> HIDE DEF Byte
<1>3. \A i \in 2 .. Len(s) : Follows(s[i - 1], s[i])
  <2> TAKE i \in 2 .. Len(s)
  <2>1. i - 1 \in 1 .. Len(s) /\ i \in 1 .. Len(s) /\ i \in 2 .. Len(s \o t)
    BY <1>1
  <2>2. Follows((s \o t)[i - 1], (s \o t)[i])
    BY <2>1 DEF InOrder
  <2> QED
    BY <1>1, <2>1, <2>2
<1>4. 1 .. Len(s) \subseteq 1 .. Len(s \o t)
  BY <1>1
<1>5. \A i \in 1 .. Len(s) : s[i][1] \in 1 .. top
  BY <1>1, <1>4 DEF InOrder
<1>6. \A i, j \in 1 .. Len(s) : i < j => s[i][1] <= s[j][1]
  <2> SUFFICES ASSUME NEW i \in 1 .. Len(s), NEW j \in 1 .. Len(s), i < j
               PROVE  s[i][1] <= s[j][1]
    OBVIOUS
  <2>1. (s \o t)[i][1] <= (s \o t)[j][1]
    BY <1>4 DEF InOrder
  <2> QED
    BY <1>1, <2>1
<1> QED
  BY <1>1, <1>2, <1>3, <1>5, <1>6 DEF InOrder

\* The n bytes of message m after the byte from.
LEMMA BytesOfMessage ==
  ASSUME NEW m \in Nat, NEW from \in Nat, NEW n \in Nat
  PROVE  /\ Bytes(m, from, n) \in Seq(Byte) /\ Len(Bytes(m, from, n)) = n
         /\ \A i \in 1 .. n : Bytes(m, from, n)[i] = <<m, from + i>>
<1>1. \A i \in 1 .. n : <<m, from + i>> \in Byte
  BY DEF Byte
<1> HIDE DEF Byte
<1> QED
  BY <1>1 DEF Bytes

\* The n bytes of message m after the byte from are next after s: s ends with the byte
\* from, or with the end of an earlier message.
NextBytes(s, top, m, from, n) ==
  /\ InOrder(s, top) /\ m \in 1 .. top /\ MsgLen[m] \in Nat
  /\ from \in Nat /\ n \in Nat /\ from + n <= MsgLen[m]
  /\ \A i \in 1 .. Len(s) : s[i][1] <= m
  /\ from = 0 => \A i \in 1 .. Len(s) : s[i][1] < m
  /\ from = 0 /\ s # <<>> => s[Len(s)][2] = MsgLen[s[Len(s)][1]]
  /\ from # 0 => s # <<>> /\ s[Len(s)] = <<m, from>>

\* t is s followed by n bytes up to the byte last of message m.
Run(s, t, top, m, last, n) ==
  /\ InOrder(t, top) /\ Len(t) = Len(s) + n
  /\ \A i \in 1 .. Len(s) : t[i] = s[i]
  /\ \A i \in 1 .. Len(t) : t[i][1] <= m
  /\ n > 0 => t # <<>> /\ t[Len(t)] = <<m, last>>

LEMMA RunInOrder ==
  ASSUME NEW top \in Nat, NEW s, NEW m, NEW from, NEW n, NextBytes(s, top, m, from, n)
  PROVE  Run(s, s \o Bytes(m, from, n), top, m, from + n, n)
<1> USE DEF NextBytes
<1> DEFINE b == Bytes(m, from, n)
           t == s \o b
<1>1. s \in Seq(Byte) /\ Len(s) \in Nat
  BY DEF InOrder
<1>2. b \in Seq(Byte) /\ Len(b) = n /\ \A i \in 1 .. n : b[i] = <<m, from + i>>
  <2>1. m \in Nat
    OBVIOUS
  <2> QED
    BY <2>1, BytesOfMessage
<1> HIDE DEF b, Byte
<1>3. /\ t \in Seq(Byte) /\ Len(t) = Len(s) + n
      /\ \A i \in 1 .. Len(s) + n : t[i] = IF i <= Len(s) THEN s[i] ELSE b[i - Len(s)]
  BY <1>1, <1>2, Concatenation
<1>4. \A i \in 1 .. Len(s) : t[i] = s[i]
  BY <1>1, <1>3
<1>5. \A i \in Len(s) + 1 .. Len(s) + n : t[i] = <<m, from + i - Len(s)>>
  <2> TAKE i \in Len(s) + 1 .. Len(s) + n
  <2>1. i - Len(s) \in 1 .. n /\ ~(i <= Len(s)) /\ i \in 1 .. Len(s) + n
    BY <1>1
  <2>2. t[i] = b[i - Len(s)]
    BY <1>3, <2>1
  <2>3. t[i] = <<m, from + (i - Len(s))>>
    BY <1>2, <2>1, <2>2
  <2> QED
    BY <1>1, <2>1, <2>3
<1> HIDE DEF t
<1>6. \A i \in 1 .. Len(t) : t[i][1] \in 1 .. top /\ t[i][1] <= m
  <2> TAKE i \in 1 .. Len(t)
  <2>1. CASE i \in 1 .. Len(s)
    BY <1>4, <2>1 DEF InOrder
  <2>2. CASE i \in Len(s) + 1 .. Len(s) + n
    BY <1>5, <2>2
  <2> QED
    BY <1>1, <1>3, <2>1, <2>2
<1>7. \A i \in 2 .. Len(t) : Follows(t[i - 1], t[i])
  <2> TAKE i \in 2 .. Len(t)
  <2>1. CASE i \in 1 .. Len(s)
    <3>1. i - 1 \in 1 .. Len(s) /\ i \in 2 .. Len(s)
      BY <1>1, <2>1
    <3> QED
      BY <1>4, <2>1, <3>1 DEF InOrder
  <2>2. CASE i = Len(s) + 1
    <3>1. t[i] = <<m, from + 1>> /\ from + 1 <= MsgLen[m]
      BY <1>1, <1>3, <1>5, <2>2
    <3>2. i - 1 = Len(s) /\ Len(s) \in 1 .. Len(s) /\ s # <<>> /\ t[i - 1] = s[Len(s)]
      BY <1>1, <1>4, <2>2
    <3>3. CASE from = 0
      <4>1. s[Len(s)][1] < m /\ s[Len(s)][2] = MsgLen[s[Len(s)][1]] /\ s[Len(s)][1] \in Int
        BY <3>2, <3>3 DEF InOrder
      <4> QED
        BY <3>1, <3>2, <3>3, <4>1 DEF Follows
    <3>4. CASE from # 0
      BY <3>1, <3>2, <3>4 DEF Follows
    <3> QED
      BY <3>3, <3>4
  <2>3. CASE i \in Len(s) + 2 .. Len(s) + n
    <3>1. t[i - 1] = <<m, from + (i - 1) - Len(s)>> /\ t[i] = <<m, from + i - Len(s)>>
      <4>1. i - 1 \in Len(s) + 1 .. Len(s) + n /\ i \in Len(s) + 1 .. Len(s) + n
        BY <1>1, <2>3
      <4> QED
        BY ONLY <1>5, <4>1
    <3>2. from + i - Len(s) = (from + (i - 1) - Len(s)) + 1 /\ from + i - Len(s) <= MsgLen[m]
      BY <1>1, <2>3
    <3> QED
      BY ONLY <3>1, <3>2 DEF Follows
  <2> QED
    BY <1>1, <1>3, <2>1, <2>2, <2>3
<1>8. t # <<>> => t[1][2] = 1
  <2>1. CASE s # <<>>
    BY <1>1, <1>4, <2>1 DEF InOrder
  <2>2. CASE s = <<>>
    <3>1. Len(s) = 0 /\ from = 0
      BY <2>2
    <3> QED
      BY <1>3, <1>5, <3>1
  <2> QED
    BY <2>1, <2>2
<1>9. \A i, j \in 1 .. Len(t) : i < j => t[i][1] <= t[j][1]
  <2> SUFFICES ASSUME NEW i \in 1 .. Len(t), NEW j \in 1 .. Len(t), i < j
               PROVE  t[i][1] <= t[j][1]
    OBVIOUS
  <2>1. CASE j \in 1 .. Len(s)
    <3>1. i \in 1 .. Len(s)
      BY <1>1, <2>1
    <3> QED
      BY <1>4, <2>1, <3>1 DEF InOrder
  <2>2. CASE j \in Len(s) + 1 .. Len(s) + n
    BY <1>5, <1>6, <2>2
  <2> QED
    BY <1>1, <1>3, <2>1, <2>2
<1>10. n > 0 => t # <<>> /\ t[Len(t)] = <<m, from + n>>
  <2> SUFFICES ASSUME n > 0 PROVE t # <<>> /\ t[Len(t)] = <<m, from + n>>
    OBVIOUS
  <2>1. Len(t) \in Len(s) + 1 .. Len(s) + n /\ from + Len(t) - Len(s) = from + n /\ Len(t) # 0
    BY <1>1, <1>3
  <2>2. t[Len(t)] = <<m, from + Len(t) - Len(s)>>
    BY ONLY <1>5, <2>1
  <2>3. t # <<>>
    BY ONLY <2>1
  <2> QED
    BY ONLY <2>1, <2>2, <2>3
<1>11. InOrder(t, top)
  BY <1>3, <1>6, <1>7, <1>8, <1>9 DEF InOrder
<1> QED
  BY <1>3, <1>4, <1>6, <1>10, <1>11 DEF t, b, Run

-----------------------------------------------------------------------------
(* The messages that left the ring.                                         *)

LEMMA GoneType ==
  ASSUME RingTypeOK, HoldsNewest
  PROVE  /\ Count \in Nat /\ Gone \in Nat /\ stored \in Nat /\ takes \in Nat
         /\ Gone <= stored /\ (Count > 0 => Gone + 1 <= stored)
BY CountType DEF RingTypeOK, HoldsNewest, Gone

\* The slot at begin holds the oldest message.
LEMMA Oldest ==
  ASSUME RingTypeOK, HoldsNewest, Count > 0 PROVE data[begin] = Gone + 1
<1>1. Count \in Nat /\ stored \in Nat
  BY GoneType
<1>2. begin \in Nat /\ begin < Size /\ Size \in Nat
  BY <1>1, SizeAssumption DEF RingTypeOK, Count
<1>3. 1 \in 1 .. Count /\ NthSlot(1) = begin
  BY <1>1, <1>2 DEF NthSlot
<1>4. Contents[1] = data[begin]
  BY <1>3 DEF Contents
<1> QED
  BY <1>1, <1>3, <1>4 DEF HoldsNewest, Gone

LEMMA NotEmpty == ASSUME RingTypeOK PROVE size # 0 /\ ~RingEmpty <=> Count > 0
BY SizeAssumption DEF RingTypeOK, RingEmpty, Count

\* enqueue loses no message or moves begin.
LEMMA StoreGone ==
  ASSUME RingTypeOK, Store
  PROVE  /\ stored' = stored + 1 /\ stored' <= MaxStored /\ takes' = takes
         /\ Count' <= Count + 1
         /\ Count' = Count + 1 => begin' = begin
<1>1. /\ size = Size /\ Size \in Nat /\ Size >= 3
      /\ begin \in 0 .. Size - 1 /\ end \in 0 .. Size /\ stored \in Nat
  BY SizeAssumption DEF RingTypeOK, Store
<1>2. stored' = stored + 1 /\ stored' <= MaxStored /\ takes' = takes
  BY <1>1, MaxStoredAssumption DEF Store, Put
<1>3. CASE end = Size /\ begin = 0 /\ Put(2, 0, 0)
  BY <1>1, <1>2, <1>3 DEF Put, Count
<1>4. CASE end = Size /\ begin \in 1 .. Size - 1 /\ Put(begin, 0, 0)
  BY <1>1, <1>2, <1>4 DEF Put, Count
<1>5. CASE end = Size - 2 /\ begin = Size - 1 /\ Put(0, end, 0)
  BY <1>1, <1>2, <1>5 DEF Put, Count
<1>6. CASE end \in 0 .. Size - 3 /\ begin = end + 1 /\ Put(begin + 1, end, 1)
  BY <1>1, <1>2, <1>6 DEF Put, Count
<1>7. CASE end \in 0 .. Size - 1 /\ begin # end + 1 /\ Put(begin, end, 0)
  BY <1>1, <1>2, <1>7 DEF Put, Count
<1> QED
  BY <1>3, <1>4, <1>5, <1>6, <1>7, StoreCases

\* A dequeue removes one message.
LEMMA TakeGone ==
  ASSUME RingTypeOK, Take
  PROVE  stored' = stored /\ takes' = takes + 1 /\ Count' = Count - 1
<1>1. /\ size = Size /\ Size \in Nat /\ Size >= 3 /\ begin # end
      /\ begin \in 0 .. Size - 1 /\ end \in 0 .. Size
  BY SizeAssumption DEF RingTypeOK, Take, RingEmpty
<1>2. CASE begin + 1 = Size
  BY <1>1, <1>2 DEF Take, Count
<1>3. CASE begin + 1 # Size
  BY <1>1, <1>3 DEF Take, Count
<1> QED
  BY <1>2, <1>3

\* What is used below of cardinalities, for sets of message numbers.  RxTheorems proves it (CountingHolds).
CountingOK ==
  /\ Cardinality({}) = 0
  /\ \A n \in Nat : \A S \in SUBSET (1 .. n) : Cardinality(S) \in Nat
  /\ \A n \in Nat : \A S \in SUBSET (1 .. n) : \A T \in SUBSET S : Cardinality(T) <= Cardinality(S)
  /\ \A n, k \in Nat : \A S \in SUBSET (1 .. n + k) :
       Cardinality(S) <= Cardinality(S \cap (1 .. n)) + k

LEMMA UnreturnedCount ==
  ASSUME CountingOK, NEW s, NEW top \in Nat
  PROVE  Unreturned(s, top) \in SUBSET (1 .. top) /\ Cardinality(Unreturned(s, top)) \in Nat
<1>1. Unreturned(s, top) \in SUBSET (1 .. top)
  BY DEF Unreturned
<1> QED
  BY <1>1 DEF CountingOK

\* At most the messages that leave the ring are added.
LEMMA UnreturnedGrows ==
  ASSUME CountingOK, NEW s, NEW f \in Nat, NEW g \in Nat, f <= g
  PROVE  Cardinality(Unreturned(s, g)) <= Cardinality(Unreturned(s, f)) + (g - f)
<1>1. g - f \in Nat /\ f + (g - f) = g
  OBVIOUS
<1>2. Unreturned(s, g) \in SUBSET (1 .. f + (g - f))
  BY <1>1, UnreturnedCount
<1>3. Unreturned(s, g) \cap (1 .. f) = Unreturned(s, f)
  BY DEF Unreturned
<1> QED
  BY <1>1, <1>2, <1>3 DEF CountingOK

\* More bytes leave no more messages unreturned.
LEMMA UnreturnedShrinks ==
  ASSUME CountingOK, NEW s, NEW t, NEW top \in Nat, Len(s) \in Nat, Len(t) \in Nat, Len(s) <= Len(t),
         \A i \in 1 .. Len(s) : t[i] = s[i]
  PROVE  Cardinality(Unreturned(t, top)) <= Cardinality(Unreturned(s, top))
<1>1. Unreturned(t, top) \in SUBSET Unreturned(s, top)
  <2>1. 1 .. Len(s) \subseteq 1 .. Len(t)
    OBVIOUS
  <2> QED
    BY <2>1 DEF Unreturned
<1> QED
  BY <1>1, UnreturnedCount DEF CountingOK

\* The removal of a message that was returned, or is empty, adds none.
LEMMA UnreturnedRemoved ==
  ASSUME NEW s, NEW top \in Nat,
         MsgLen[top + 1] > 0 => \E i \in 1 .. Len(s) : s[i][1] = top + 1
  PROVE  Unreturned(s, top + 1) = Unreturned(s, top)
BY DEF Unreturned

-----------------------------------------------------------------------------
(* The invariant.                                                           *)

LEMMA SkippedCount == ASSUME CountingOK, stored \in Nat PROVE Cardinality(Skipped) \in Nat
<1>1. Skipped \in SUBSET (1 .. stored)
  BY DEF Skipped
<1> QED
  BY <1>1 DEF CountingOK

LEMMA ReadInit == ASSUME CountingOK, RxInit PROVE ReadInv
<1>1. /\ stored = 0 /\ takes = 0 /\ begin = 0 /\ end = 0 /\ read = <<>> /\ buffer = <<>>
      /\ offset = 0 /\ handler.st = "idle"
  BY DEF RxInit, Init, RingInit, NoHandler
<1>2. Got = <<>> /\ Count = 0 /\ Gone = 0 /\ Lost = 0 /\ ~Held
  BY <1>1 DEF Got, Count, Gone, Lost, Held
<1>3. Skipped = {} /\ Unreturned(<<>>, 0) = {}
  BY <1>1 DEF Skipped, Unreturned
<1>4. Cardinality({}) = 0
  BY DEF CountingOK
<1>5. GotInv
  BY <1>1, <1>2, <1>3, <1>4, EmptyInOrder, MaxStoredAssumption DEF GotInv
<1>6. PlaceInv
  BY <1>1, <1>2, <1>3, <1>4 DEF PlaceInv
<1> QED
  BY <1>5, <1>6 DEF ReadInv

\* A step that leaves the messages and the bytes alone.
LEMMA ReadSame ==
  ASSUME ReadInv, UNCHANGED ringVars, UNCHANGED <<read, buffer, offset, close>>,
         ~spoiled' => ~spoiled, close = "open" => (Held' <=> Held),
         handler'.st = "copy" =>
           \/ handler.st = "copy" /\ ptr'["handler"] = ptr["handler"] /\ nbytes' = nbytes
           \/ Count > 0 /\ ptr'["handler"].slot = begin /\ Len(buffer) < nbytes'
  PROVE  ReadInv'
<1> SUFFICES ASSUME ~spoiled' PROVE (GotInv /\ (close = "open" => PlaceInv))'
  BY DEF ReadInv
<1>1. ~spoiled /\ GotInv
  BY DEF ReadInv
<1>2. UNCHANGED <<stored, takes, begin, end>> /\ Count' = Count
  BY DEF ringVars, Count
<1>3. Got' = Got /\ Gone' = Gone /\ Lost' = Lost /\ Skipped' = Skipped
  BY <1>2 DEF Got, Gone, Lost, Skipped
<1>4. GotInv'
  BY <1>1, <1>2, <1>3 DEF GotInv
<1>5. ASSUME close' = "open" PROVE PlaceInv'
  <2>1. PlaceInv /\ (Held' <=> Held)
    BY <1>1, <1>5 DEF ReadInv
  <2>2. LastGot' = LastGot
    BY <1>3 DEF LastGot
  <2> QED
    BY <1>2, <1>3, <2>1, <2>2 DEF PlaceInv
<1> QED
  BY <1>4, <1>5

-----------------------------------------------------------------------------
(* The steps of the other threads.                                          *)

\* A thread that does not store or remove leaves the ring and the handler's pointer alone.
LEMMA OtherThread ==
  ASSUME TypeOK, NEW t, t # "handler", CheckSession(t) \/ LockDestroyed(t) \/ Use(t)
  PROVE  /\ UNCHANGED ringVars
         /\ pc'["handler"] = pc["handler"] /\ ptr'["handler"] = ptr["handler"]
<1>1. "handler" \in Threads
  BY ClientAssumption DEF Threads
<1> QED
  BY <1>1 DEF TypeOK, CheckSession, LockDestroyed, Use, Goto

LEMMA ReaderPeeks ==
  ASSUME TypeOK, ReaderLocks \/ ReaderWakes
  PROVE  /\ UNCHANGED ringVars
         /\ pc'["handler"] = pc["handler"] /\ ptr'["handler"] = ptr["handler"]
<1>1. "handler" \in Threads /\ ReaderOp # "dequeue"
  BY ClientAssumption DEF Threads
<1>2. CASE ReaderSleeps
  BY <1>1, <1>2 DEF TypeOK, ReaderSleeps, Goto
<1>3. CASE ReaderReturns
  <2>1. UNCHANGED ringVars /\ \E label : Goto("reader", label)
    BY <1>1, <1>3 DEF ReaderReturns, ReturnHead
  <2>2. UNCHANGED ptr \/ \E v : ptr' = [ptr EXCEPT !["reader"] = v]
    BY <1>1, <1>3 DEF ReaderReturns, ReturnHead
  <2> QED
    BY <1>1, <2>1, <2>2 DEF TypeOK, Goto
<1> QED
  BY <1>2, <1>3 DEF ReaderLocks, ReaderWakes

\* netif_rx stores a message, and may drop others.
LEMMA ReceiveKeepsReadInv ==
  ASSUME CountingOK, TypeOK, HoldsNewest, TypeOK', HoldsNewest', ReadInv,
         NEW p \in Producers, Receive(p)
  PROVE  ReadInv'
<1>1. /\ UNCHANGED <<read, buffer, offset, handler, client, close>>
      /\ spoiled' = (spoiled \/ (InMessage /\ Lost' > Lost))
  BY DEF Receive, ocbVars, readVars
<1>2. p # "handler" /\ "handler" \in Threads /\ nbytes' = nbytes /\ op' = op
  BY <1>1, ClientAssumption, ThreadsAssumption DEF Threads, nbytes, op
<1>3. CASE CheckSession(p) \/ LockDestroyed(p)
  <2>1. /\ UNCHANGED ringVars
        /\ pc'["handler"] = pc["handler"] /\ ptr'["handler"] = ptr["handler"]
    BY <1>2, <1>3, OtherThread
  <2>2. Held' <=> Held
    BY <1>1, <2>1 DEF Held
  <2>3. ~spoiled' => ~spoiled
    BY <1>1
  <2> QED
    BY <1>1, <1>2, <2>1, <2>2, <2>3, ReadSame
<1>4. CASE Enqueue(p)
  <2> SUFFICES ASSUME ~spoiled' PROVE (GotInv /\ (close = "open" => PlaceInv))'
    BY DEF ReadInv
  <2>1. GotInv /\ (close = "open" => PlaceInv) /\ (InMessage => ~(Lost' > Lost))
    BY <1>1 DEF ReadInv
  <2>2. /\ stored' = stored + 1 /\ stored' <= MaxStored /\ takes' = takes
        /\ Count' <= Count + 1 /\ (Count' = Count + 1 => begin' = begin)
    BY <1>4, StoreGone DEF Enqueue, TypeOK
  <2>3. /\ Count \in Nat /\ stored \in Nat /\ takes \in Nat /\ Gone \in Nat /\ Gone <= stored
    BY GoneType DEF TypeOK
  <2>4. Count' \in Nat
    BY CountTypeNext DEF TypeOK
  <2>5. /\ Gone' >= Gone /\ Gone' \in Nat /\ Lost' - Lost = Gone' - Gone /\ Lost \in Int /\ Lost' \in Int
        /\ (Gone' = Gone => Count' = Count + 1)
    <3>1. /\ Gone = stored - Count /\ Gone' = (stored + 1) - Count'
          /\ Lost = stored - takes - Count /\ Lost' = (stored + 1) - takes - Count'
      BY <2>2 DEF Gone, Lost
    <3> DEFINE d == Count'
               g == Gone'
               l == Lost'
    <3>2. /\ d \in Nat /\ d <= Count + 1 /\ Gone = stored - Count /\ g = (stored + 1) - d
          /\ Lost = stored - takes - Count /\ l = (stored + 1) - takes - d
      BY <2>2, <2>4, <3>1
    <3> SUFFICES /\ g >= Gone /\ g \in Nat /\ l - Lost = g - Gone /\ Lost \in Int /\ l \in Int
                 /\ (g = Gone => d = Count + 1)
      OBVIOUS
    <3> HIDE DEF d, g, l
    <3> QED
      BY ONLY <2>3, <3>2
  <2>6. Got' = Got /\ LastGot' = LastGot
    BY <1>1 DEF Got, LastGot
  <2>7. Skipped' = Skipped
    <3>1. InOrder(read, stored)
      BY <2>1, PrefixInOrder DEF GotInv, Got
    <3>2. \A i \in DOMAIN read : read[i][1] \in 1 .. stored
      BY <3>1 DEF InOrder
    <3>3. ~(\E k \in {read[i][1] : i \in DOMAIN read} : stored + 1 < k)
      BY <2>3, <3>2
    <3>4. 1 .. stored' = (1 .. stored) \cup {stored + 1}
      BY <2>2, <2>3
    <3> QED
      BY ONLY <1>1, <3>3, <3>4 DEF Skipped
  <2>8. GotInv'
    <3>1. InOrder(Got, stored')
      BY <2>1, <2>2, <2>3, InOrderLater DEF GotInv
    <3>2. Cardinality(Skipped) \in Nat
      BY <2>3, SkippedCount
    <3>3. Cardinality(Skipped) <= Lost'
      <4>1. Cardinality(Skipped) <= Lost
        BY <2>1 DEF GotInv
      <4> QED
        BY ONLY <2>3, <2>5, <3>2, <4>1
    <3> QED
      BY <1>1, <2>1, <2>2, <2>6, <2>7, <3>1, <3>3 DEF GotInv
  <2>9. ASSUME close' = "open" PROVE PlaceInv'
    <3>1. PlaceInv
      BY <1>1, <2>1, <2>9
    <3>2. pc'["handler"] = pc["handler"] /\ ptr' = ptr
      BY <1>2, <1>4 DEF Enqueue, Goto, TypeOK
    <3>3. Held' <=> Held
      BY <1>1, <3>2 DEF Held
    <3>4. Cardinality(Unreturned(Got, Gone')) <= Lost'
      <4>1. Cardinality(Unreturned(Got, Gone')) <= Cardinality(Unreturned(Got, Gone)) + (Gone' - Gone)
        BY <2>3, <2>5, UnreturnedGrows
      <4>2. /\ Cardinality(Unreturned(Got, Gone')) \in Nat
            /\ Cardinality(Unreturned(Got, Gone)) \in Nat
        BY <2>3, <2>5, UnreturnedCount
      <4> QED
        BY <2>5, <3>1, <4>1, <4>2 DEF PlaceInv
    <3>5. CASE InMessage
      <4>1. Gone' = Gone /\ Count' = Count + 1 /\ begin' = begin
        BY ONLY <2>1, <2>2, <2>3, <2>5, <3>5
      <4>2. offset' = offset /\ handler' = handler /\ buffer' = buffer /\ nbytes' = nbytes
        BY <1>1 DEF nbytes
      <4>3. Count > 0 => Count' > 0
        BY ONLY <2>3, <4>1
      <4> QED
        BY ONLY <2>6, <3>1, <3>2, <3>3, <3>4, <4>1, <4>2, <4>3 DEF PlaceInv
    <3>6. CASE ~InMessage
      <4>1. offset = 0 /\ ~Held /\ handler.st # "copy"
        BY <3>6 DEF InMessage, Held
      <4>2. \A i \in 1 .. Len(Got) : Got[i][1] <= Gone'
        <5>1. \A i \in 1 .. Len(Got) : Got[i][1] <= Gone /\ Got[i][1] \in Int
          BY <2>1, <3>1, <4>1 DEF PlaceInv, GotInv, InOrder
        <5> QED
          BY <2>3, <2>5, <5>1
      <4> QED
        BY <1>1, <2>6, <3>1, <3>3, <3>4, <4>1, <4>2 DEF PlaceInv
    <3> QED
      BY <3>5, <3>6
  <2> QED
    BY <2>8, <2>9
<1> QED
  BY <1>3, <1>4 DEF Receive

\* rx_loop takes nothing from the ring.
LEMMA LoopKeepsReadInv ==
  ASSUME TypeOK, ReadInv, LoopStep PROVE ReadInv'
<1>1. UNCHANGED <<read, buffer, offset, close, client, spoiled>>
  BY DEF LoopStep, WaitForClient, TestQueue, PeekNull, Peek, PeekReturns, PickClient,
         msg_again_callback, ocbVars, readVars, history
<1>2. /\ UNCHANGED ringVars
      /\ pc'["handler"] = pc["handler"] /\ ptr'["handler"] = ptr["handler"]
  <2>1. CASE Peek \/ PeekReturns
    <3>1. "reader" # "handler"
      OBVIOUS
    <3> QED
      BY <2>1, <3>1, OtherThread, ReaderPeeks DEF Peek, PeekReturns
  <2>2. CASE ~(Peek \/ PeekReturns)
    BY <2>2 DEF LoopStep, WaitForClient, TestQueue, PeekNull, PickClient, msg_again_callback,
                queueVars
  <2> QED
    BY <2>1, <2>2
<1>3. CASE msg_again_callback
  <2>1. handler.st = "idle" /\ handler'.st \in {"peek", "take", "idle"}
    BY <1>3 DEF msg_again_callback, NoHandler
  <2>2. Held' <=> Held
    BY <2>1 DEF Held
  <2> QED
    BY <1>1, <1>2, <2>1, <2>2, ReadSame
<1>4. CASE ~msg_again_callback
  <2>1. UNCHANGED handler
    BY <1>4 DEF LoopStep, WaitForClient, TestQueue, PeekNull, Peek, PeekReturns, PickClient
  <2>2. (Held' <=> Held) /\ nbytes' = nbytes
    BY <1>1, <1>2, <2>1 DEF Held, nbytes
  <2> QED
    BY <1>1, <1>2, <2>1, <2>2, ReadSame
<1> QED
  BY <1>3, <1>4

-----------------------------------------------------------------------------
(* The handler.                                                             *)

LEMMA HandlerOpen ==
  ASSUME WaitInv, handler.st # "idle"
  PROVE  handler # NoHandler /\ close = "open" /\ nbytes \in Nat
<1>1. handler # NoHandler
  BY DEF NoHandler
<1>2. handler.client \in Clients /\ close = "open"
  BY <1>1 DEF WaitInv, RxType, HandlerInv
<1>3. \A r \in Requests \cup {Ready} : r.n \in Nat
  <2>1. \A r \in [op : {"read"}, n : ReadSizes] : r.n \in Nat
    BY ClientAssumption
  <2>2. Ready.n \in Nat /\ read_frame_raw_block.n \in Nat /\ read_frame_raw_noblock.n \in Nat
    BY DEF Ready, read_frame_raw_block, read_frame_raw_noblock
  <2> QED
    BY <2>1, <2>2 DEF Requests
<1> QED
  BY <1>1, <1>2, <1>3 DEF WaitInv, RxType, nbytes

LEMMA HandlerSt ==
  ASSUME WaitInv, handler.st # "idle", NEW st, handler' = [handler EXCEPT !.st = st]
  PROVE  handler'.st = st /\ handler'.client = handler.client
<1>1. handler \in [client : Clients, st : HandlerStates, again : BOOLEAN]
  BY DEF WaitInv, RxType, NoHandler
<1> QED
  BY <1>1

\* What a section of dequeue_noblock or dequeue_peek_noblock may do.
LEMMA HandlerLocks ==
  ASSUME TypeOK, PollerLocks("handler")
  PROVE  /\ pc["handler"] = "lock"
         /\ \/ /\ UNCHANGED ringVars /\ ~(size # 0 /\ ~RingEmpty) /\ pc'["handler"] = "idle"
            \/ Take /\ pc'["handler"] = "use"
            \/ Take /\ pc'["handler"] = "lock"
            \/ /\ UNCHANGED ringVars /\ size # 0 /\ ~RingEmpty /\ pc'["handler"] = "use"
               /\ ptr'["handler"].slot = begin
<1>1. "handler" \in Threads /\ pc \in [Threads -> Labels] /\ DOMAIN ptr = Threads
  BY ClientAssumption DEF Threads, TypeOK
<1> QED
  BY <1>1 DEF PollerLocks, Expire, ReturnHead, Goto

\* A look at the oldest message.
LEMMA PeeksKeepReadInv ==
  ASSUME TypeOK, WaitInv, ReadInv, ReadPeeks \/ ReadHasEnough PROVE ReadInv'
<1>1. /\ UNCHANGED <<read, buffer, offset, close, client, spoiled>>
      /\ handler.st = "peek" /\ ~Held
  BY DEF ReadPeeks, ReadHasEnough, ocbVars, readVars, history, Held
<1>2. CASE ReadHasEnough
  <2>1. handler'.st = "done" /\ UNCHANGED ringVars
    BY <1>1, <1>2, HandlerSt DEF ReadHasEnough, queueVars
  <2>2. ~Held'
    BY <2>1 DEF Held
  <2> QED
    BY <1>1, <2>1, <2>2, ReadSame
<1>3. CASE ReadPeeks /\ CheckSession("handler") /\ UNCHANGED handler
  <2>1. UNCHANGED ringVars
    BY <1>3 DEF CheckSession
  <2>2. ~Held'
    BY <1>1, <1>3 DEF Held
  <2> QED
    BY <1>1, <1>3, <2>1, <2>2, ReadSame
<1>4. CASE /\ ReadPeeks /\ PollerLocks("handler") /\ takes' = takes
           /\ handler' = [handler EXCEPT !.st = IF pc'["handler"] = "use" THEN "copy" ELSE "list"]
  <2>1. handler'.st = (IF pc'["handler"] = "use" THEN "copy" ELSE "list") /\ handler'.client = handler.client
    BY <1>1, <1>4, HandlerSt
  <2>2. ~Held'
    BY <2>1 DEF Held
  <2>3. ~Take
    BY <1>4 DEF Take, TypeOK, RingTypeOK
  <2>4. CASE UNCHANGED ringVars /\ pc'["handler"] = "idle"
    BY <1>1, <2>1, <2>2, <2>4, ReadSame
  <2>5. CASE UNCHANGED ringVars /\ size # 0 /\ ~RingEmpty /\ ptr'["handler"].slot = begin
    <3>1. Count > 0
      BY <2>5, NotEmpty DEF TypeOK
    <3>2. Len(buffer) < nbytes'
      BY <1>1, <1>4, <2>1 DEF ReadPeeks, nbytes
    <3> QED
      BY <1>1, <2>2, <2>5, <3>1, <3>2, ReadSame
  <2> QED
    BY <1>4, <2>3, <2>4, <2>5, HandlerLocks
<1> QED
  BY <1>2, <1>3, <1>4 DEF ReadPeeks

\* The reads of io_devctl take nothing, or spoil what read() returns.
LEMMA DevctlKeepsReadInv ==
  ASSUME TypeOK, WaitInv, ReadInv, DevctlTakes PROVE ReadInv'
<1> SUFFICES ASSUME ~spoiled' PROVE ReadInv'
  BY DEF ReadInv
<1>1. /\ UNCHANGED <<read, buffer, offset, close, client>>
      /\ handler.st = "take" /\ ~Held
  BY DEF DevctlTakes, ocbVars, readVars, Held
<1>2. ~spoiled /\ (PollerLocks("handler") /\ pc["handler"] = "lock" => RingEmpty)
  <2>1. CASE CheckSession("handler") /\ UNCHANGED spoiled
    BY <2>1 DEF CheckSession
  <2>2. CASE spoiled' = (spoiled \/ ~RingEmpty)
    BY <2>2
  <2>3. CASE Use("handler") /\ UNCHANGED spoiled
    BY <2>3 DEF Use
  <2> QED
    BY <2>1, <2>2, <2>3 DEF DevctlTakes
<1>3. UNCHANGED ringVars
  <2>1. CASE CheckSession("handler") \/ Use("handler")
    BY <2>1 DEF CheckSession, Use
  <2>2. CASE PollerLocks("handler")
    BY <1>2, <2>2, HandlerLocks DEF Take
  <2> QED
    BY <2>1, <2>2 DEF DevctlTakes
<1>4. handler'.st \in {"take", "list", "done"}
  BY <1>1, HandlerSt DEF DevctlTakes
<1>5. ~Held'
  BY <1>4 DEF Held
<1> QED
  BY <1>1, <1>2, <1>3, <1>4, <1>5, ReadSame

\* A handler that returns without data.
LEMMA WaitsKeepReadInv ==
  ASSUME TypeOK, WaitInv, ReadInv, ReplyAgain \/ Block PROVE ReadInv'
<1>1. /\ UNCHANGED <<ringVars, read, buffer, offset, close, spoiled>>
      /\ handler.st = "list" /\ handler'.st = "idle"
  BY DEF ReplyAgain, Block, Finish, NoHandler, queueVars, ocbVars, readVars, history
<1>2. Held' <=> Held
  BY <1>1 DEF Held
<1> QED
  BY <1>1, <1>2, ReadSame

\* The copy: the bytes of the oldest message follow what was copied before.
LEMMA CopyKeepsReadInv ==
  ASSUME CountingOK, TypeOK, HoldsNewest, WaitInv, ReadInv, ReadCopies PROVE ReadInv'
<1> SUFFICES ASSUME ~spoiled' PROVE ReadInv'
  BY DEF ReadInv
<1> DEFINE m == data[ptr["handler"].slot]
           rest == MsgLen[m] - offset
           n == IF Len(buffer) + rest \in 0 .. nbytes THEN rest ELSE nbytes - Len(buffer)
<1>1. /\ UNCHANGED <<ringVars, read, client, close>> /\ ~spoiled /\ handler.st = "copy"
      /\ buffer' = buffer \o Bytes(m, offset, n)
      /\ offset' = IF n = rest THEN 0 ELSE offset + n
      /\ handler' = [handler EXCEPT !.st = IF n = rest THEN "drop" ELSE "peek"]
  BY DEF ReadCopies, Use, history
<1>2. handler'.st = (IF n = rest THEN "drop" ELSE "peek") /\ pc'["handler"] = "idle"
  <2>1. "handler" \in Threads
    BY ClientAssumption DEF Threads
  <2> QED
    BY <1>1, <2>1, HandlerSt DEF ReadCopies, Use, Goto, TypeOK
<1>3. close = "open" /\ GotInv /\ PlaceInv /\ nbytes \in Nat
  BY <1>1, HandlerOpen DEF ReadInv
<1>4. /\ Count > 0 /\ ptr["handler"].slot = begin /\ Len(buffer) < nbytes /\ ~Held
      /\ read \in Seq(Byte) /\ buffer \in Seq(Byte) /\ InOrder(Got, stored) /\ offset \in Nat
  BY <1>1, <1>3 DEF PlaceInv, GotInv, Held
<1>5. /\ m = Gone + 1 /\ Gone \in Nat /\ stored \in Nat /\ m \in 1 .. stored
      /\ MsgLen[m] \in Nat
  <2>1. m = Gone + 1 /\ Gone \in Nat /\ stored \in Nat /\ m \in 1 .. stored
    BY <1>4, Oldest, GoneType DEF TypeOK
  <2>2. m \in 1 .. MaxStored
    BY <1>3, <2>1, MaxStoredAssumption DEF GotInv
  <2> QED
    BY <2>1, <2>2, ClientAssumption
<1>6. Len(buffer) \in Nat /\ Len(Got) \in Nat
  BY <1>4 DEF InOrder
<1> HIDE DEF m
<1>7. offset <= MsgLen[m] /\ (offset # 0 => offset < MsgLen[m])
  BY <1>3, <1>4, <1>5 DEF PlaceInv
<1>8. /\ n \in Nat /\ rest \in Nat /\ offset + n <= MsgLen[m] /\ (n # rest => n > 0)
      /\ (n = rest => offset + n = MsgLen[m]) /\ (n # rest => offset + n < MsgLen[m])
  <2>1. rest \in Nat /\ rest = MsgLen[m] - offset
    BY <1>4, <1>5, <1>7
  <2> HIDE DEF rest
  <2>2. CASE Len(buffer) + rest \in 0 .. nbytes
    <3>1. n = rest
      BY <2>2
    <3> HIDE DEF n
    <3> QED
      BY ONLY <1>4, <1>5, <2>1, <3>1
  <2>3. CASE Len(buffer) + rest \notin 0 .. nbytes
    <3>1. n = nbytes - Len(buffer)
      BY <2>3
    <3>2. Len(buffer) + rest > nbytes
      BY ONLY <1>3, <1>6, <2>1, <2>3
    <3> HIDE DEF n
    <3>3. n \in Nat /\ n > 0 /\ n < rest
      BY ONLY <1>3, <1>4, <1>6, <2>1, <3>1, <3>2
    <3> QED
      BY ONLY <1>4, <1>5, <2>1, <3>3
  <2> QED
    BY <2>2, <2>3
<1> HIDE DEF n, rest
<1> DEFINE t == Got \o Bytes(m, offset, n)
<1>9. Got' = t /\ buffer' \in Seq(Byte) /\ read' \in Seq(Byte)
  <2>1. Bytes(m, offset, n) \in Seq(Byte)
    BY <1>4, <1>5, <1>8, BytesOfMessage
  <2> HIDE DEF Byte
  <2>2. (read \o buffer) \o Bytes(m, offset, n) = read \o (buffer \o Bytes(m, offset, n))
    BY <1>4, <2>1, ConcatenationAssociates
  <2>3. buffer \o Bytes(m, offset, n) \in Seq(Byte)
    BY <1>4, <2>1, Concatenation
  <2> QED
    BY <1>1, <1>4, <2>2, <2>3 DEF Got
<1>10. /\ \A i \in 1 .. Len(Got) : Got[i][1] <= m
       /\ offset = 0 => \A i \in 1 .. Len(Got) : Got[i][1] < m
  <2>1. \A i \in 1 .. Len(Got) : Got[i][1] \in Int
    BY <1>4 DEF InOrder
  <2>2. \A i \in 1 .. Len(Got) : Got[i][1] <= (IF offset # 0 THEN Gone + 1 ELSE Gone)
    BY <1>3, <1>4 DEF PlaceInv
  <2> QED
    BY ONLY <1>5, <2>1, <2>2
<1>11. /\ offset = 0 /\ Got # <<>> => Got[Len(Got)][2] = MsgLen[Got[Len(Got)][1]]
       /\ offset # 0 => Got # <<>> /\ Got[Len(Got)] = <<m, offset>>
  BY <1>3, <1>5 DEF PlaceInv, LastGot
<1>12. /\ InOrder(t, stored) /\ Len(t) = Len(Got) + n
       /\ \A i \in 1 .. Len(Got) : t[i] = Got[i]
       /\ \A i \in 1 .. Len(t) : t[i][1] <= m
       /\ n > 0 => t # <<>> /\ t[Len(t)] = <<m, offset + n>>
  <2>1. NextBytes(Got, stored, m, offset, n)
    BY <1>4, <1>5, <1>8, <1>10, <1>11 DEF NextBytes
  <2>2. Run(Got, t, stored, m, offset + n, n)
    BY <1>5, <2>1, RunInOrder
  <2> HIDE DEF t
  <2> QED
    BY <2>2 DEF Run
<1> HIDE DEF t
<1>13. UNCHANGED <<stored, takes, begin, end>> /\ Count' = Count
  BY <1>1 DEF ringVars, Count
<1>14. Gone' = Gone /\ Lost' = Lost /\ Skipped' = Skipped /\ LastGot' = t[Len(t)]
  BY <1>1, <1>9, <1>13 DEF Gone, Lost, Skipped, LastGot
<1>15. GotInv'
  BY <1>3, <1>9, <1>12, <1>13, <1>14 DEF GotInv
<1>16. Cardinality(Unreturned(t, Gone)) <= Lost
  <2>1. Cardinality(Unreturned(t, Gone)) <= Cardinality(Unreturned(Got, Gone))
    BY <1>5, <1>6, <1>8, <1>12, UnreturnedShrinks
  <2>2. /\ Cardinality(Unreturned(t, Gone)) \in Nat
        /\ Cardinality(Unreturned(Got, Gone)) \in Nat /\ Lost \in Int
    BY <1>5, UnreturnedCount, GoneType DEF Lost, TypeOK
  <2>3. Cardinality(Unreturned(Got, Gone)) <= Lost
    BY <1>3 DEF PlaceInv
  <2> QED
    BY ONLY <2>1, <2>2, <2>3
<1>17. CASE n = rest
  <2>1. Held' /\ offset' = 0 /\ handler'.st = "drop"
    BY <1>1, <1>2, <1>17 DEF Held
  <2>2. t # <<>> => t[Len(t)][2] = MsgLen[t[Len(t)][1]]
    <3>1. CASE n > 0
      BY <1>8, <1>12, <1>17, <3>1
    <3>2. CASE n = 0
      <4>1. offset = 0 /\ Len(t) = Len(Got)
        BY <1>4, <1>5, <1>6, <1>7, <1>8, <1>12, <1>17, <3>2
      <4>2. t # <<>> => Got # <<>> /\ t[Len(t)] = Got[Len(Got)]
        <5> SUFFICES ASSUME t # <<>> PROVE Got # <<>> /\ t[Len(t)] = Got[Len(Got)]
          OBVIOUS
        <5>1. Len(t) # 0
          BY <1>12 DEF InOrder
        <5>2. Got # <<>> /\ Len(Got) \in 1 .. Len(Got)
          BY ONLY <1>6, <4>1, <5>1
        <5> QED
          BY ONLY <1>12, <4>1, <5>2
      <4> QED
        BY <1>11, <4>1, <4>2
    <3> QED
      BY <1>8, <3>1, <3>2
  <2>3. MsgLen[m] > 0 => t # <<>> /\ t[Len(t)][1] = m
    <3>1. MsgLen[m] > 0 => n > 0
      BY <1>4, <1>5, <1>7, <1>8, <1>17
    <3> QED
      BY <1>12, <3>1
  <2> QED
    BY <1>1, <1>4, <1>5, <1>9, <1>12, <1>13, <1>14, <1>15, <1>16, <2>1, <2>2, <2>3
       DEF ReadInv, PlaceInv
<1>18. CASE n # rest
  <2>1. ~Held' /\ offset' = offset + n /\ handler'.st = "peek" /\ offset' \in Nat /\ offset' # 0
    BY <1>1, <1>2, <1>4, <1>8, <1>18 DEF Held
  <2>2. offset' < MsgLen[m] /\ t # <<>> /\ t[Len(t)] = <<m, offset'>>
    BY <1>8, <1>12, <1>18, <2>1
  <2> QED
    BY <1>1, <1>4, <1>5, <1>9, <1>12, <1>13, <1>14, <1>15, <1>16, <2>1, <2>2
       DEF ReadInv, PlaceInv
<1> QED
  BY <1>17, <1>18

\* The removal of the message that was copied.
LEMMA DropKeepsReadInv ==
  ASSUME TypeOK, HoldsNewest, WaitInv, ReadInv, ReadDrops PROVE ReadInv'
<1> SUFFICES ASSUME ~spoiled' PROVE ReadInv'
  BY DEF ReadInv
<1>1. UNCHANGED <<read, buffer, offset, close, client>> /\ ~spoiled /\ handler.st = "drop"
  BY DEF ReadDrops, ocbVars, readVars, history
<1>2. close = "open" /\ GotInv /\ PlaceInv
  BY <1>1, HandlerOpen DEF ReadInv
<1>3. CASE CheckSession("handler") /\ UNCHANGED handler
  <2>1. UNCHANGED ringVars /\ pc["handler"] # "use" /\ pc'["handler"] # "use"
    <3>1. "handler" \in Threads
      BY ClientAssumption DEF Threads
    <3> QED
      BY <1>3, <3>1 DEF CheckSession, Goto, TypeOK
  <2>2. Held' <=> Held
    BY <1>1, <1>3, <2>1 DEF Held
  <2> QED
    BY <1>1, <1>3, <2>1, <2>2, ReadSame
<1>4. CASE Use("handler") /\ handler' = [handler EXCEPT !.st = "peek"]
  <2>1. UNCHANGED ringVars /\ pc["handler"] = "use" /\ handler'.st = "peek"
    BY <1>1, <1>4, HandlerSt DEF Use
  <2>2. Held' <=> Held
    BY <2>1 DEF Held
  <2> QED
    BY <1>1, <2>1, <2>2, ReadSame
<1>5. CASE /\ PollerLocks("handler") /\ pc'["handler"] # "lock" /\ (RingEmpty \/ takes' # takes)
           /\ handler' = IF RingEmpty THEN [handler EXCEPT !.st = "peek"] ELSE handler
  <2>1. Held
    BY <1>1, <1>5, HandlerLocks DEF Held
  <2>2. Count > 0 /\ size # 0 /\ ~RingEmpty /\ offset = 0
    BY <1>2, <2>1, NotEmpty DEF PlaceInv, TypeOK
  <2>3. Take /\ pc'["handler"] = "use" /\ UNCHANGED handler
    <3>1. ~(UNCHANGED ringVars)
      BY <1>5, <2>2 DEF ringVars
    <3> QED
      BY <1>5, <2>2, <3>1, HandlerLocks
  <2>4. ~Held'
    BY <2>3 DEF Held
  <2>5. stored' = stored /\ takes' = takes + 1 /\ Count' = Count - 1
    BY <2>3, TakeGone DEF TypeOK
  <2>6. /\ Count \in Nat /\ Gone \in Nat /\ stored \in Nat /\ takes \in Nat
        /\ Gone = stored - Count /\ Lost = stored - takes - Count
    BY GoneType DEF TypeOK, Gone, Lost
  <2>7. Gone' = Gone + 1 /\ Lost' = Lost
    <3> DEFINE d == Count'
    <3>1. Gone' = stored - d /\ Lost' = stored - (takes + 1) - d /\ d = Count - 1
      BY <2>5 DEF Gone, Lost
    <3> HIDE DEF d
    <3> QED
      BY ONLY <2>6, <3>1
  <2>8. Got' = Got /\ LastGot' = LastGot /\ Skipped' = Skipped
    BY <1>1, <2>5 DEF Got, LastGot, Skipped
  <2>9. GotInv'
    BY <1>1, <1>2, <2>5, <2>7, <2>8 DEF GotInv
  <2>10. Unreturned(Got, Gone + 1) = Unreturned(Got, Gone)
    <3>1. MsgLen[Gone + 1] > 0 => Len(Got) \in 1 .. Len(Got) /\ Got[Len(Got)][1] = Gone + 1
      BY <1>2, <2>1 DEF PlaceInv, LastGot, GotInv, InOrder
    <3> QED
      BY <2>6, <3>1, UnreturnedRemoved
  <2>11. PlaceInv'
    BY <1>1, <1>2, <2>1, <2>2, <2>3, <2>4, <2>7, <2>8, <2>10 DEF PlaceInv
  <2> QED
    BY <2>9, <2>11 DEF ReadInv
<1> QED
  BY <1>3, <1>4, <1>5 DEF ReadDrops

\* read() returns what the buffer holds; the messages passed over are lost ones.
LEMMA ReplyKeepsReadInv ==
  ASSUME CountingOK, TypeOK, HoldsNewest, WaitInv, ReadInv, Reply PROVE ReadInv'
<1> SUFFICES ASSUME ~spoiled' PROVE ReadInv'
  BY DEF ReadInv
<1>1. UNCHANGED <<ringVars, offset, close>> /\ handler.st = "done" /\ handler'.st = "idle"
  BY DEF Reply, Finish, NoHandler, queueVars
<1>2. ~Held /\ ~Held'
  BY <1>1 DEF Held
<1>3. CASE op # "read"
  BY <1>1, <1>2, <1>3, ReadSame DEF Reply
<1>4. CASE op = "read"
  <2>1. /\ read' = read \o SubSeq(buffer, 1, IF Len(buffer) < nbytes THEN Len(buffer) ELSE nbytes)
        /\ spoiled' = (spoiled \/ Len(buffer) > nbytes) /\ buffer' = <<>>
    BY <1>4 DEF Reply
  <2>2. ~spoiled /\ ~(Len(buffer) > nbytes)
    BY <2>1
  <2>3. close = "open" /\ nbytes \in Nat /\ GotInv /\ PlaceInv
    BY <1>1, <2>2, HandlerOpen DEF ReadInv
  <2>4. read \in Seq(Byte) /\ buffer \in Seq(Byte) /\ Len(buffer) \in Nat
    BY <2>3 DEF GotInv
  <2>5. (IF Len(buffer) < nbytes THEN Len(buffer) ELSE nbytes) = Len(buffer)
    BY ONLY <2>2, <2>3, <2>4
  <2> HIDE DEF Byte
  <2>6. read' = Got
    BY <2>1, <2>4, <2>5, WholeSequence DEF Got
  <2>7. Got' = Got /\ read' \in Seq(Byte) /\ buffer' \in Seq(Byte) /\ LastGot' = LastGot
    <3>1. Got \in Seq(Byte)
      BY <2>4, Concatenation DEF Got
    <3>2. Got \o <<>> = Got
      BY <3>1, EmptyAppended
    <3>3. Got' = read' \o buffer'
      BY DEF Got
    <3>4. Got' = Got
      BY ONLY <2>1, <2>6, <3>2, <3>3
    <3>5. LastGot' = LastGot
      BY <3>4 DEF LastGot
    <3>6. <<>> \in Seq(Byte)
      OBVIOUS
    <3> QED
      BY <2>1, <2>6, <3>1, <3>4, <3>5, <3>6
  <2>8. UNCHANGED <<stored, takes, begin, end>> /\ Count' = Count /\ Gone' = Gone /\ Lost' = Lost
    BY <1>1 DEF ringVars, Count, Gone, Lost
  <2>9. Gone \in Nat /\ stored \in Nat /\ Lost \in Int
    BY GoneType DEF TypeOK, Lost
  <2>10. Cardinality(Skipped') <= Lost
    <3>1. Skipped' \in SUBSET Unreturned(Got, Gone)
      <4> SUFFICES ASSUME NEW m \in Skipped' PROVE m \in Unreturned(Got, Gone)
        OBVIOUS
      <4>1. DOMAIN Got = 1 .. Len(Got)
        BY <2>6, <2>7
      <4>2. /\ m \in 1 .. stored /\ MsgLen[m] > 0
            /\ \A i \in 1 .. Len(Got) : Got[i][1] # m
        BY <2>6, <2>8, <4>1 DEF Skipped
      <4>3. PICK i \in 1 .. Len(Got) : m < Got[i][1]
        BY <2>6, <4>1 DEF Skipped
      <4>4. Got[i][1] <= Gone + 1 /\ Got[i][1] \in Int
        BY <2>3, <2>9 DEF PlaceInv, GotInv, InOrder
      <4>5. m \in 1 .. Gone
        BY <2>9, <4>2, <4>3, <4>4
      <4> QED
        BY <4>2, <4>5 DEF Unreturned
    <3>2. /\ Unreturned(Got, Gone) \in SUBSET (1 .. Gone)
          /\ Cardinality(Unreturned(Got, Gone)) \in Nat
      BY <2>9, UnreturnedCount
    <3>3. Skipped' \in SUBSET (1 .. Gone)
      BY <3>1, <3>2
    <3>4. /\ Cardinality(Skipped') \in Nat
          /\ Cardinality(Skipped') <= Cardinality(Unreturned(Got, Gone))
      BY ONLY CountingOK, <2>9, <3>1, <3>2, <3>3 DEF CountingOK
    <3>5. Cardinality(Unreturned(Got, Gone)) <= Lost
      BY <2>3 DEF PlaceInv
    <3> QED
      BY ONLY <2>9, <3>2, <3>3, <3>4, <3>5
  <2>11. GotInv'
    BY <2>3, <2>7, <2>8, <2>10 DEF GotInv
  <2>12. PlaceInv'
    BY <1>1, <1>2, <2>3, <2>7, <2>8 DEF PlaceInv
  <2> QED
    BY <2>11, <2>12 DEF ReadInv
<1> QED
  BY <1>3, <1>4

-----------------------------------------------------------------------------
(* The other steps, and the theorem.                                        *)

\* The client sends a request; a buffer with bytes is not replaced.
LEMMA RequestKeepsReadInv ==
  ASSUME TypeOK, ReadInv, NEW c \in Clients, NEW r \in Requests, Request(c, r) PROVE ReadInv'
<1> SUFFICES ASSUME ~spoiled' PROVE ReadInv'
  BY DEF ReadInv
<1>1. /\ UNCHANGED <<ringVars, read, offset, close>>
      /\ handler.st = "idle" /\ handler'.st \in {"peek", "take"}
  BY DEF Request, NoHandler, queueVars
<1>2. ~Held /\ ~Held'
  BY <1>1 DEF Held
<1>3. UNCHANGED buffer /\ ~spoiled
  <2>1. CASE Enlarges(r)
    <3>1. spoiled' = (spoiled \/ buffer # <<>>) /\ buffer' = [i \in DOMAIN buffer |-> Junk]
      BY <2>1 DEF Request
    <3>2. ~spoiled /\ buffer = <<>>
      BY <3>1
    <3> QED
      BY <3>1, <3>2
  <2>2. CASE ~Enlarges(r)
    BY <2>2 DEF Request
  <2> QED
    BY <2>1, <2>2
<1> QED
  BY <1>1, <1>2, <1>3, ReadSame

\* Once the file is closed only the ring can still change.
LEMMA ReadClosed ==
  ASSUME CountingOK, TypeOK, HoldsNewest, ReadInv, close' # "open", Count' \in Nat, Count' <= Count,
         UNCHANGED <<read, stored, takes, spoiled>>, buffer' = buffer \/ buffer' = <<>>
  PROVE  ReadInv'
<1> SUFFICES ASSUME ~spoiled PROVE GotInv'
  BY DEF ReadInv
<1>1. GotInv /\ Count \in Nat /\ stored \in Nat /\ takes \in Nat
  BY GoneType DEF ReadInv, TypeOK
<1>2. Skipped' = Skipped /\ Cardinality(Skipped) \in Nat
  BY <1>1, SkippedCount DEF Skipped
<1>3. Cardinality(Skipped) <= Lost'
  <2> DEFINE d == Count'
  <2>1. /\ d \in Nat /\ d <= Count /\ Lost = stored - takes - Count /\ Lost' = stored - takes - d
        /\ Cardinality(Skipped) <= Lost
    BY <1>1 DEF Lost, GotInv
  <2> HIDE DEF d
  <2> QED
    BY ONLY <1>1, <1>2, <2>1
<1> HIDE DEF Byte
<1>4. InOrder(Got', stored) /\ buffer' \in Seq(Byte)
  <2>1. Got' = read \o buffer' /\ read \in Seq(Byte) /\ buffer \in Seq(Byte) /\ InOrder(Got, stored)
    BY <1>1 DEF Got, GotInv
  <2>2. CASE buffer' = buffer
    BY <2>1, <2>2 DEF Got
  <2>3. CASE buffer' = <<>>
    <3>1. read \o <<>> = read
      BY <2>1, EmptyAppended
    <3>2. InOrder(read, stored)
      BY <2>1, PrefixInOrder DEF Got
    <3> QED
      BY <2>1, <2>3, <3>1, <3>2
  <2> QED
    BY <2>2, <2>3
<1> QED
  BY <1>1, <1>2, <1>3, <1>4 DEF GotInv

\* can_ocb_free.
LEMMA CloseKeepsReadInv ==
  ASSUME CountingOK, TypeOK, HoldsNewest, TypeOK', ReadInv, CloseFile \/ CloseStep PROVE ReadInv'
<1>1. /\ UNCHANGED <<read, stored, takes, spoiled>> /\ close' # "open"
      /\ buffer' = buffer \/ buffer' = <<>>
  <2>1. CASE CloseFile \/ JoinAndAnswer
    BY <2>1 DEF CloseFile, JoinAndAnswer, queueVars, ringVars, readVars, history
  <2>2. CASE DestroySession
    BY <2>2 DEF DestroySession, ShutdownSignal, OwnerStep, OwnerSleeps, Destroy, Reset, ringVars,
                ocbVars, readVars, history
  <2> QED
    BY <2>1, <2>2 DEF CloseStep
<1>2. Count \in Nat /\ Count' \in Nat
  BY CountType, CountTypeNext DEF TypeOK
<1>3. UNCHANGED ringVars \/ Reset
  BY DEF CloseFile, CloseStep, JoinAndAnswer, DestroySession, ShutdownSignal, OwnerStep,
         OwnerSleeps, Destroy, queueVars
<1>4. Count' <= Count
  <2>1. CASE UNCHANGED ringVars
    BY <1>2, <2>1 DEF Count, ringVars
  <2>2. CASE Reset
    <3>1. Count' = 0
      BY <2>2 DEF Reset, Count
    <3> QED
      BY <1>2, <3>1
  <2> QED
    BY <1>3, <2>1, <2>2
<1> QED
  BY <1>1, <1>2, <1>4, ReadClosed

LEMMA ReadInvKept ==
  ASSUME CountingOK, TypeOK, HoldsNewest, TypeOK', HoldsNewest', WaitInv, ReadInv, [RxNext]_rxVars
  PROVE  ReadInv'
<1>1. ASSUME NEW p \in Producers, Receive(p) PROVE ReadInv'
  BY <1>1, ReceiveKeepsReadInv
<1>2. LoopStep => ReadInv'
  BY LoopKeepsReadInv
<1>3. HandlerStep => ReadInv'
  BY PeeksKeepReadInv, CopyKeepsReadInv, DropKeepsReadInv, DevctlKeepsReadInv,
     WaitsKeepReadInv, ReplyKeepsReadInv DEF HandlerStep
<1>4. ASSUME NEW c \in Clients, NEW r \in Requests, Request(c, r) PROVE ReadInv'
  BY <1>4, RequestKeepsReadInv
<1>5. CloseFile \/ CloseStep => ReadInv'
  BY CloseKeepsReadInv
<1>6. ASSUME NEW c \in Clients, io_unblock(c) PROVE ReadInv'
  <2>1. UNCHANGED <<ringVars, read, buffer, offset, close, spoiled, handler>> /\ handler.st = "idle"
    BY <1>6 DEF io_unblock, queueVars, ocbVars, readVars, NoHandler
  <2>2. Held' <=> Held
    BY <2>1 DEF Held
  <2> QED
    BY <2>1, <2>2, ReadSame
<1>7. QueueSpurious \/ RxSpuriousWakeup \/ Shutdown \/ UNCHANGED rxVars => ReadInv'
  <2> SUFFICES ASSUME QueueSpurious \/ RxSpuriousWakeup \/ Shutdown \/ UNCHANGED rxVars
               PROVE  ReadInv'
    OBVIOUS
  <2>1. UNCHANGED <<ringVars, pc, ptr, read, buffer, offset, close, spoiled, handler, client>>
    BY DEF QueueSpurious, SpuriousWakeup, RxSpuriousWakeup, Shutdown, rxVars, queueVars,
           ocbVars, readVars, history
  <2>2. (Held' <=> Held) /\ nbytes' = nbytes
    BY <2>1 DEF Held, nbytes
  <2> QED
    BY <2>1, <2>2, ReadSame
<1> QED
  BY <1>1, <1>2, <1>3, <1>4, <1>5, <1>6, <1>7 DEF RxNext

\* The invariant gives what ReadsInOrder says of the bytes returned.
LEMMA ReadInvMeans == ReadInv => ReadsInOrder
<1> SUFFICES ASSUME ReadInv, ~spoiled
             PROVE  /\ \A i \in 2 .. Len(read) : Follows(read[i - 1], read[i])
                    /\ read # <<>> => Head(read)[2] = 1
                    /\ Cardinality(Skipped) <= Lost
  BY DEF ReadsInOrder
<1>1. GotInv
  BY DEF ReadInv
<1>2. InOrder(read, stored)
  BY <1>1, PrefixInOrder DEF GotInv, Got
<1>3. read # <<>> => Head(read) = read[1]
  BY <1>1 DEF GotInv
<1> QED
  BY <1>1, <1>2, <1>3 DEF GotInv, InOrder
=============================================================================
