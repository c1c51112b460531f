---------------------------- MODULE CanQueueProofs ----------------------------
(***************************************************************************)
(* Proofs about the queue of queue.c, for any ring size, any number of     *)
(* producers and pollers and both blocking dequeues.                       *)
(*                                                                         *)
(* The ring: the indices stay inside the array, the slots between them     *)
(* hold the newest messages in order, no message is dequeued twice, and    *)
(* the ring implements the lossy FIFO queue of LossyFifo.  The threads:    *)
(* whatever they do, the ring is the ring of CanRing, and no reader sleeps *)
(* through a wakeup.                                                       *)
(***************************************************************************)
EXTENDS CanQueue, Sequences, TLAPS

-----------------------------------------------------------------------------
(* The ring.                                                                *)

\* The contents of the ring without the sequence: what each slot between
\* begin and end holds, counted back from the newest message.
SlotsHoldNewest ==
  /\ Count <= stored
  /\ \A s \in Slots :
       /\ begin <= s /\ s < end => data[s] = stored - (end - 1 - s)
       /\ end < begin /\ s < end => data[s] = stored - (end - 1 - s)
       /\ end < begin /\ begin <= s => data[s] = stored - (end - 1 + Size - s)

\* The initial ring is empty.
LEMMA RingInitOK ==
  RingInit => RingTypeOK /\ SlotsHoldNewest /\ TakenInOrder /\ DropsNotOvercounted
BY SizeAssumption
   DEF RingInit, RingTypeOK, SlotsHoldNewest, TakenInOrder, DropsNotOvercounted,
       Count, Slots

\* The five ways in which enqueue moves the indices.
LEMMA StoreCases ==
  ASSUME RingTypeOK, Store
  PROVE  /\ size = Size /\ Size >= 3
         /\ \/ end = Size /\ begin = 0 /\ Put(2, 0, 0)
            \/ end = Size /\ begin \in 1 .. Size - 1 /\ Put(begin, 0, 0)
            \/ end = Size - 2 /\ begin = Size - 1 /\ Put(0, end, 0)
            \/ end \in 0 .. Size - 3 /\ begin = end + 1 /\ Put(begin + 1, end, 1)
            \/ end \in 0 .. Size - 1 /\ begin # end + 1 /\ Put(begin, end, 0)
<1>1. /\ size = Size /\ Size \in Nat /\ Size >= 3
      /\ begin \in 0 .. Size - 1 /\ end \in 0 .. Size
  BY SizeAssumption DEF RingTypeOK, Store
<1>2. CASE end = Size /\ begin = 0 /\ Put(2, 0, 0)
  BY <1>1, <1>2
<1>3. CASE end = Size /\ begin # 0 /\ Put(begin, 0, 0)
  BY <1>1, <1>3
<1>4. CASE end # Size /\ begin = end + 1 /\ begin + 1 = Size /\ Put(0, end, 0)
  BY <1>1, <1>4
<1>5. CASE end # Size /\ begin = end + 1 /\ begin + 1 # Size /\ Put(begin + 1, end, 1)
  BY <1>1, <1>5
<1>6. CASE end # Size /\ begin # end + 1 /\ Put(begin, end, 0)
  BY <1>1, <1>6
<1> QED
  BY <1>1, <1>2, <1>3, <1>4, <1>5, <1>6 DEF Store

\* Writing one slot keeps the types.
LEMMA PutType ==
  ASSUME RingTypeOK, size = Size, Size # 0,
         NEW b \in 0 .. Size - 1, NEW e \in 0 .. Size - 1, NEW d \in {0, 1},
         Put(b, e, d)
  PROVE  RingTypeOK'
<1>1. data' \in [Slots -> Nat]
  BY DEF Put, RingTypeOK, Slots
<1> QED
  BY <1>1, SizeAssumption DEF Put, RingTypeOK

\* Every operation keeps the indices inside the array.
LEMMA RingTypeStep == RingTypeOK /\ [RingNext]_ringVars => RingTypeOK'
<1> SUFFICES ASSUME RingTypeOK, [RingNext]_ringVars
             PROVE  RingTypeOK'
  OBVIOUS
<1>1. CASE Store
  <2>1. size = Size /\ Size >= 3 /\ begin \in 0 .. Size - 1
    BY <1>1, StoreCases, SizeAssumption DEF RingTypeOK
  <2>2. CASE end = Size /\ begin = 0 /\ Put(2, 0, 0)
    BY <2>1, <2>2, PutType, SizeAssumption
  <2>3. CASE end = Size /\ begin \in 1 .. Size - 1 /\ Put(begin, 0, 0)
    BY <2>1, <2>3, PutType, SizeAssumption
  <2>4. CASE end = Size - 2 /\ begin = Size - 1 /\ Put(0, end, 0)
    BY <2>1, <2>4, PutType, SizeAssumption
  <2>5. CASE end \in 0 .. Size - 3 /\ begin = end + 1 /\ Put(begin + 1, end, 1)
    BY <2>1, <2>5, PutType, SizeAssumption
  <2>6. CASE end \in 0 .. Size - 1 /\ begin # end + 1 /\ Put(begin, end, 0)
    BY <2>1, <2>6, PutType, SizeAssumption
  <2> QED
    BY <1>1, <2>2, <2>3, <2>4, <2>5, <2>6, StoreCases
<1>2. CASE Take
  <2>1. taken' \in Nat
    BY <1>2, SizeAssumption DEF Take, RingTypeOK, Slots
  <2> QED
    BY <1>2, <2>1, SizeAssumption DEF Take, RingTypeOK, RingEmpty
<1>3. CASE Reset
  BY <1>3, SizeAssumption DEF Reset, RingTypeOK
<1>4. CASE UNCHANGED ringVars
  BY <1>4 DEF ringVars, RingTypeOK
<1> QED
  BY <1>1, <1>2, <1>3, <1>4 DEF RingNext

\* The indices of the ring stay inside its array in every behaviour of enqueue,
\* the dequeues and destroy_queue.
THEOREM RingTypeCorrect == RingSpec => []RingTypeOK
<1>1. RingInit => RingTypeOK
  BY RingInitOK
<1> QED
  BY <1>1, RingTypeStep, PTL DEF RingSpec
-----------------------------------------------------------------------------

\* Inside the ring the conditions on slots say what HoldsNewest says of the
\* contents.
LEMMA SlotsImplyContents ==
  ASSUME RingTypeOK, SlotsHoldNewest
  PROVE  HoldsNewest
<1>1. CASE size = 0
  <2>1. Count = 0
    BY <1>1 DEF RingTypeOK, Count
  <2> QED
    BY <2>1 DEF HoldsNewest, RingTypeOK
<1>2. CASE size = Size /\ Size >= 3
  <2> SUFFICES ASSUME NEW i \in 1 .. Count
               PROVE  Contents[i] = stored - Count + i
    BY DEF HoldsNewest, SlotsHoldNewest
  <2>1. Contents[i] = data[NthSlot(i)]
    BY DEF Contents
  <2>2. /\ Size \in Nat /\ begin \in 0 .. Size - 1 /\ end \in 0 .. Size
        /\ Count \in Nat
    BY <1>2, SizeAssumption DEF RingTypeOK, Count
  <2>3. CASE begin <= end
    <3>1. Count = end - begin /\ NthSlot(i) = begin + i - 1
      BY <1>2, <2>2, <2>3 DEF Count, NthSlot
    <3>2. begin + i - 1 \in Slots /\ begin <= begin + i - 1 /\ begin + i - 1 < end
      BY <2>2, <3>1 DEF Slots
    <3> QED
      BY <2>1, <2>2, <3>1, <3>2 DEF SlotsHoldNewest, RingTypeOK
  <2>4. CASE end < begin /\ begin + i - 1 < Size
    <3>1. Count = Size - begin + end /\ NthSlot(i) = begin + i - 1
      BY <1>2, <2>2, <2>4 DEF Count, NthSlot
    <3>2. begin + i - 1 \in Slots /\ begin <= begin + i - 1
      BY <2>2, <2>4 DEF Slots
    <3> QED
      BY <2>1, <2>2, <2>4, <3>1, <3>2 DEF SlotsHoldNewest, RingTypeOK
  <2>5. CASE end < begin /\ Size <= begin + i - 1
    <3>1. Count = Size - begin + end /\ NthSlot(i) = begin + i - 1 - Size
      BY <1>2, <2>2, <2>5 DEF Count, NthSlot
    <3>2. begin + i - 1 - Size \in Slots /\ begin + i - 1 - Size < end
      BY <2>2, <2>5, <3>1 DEF Slots
    <3> QED
      BY <2>1, <2>2, <2>5, <3>1, <3>2 DEF SlotsHoldNewest, RingTypeOK
  <2> QED
    BY <2>2, <2>3, <2>4, <2>5
<1> QED
  BY <1>1, <1>2, SizeAssumption DEF RingTypeOK

\* enqueue keeps the newest messages in place and in order.
LEMMA StoreKeepsSlots ==
  ASSUME RingTypeOK, SlotsHoldNewest, Store
  PROVE  SlotsHoldNewest'
<1> USE SizeAssumption DEF RingTypeOK, SlotsHoldNewest, Slots, Count, Put
<1>1. size = Size /\ Size >= 3 /\ begin \in 0 .. Size - 1 /\ end \in 0 .. Size
  BY StoreCases
<1>2. CASE end = Size /\ begin = 0 /\ Put(2, 0, 0)
  BY <1>1, <1>2
<1>3. CASE end = Size /\ begin \in 1 .. Size - 1 /\ Put(begin, 0, 0)
  BY <1>1, <1>3
<1>4. CASE end = Size - 2 /\ begin = Size - 1 /\ Put(0, end, 0)
  <2>1. /\ begin' = 0 /\ end' = Size - 1 /\ stored' = stored + 1
        /\ data' = [data EXCEPT ![Size - 2] = stored + 1]
        /\ Count = Size - 1 /\ Count' = Size - 1
    BY <1>1, <1>4
  <2> QED
    BY <1>1, <1>4, <2>1
<1>5. CASE end \in 0 .. Size - 3 /\ begin = end + 1 /\ Put(begin + 1, end, 1)
  BY <1>1, <1>5
<1>6. CASE end \in 0 .. Size - 1 /\ begin # end + 1 /\ Put(begin, end, 0)
  BY <1>1, <1>6
<1> QED
  BY <1>2, <1>3, <1>4, <1>5, <1>6, StoreCases

\* A dequeue gives up the oldest message only.
LEMMA TakeKeepsSlots ==
  ASSUME RingTypeOK, SlotsHoldNewest, Take
  PROVE  /\ SlotsHoldNewest'
         /\ Count' = Count - 1
         /\ taken' = stored - Count + 1
<1> USE SizeAssumption DEF RingTypeOK, SlotsHoldNewest, Slots, Count, RingEmpty
<1>1. size = Size /\ Size >= 3 /\ begin \in 0 .. Size - 1 /\ end \in 0 .. Size
  BY DEF Take
<1>2. CASE begin + 1 # Size
  BY <1>1, <1>2 DEF Take
<1>3. CASE begin + 1 = Size /\ end = Size
  BY <1>1, <1>3 DEF Take
<1>4. CASE begin + 1 = Size /\ end # Size
  BY <1>1, <1>4 DEF Take
<1> QED
  BY <1>2, <1>3, <1>4

\* What enqueue does to the number of messages held, and what it reports.
LEMMA StoreCount ==
  ASSUME RingTypeOK, Store
  PROVE  /\ Count \in Nat /\ Count' \in Nat
         /\ Count' <= Count + 1
         /\ Count < Size - 1 => Count' = Count + 1
         /\ dropped' - dropped <= Count + 1 - Count'
         /\ stored' = stored + 1 /\ taken' = taken /\ takes' = takes
<1> USE SizeAssumption DEF RingTypeOK, Count, Put
<1>1. size = Size /\ Size >= 3 /\ begin \in 0 .. Size - 1 /\ end \in 0 .. Size
  BY StoreCases
<1>2. CASE end = Size /\ begin = 0 /\ Put(2, 0, 0)
  BY <1>1, <1>2
<1>3. CASE end = Size /\ begin \in 1 .. Size - 1 /\ Put(begin, 0, 0)
  BY <1>1, <1>3
<1>4. CASE end = Size - 2 /\ begin = Size - 1 /\ Put(0, end, 0)
  <2>1. /\ begin' = 0 /\ end' = Size - 1 /\ stored' = stored + 1
        /\ data' = [data EXCEPT ![Size - 2] = stored + 1]
        /\ Count = Size - 1 /\ Count' = Size - 1
    BY <1>1, <1>4
  <2> QED
    BY <1>1, <1>4, <2>1
<1>5. CASE end \in 0 .. Size - 3 /\ begin = end + 1 /\ Put(begin + 1, end, 1)
  BY <1>1, <1>5
<1>6. CASE end \in 0 .. Size - 1 /\ begin # end + 1 /\ Put(begin, end, 0)
  BY <1>1, <1>6
<1> QED
  BY <1>2, <1>3, <1>4, <1>5, <1>6, StoreCases

\* The number of messages held is a number.
LEMMA CountType == RingTypeOK => Count \in Nat
BY SizeAssumption DEF RingTypeOK, Count

\* The same after a step.
LEMMA CountTypeNext == RingTypeOK' => (Count \in Nat)'
<1>1. RingTypeOK => Count \in Nat
  BY CountType
<1> QED
  BY <1>1, PTL

\* The induction step of the invariant.
LEMMA RingInvStep ==
  ASSUME RingTypeOK, SlotsHoldNewest, TakenInOrder, DropsNotOvercounted,
         [RingNext]_ringVars
  PROVE  (RingTypeOK /\ SlotsHoldNewest /\ TakenInOrder /\ DropsNotOvercounted)'
<1>1. RingTypeOK'
  BY RingTypeStep
<1>2. CASE Store
  <2>1. SlotsHoldNewest'
    BY <1>2, StoreKeepsSlots
  <2>2. TakenInOrder' /\ DropsNotOvercounted'
    BY <1>1, <1>2, StoreCount DEF TakenInOrder, DropsNotOvercounted, RingTypeOK
  <2> QED
    BY <1>1, <2>1, <2>2
<1>3. CASE Take
  <2>1. SlotsHoldNewest' /\ Count' = Count - 1 /\ taken' = stored - Count + 1
    BY <1>3, TakeKeepsSlots
  <2>2. takes' = takes + 1 /\ stored' = stored /\ dropped' = dropped
    BY <1>3 DEF Take
  <2>3. TakenInOrder' /\ DropsNotOvercounted'
    BY <2>1, <2>2, CountType DEF TakenInOrder, DropsNotOvercounted, RingTypeOK
  <2> QED
    BY <1>1, <2>1, <2>3
<1>4. CASE Reset
  <2>1. /\ Count' = 0 /\ begin' = 0 /\ end' = 0
        /\ UNCHANGED <<data, dropped, stored, taken, takes>>
    BY <1>4 DEF Reset, Count
  <2>2. SlotsHoldNewest'
    BY <1>1, <2>1, SizeAssumption DEF SlotsHoldNewest, RingTypeOK, Slots
  <2>3. TakenInOrder' /\ DropsNotOvercounted'
    BY <2>1, CountType DEF TakenInOrder, DropsNotOvercounted, RingTypeOK
  <2> QED
    BY <1>1, <2>2, <2>3
<1>5. CASE UNCHANGED ringVars
  BY <1>1, <1>5
     DEF ringVars, SlotsHoldNewest, TakenInOrder, DropsNotOvercounted, Count
<1> QED
  BY <1>2, <1>3, <1>4, <1>5 DEF RingNext

\* The inductive invariant holds in every behaviour of the ring.
LEMMA RingInvariant ==
  RingSpec => [](RingTypeOK /\ SlotsHoldNewest /\ TakenInOrder /\ DropsNotOvercounted)
BY RingInitOK, RingInvStep, PTL DEF RingSpec

\* However often the indices have wrapped, the ring holds the messages stored
\* last, in order and without gaps.
THEOREM RingHoldsNewest == RingSpec => []HoldsNewest
BY RingInvariant, SlotsImplyContents, PTL

\* The dequeues never return a message twice or out of order.
THEOREM RingTakesInOrder == RingSpec => []TakenInOrder
BY RingInvariant, PTL

\* dropped_packet is called at most once for each message lost.
THEOREM RingDropsNotOvercounted == RingSpec => []DropsNotOvercounted
BY RingInvariant, PTL
-----------------------------------------------------------------------------
(* The ring implements the lossy FIFO queue.                                *)

\* Sequences with the same length and the same elements are the same.
LEMMA SameSequence ==
  ASSUME NEW S, NEW s \in Seq(S), NEW t \in Seq(S), Len(s) = Len(t),
         \A i \in 1 .. Len(s) : s[i] = t[i]
  PROVE  s = t
OBVIOUS

\* The k messages stored last of n.
Newest(n, k) == [i \in 1 .. k |-> n - k + i]

\* The last k messages form a sequence of length k.
LEMMA NewestIsSeq ==
  ASSUME NEW n \in Nat, NEW k \in Nat
  PROVE  Newest(n, k) \in Seq(Int) /\ Len(Newest(n, k)) = k
BY DEF Newest

\* Forgetting all but the last j of the k + 1 messages held after an append.
LEMMA NewestAfterPut ==
  ASSUME NEW n \in Nat, NEW k \in Nat, NEW j \in 0 .. k + 1
  PROVE  Newest(n + 1, j) = SubSeq(Append(Newest(n, k), n + 1), k + 1 - j + 1, k + 1)
<1> DEFINE s == Append(Newest(n, k), n + 1)
           t == SubSeq(s, k + 1 - j + 1, k + 1)
<1>1. s \in Seq(Int) /\ Len(s) = k + 1 /\ \A i \in 1 .. k + 1 : s[i] = n - k + i
  BY NewestIsSeq DEF Newest
<1> HIDE DEF s
<1>2. \A i \in k + 1 - j + 1 .. k + 1 : s[i] \in Int
  BY <1>1
<1>3. /\ t \in Seq(Int)
      /\ Len(t) = j
      /\ \A i \in 1 .. j : t[i] = s[k + 1 - j + 1 + i - 1]
  <2>1. k + 1 - j + 1 \in Int /\ k + 1 \in Int
    OBVIOUS
  <2>2. /\ t \in Seq(Int)
        /\ Len(t) = IF k + 1 - j + 1 <= k + 1 THEN k + 1 - (k + 1 - j + 1) + 1 ELSE 0
        /\ \A i \in 1 .. k + 1 - (k + 1 - j + 1) + 1 : t[i] = s[k + 1 - j + 1 + i - 1]
    BY <1>1, <1>2, <2>1
  <2> HIDE DEF t
  <2>3. k + 1 - (k + 1 - j + 1) + 1 = j /\ (k + 1 - j + 1 <= k + 1 \/ j = 0)
    OBVIOUS
  <2> QED
    BY ONLY <2>2, <2>3, j \in Nat, k \in Nat
<1> HIDE DEF t
<1>4. \A i \in 1 .. j : t[i] = Newest(n + 1, j)[i]
  BY <1>1, <1>3 DEF Newest
<1>5. Newest(n + 1, j) \in Seq(Int) /\ Len(Newest(n + 1, j)) = j
  BY NewestIsSeq
<1>6. t = Newest(n + 1, j)
  BY <1>3, <1>4, <1>5, SameSequence
<1> QED
  BY <1>6 DEF t, s

\* Without its first message the sequence is that of one message less.
LEMMA NewestTail ==
  ASSUME NEW n \in Nat, NEW k \in Nat, k # 0
  PROVE  Newest(n, k) # <<>> /\ Tail(Newest(n, k)) = Newest(n, k - 1)
<1>1. Newest(n, k) \in Seq(Int) /\ Len(Newest(n, k)) = k /\ Newest(n, k) # <<>>
  BY NewestIsSeq
<1>2. /\ Tail(Newest(n, k)) \in Seq(Int)
      /\ Len(Tail(Newest(n, k))) = k - 1
      /\ \A i \in 1 .. k - 1 : Tail(Newest(n, k))[i] = Newest(n, k)[i + 1]
  BY <1>1
<1>3. Newest(n, k - 1) \in Seq(Int) /\ Len(Newest(n, k - 1)) = k - 1
  BY NewestIsSeq
<1>4. \A i \in 1 .. k - 1 : Newest(n, k)[i + 1] = Newest(n, k - 1)[i]
  BY DEF Newest
<1>5. Tail(Newest(n, k)) = Newest(n, k - 1)
  BY <1>2, <1>3, <1>4, SameSequence
<1> QED
  BY <1>1, <1>5
-----------------------------------------------------------------------------

\* The contents of the ring are the messages stored last.
LEMMA ContentsAreNewest ==
  ASSUME RingTypeOK, HoldsNewest
  PROVE  Contents = Newest(stored, Count)
BY DEF HoldsNewest, Contents, Newest

\* An empty ring is the empty queue.
LEMMA EmptyContents == Count = 0 => Contents = <<>>
BY DEF Contents

\* Each step of the ring is a step of the queue, or changes neither the
\* messages held nor their number.
LEMMA RingStepSimulates ==
  ASSUME RingTypeOK, HoldsNewest, HoldsNewest', RingTypeOK', SlotsHoldNewest,
         [RingNext]_ringVars
  PROVE  [Fifo!Next]_(Fifo!fifoVars)
<1>0. Count \in Nat /\ Count' \in Nat /\ stored \in Nat
  BY CountType, CountTypeNext DEF RingTypeOK
<1>1. Contents = Newest(stored, Count) /\ Contents' = Newest(stored', Count')
  BY ContentsAreNewest DEF HoldsNewest, Contents, Newest
<1>2. Len(Contents) = Count
  BY <1>0, <1>1, NewestIsSeq
<1>3. CASE Store
  <2>1. /\ stored' = stored + 1
        /\ Count' <= Count + 1
        /\ Count < Size - 1 => Count' = Count + 1
    BY <1>3, StoreCount
  <2>2. PICK lost \in 0 .. Count + 1 : Count' = Count + 1 - lost
    BY <1>0, <2>1
  <2>3. Contents' = SubSeq(Append(Contents, stored + 1), lost + 1, Count + 1)
    <3>1. Count' \in 0 .. Count + 1 /\ lost + 1 = Count + 1 - Count' + 1
      BY <1>0, <2>2
    <3>2. Newest(stored + 1, Count')
            = SubSeq(Append(Newest(stored, Count), stored + 1),
                     Count + 1 - Count' + 1, Count + 1)
      BY <1>0, <3>1, NewestAfterPut
    <3> QED
      BY <1>1, <2>1, <3>1, <3>2
  <2>4. Count < Size - 1 => lost = 0
    BY <1>0, <2>1, <2>2
  <2>5. Fifo!Put
    BY <1>2, <2>1, <2>3, <2>4 DEF Fifo!Put
  <2> QED
    BY <2>5 DEF Fifo!Next
<1>4. CASE Take
  <2>1. stored' = stored /\ Count' = Count - 1 /\ Count # 0
    BY <1>0, <1>4, TakeKeepsSlots DEF Take
  <2>2. Contents # <<>> /\ Contents' = Tail(Contents)
    BY <1>0, <1>1, <2>1, NewestTail
  <2>3. Fifo!Get
    BY <2>1, <2>2 DEF Fifo!Get
  <2> QED
    BY <2>3 DEF Fifo!Next
<1>5. CASE Reset
  <2>1. Count' = 0 /\ stored' = stored
    BY <1>5 DEF Reset, Count
  <2>2. Contents' = <<>>
    BY <2>1 DEF Contents
  <2>3. Fifo!Clear
    BY <2>1, <2>2 DEF Fifo!Clear
  <2> QED
    BY <2>3 DEF Fifo!Next
<1>6. CASE UNCHANGED ringVars
  BY <1>6 DEF ringVars, Fifo!fifoVars, Contents, Count, NthSlot
<1> QED
  BY <1>3, <1>4, <1>5, <1>6 DEF RingNext

\* Every behaviour of enqueue, the dequeues and destroy_queue on the ring is a
\* behaviour of the lossy FIFO queue.
THEOREM RingImplementsLossyFifo == RingSpec => ImplementsLossyFifo
<1>1. RingInit => Fifo!Init
  BY EmptyContents DEF RingInit, Fifo!Init, Count
<1>2. RingSpec => [](RingTypeOK /\ HoldsNewest /\ SlotsHoldNewest)
  BY RingInvariant, RingHoldsNewest, PTL
<1>3. /\ RingTypeOK /\ HoldsNewest /\ SlotsHoldNewest
      /\ (RingTypeOK /\ HoldsNewest /\ SlotsHoldNewest)'
      /\ [RingNext]_ringVars
      => [Fifo!Next]_(Fifo!fifoVars)
  BY RingStepSimulates
<1> QED
  BY <1>1, <1>2, <1>3, PTL DEF RingSpec, ImplementsLossyFifo, Fifo!Spec

-----------------------------------------------------------------------------
(* The threads that share it.                                               *)

\* What a step of a thread does to the ring, if it touches the ring at all.
LEMMA RingSimulated == ASSUME [Next]_vars PROVE [RingNext]_ringVars
<1>1. CASE \E t \in Threads : CheckSession(t) \/ LockDestroyed(t) \/ Use(t)
  BY <1>1 DEF CheckSession, LockDestroyed, Use
<1>2. CASE \E t \in Producers : Enqueue(t) \/ EnqueueZeroSize(t)
  BY <1>2 DEF Enqueue, EnqueueZeroSize, RingNext
<1>3. ASSUME ReaderReturns PROVE [RingNext]_ringVars
  BY <1>3 DEF ReaderReturns, Expire, RingNext
<1>4. CASE ReaderLocks \/ ReaderWakes
  BY <1>3, <1>4 DEF ReaderLocks, ReaderWakes, ReaderSleeps
<1>5. CASE \E t \in Pollers : PollerLocks(t)
  BY <1>5 DEF PollerLocks, Expire, RingNext
<1>6. CASE StartSignal \/ ShutdownSignal \/ OwnerStep \/ SpuriousWakeup
  BY <1>6 DEF StartSignal, ShutdownSignal, OwnerStep, OwnerSleeps, Destroy,
              SpuriousWakeup, RingNext
<1>7. CASE UNCHANGED vars
  BY <1>7 DEF vars
<1> QED
  BY <1>1, <1>2, <1>4, <1>5, <1>6, <1>7 DEF Next

\* Every behaviour of the threads on the queue is, seen from the ring, a
\* behaviour of the ring: the sections under Q->mutex are its only writers.
THEOREM QueueImplementsRing == Spec => ImplementsRing
<1>1. Init => RingInit
  BY DEF Init
<1>2. [Next]_vars => [RingNext]_ringVars
  BY RingSimulated
<1> QED
  BY <1>1, <1>2, PTL DEF Spec, ImplementsRing, RingSpec

\* What CanRing promises of the messages held is kept by the threads: the slots
\* between begin and end hold the messages stored last, in order.
THEOREM QueueHoldsNewest == Spec => []HoldsNewest
BY QueueImplementsRing, RingHoldsNewest, PTL DEF ImplementsRing

\* No message is dequeued twice or out of order by any of the threads.
THEOREM QueueTakesInOrder == Spec => []TakenInOrder
BY QueueImplementsRing, RingTakesInOrder, PTL DEF ImplementsRing

-----------------------------------------------------------------------------
(* The types.                                                               *)

\* The types of the variables that are not the ring's.
SyncTypeOK ==
  /\ session_up \in BOOLEAN /\ dequeue_waiting \in BOOLEAN
  /\ stopped \in BOOLEAN /\ destroyed \in BOOLEAN
  /\ cond \subseteq {"reader", "owner"}
  /\ pc \in [Threads -> Labels]
  /\ ptr \in [Threads -> [slot : Nat, msg : Nat]]

\* Moving a thread to a label keeps pc a function to labels.
LEMMA GotoType ==
  ASSUME SyncTypeOK, NEW t \in Threads, NEW label \in Labels, Goto(t, label)
  PROVE  pc' \in [Threads -> Labels]
BY DEF SyncTypeOK, Goto

\* pthread_cond_signal adds no sleeper.
LEMMA SignalType == ASSUME Signal PROVE cond' \subseteq cond
BY DEF Signal

\* The head of a ring that is not empty is a message.
LEMMA ReturnHeadType ==
  ASSUME SyncTypeOK, RingTypeOK, size # 0, NEW t \in Threads, ReturnHead(t)
  PROVE  ptr' \in [Threads -> [slot : Nat, msg : Nat]] /\ pc' \in [Threads -> Labels]
<1>1. begin \in Slots /\ begin \in Nat
  BY SizeAssumption DEF RingTypeOK, Slots
<1>2. data[begin] \in Nat
  BY <1>1 DEF RingTypeOK
<1>3. [slot |-> begin, msg |-> data[begin]] \in [slot : Nat, msg : Nat]
  BY <1>1, <1>2
<1>4. ptr' \in [Threads -> [slot : Nat, msg : Nat]]
  BY <1>3 DEF SyncTypeOK, ReturnHead
<1>5. pc' \in [Threads -> Labels]
  BY GotoType DEF ReturnHead, Labels
<1> QED
  BY <1>4, <1>5

\* The reader and the owner are threads.
LEMMA ReaderAndOwner ==
  "reader" \in Threads /\ "owner" \in Threads /\ Producers \subseteq Threads
    /\ Pollers \subseteq Threads
BY DEF Threads

\* Leaving the waiting loop keeps the types.
LEMMA ReaderReturnsType ==
  ASSUME SyncTypeOK, RingTypeOK, ReaderReturns PROVE SyncTypeOK'
<1>1. cond' \subseteq cond /\ dequeue_waiting' \in BOOLEAN
  BY SignalType DEF ReaderReturns
<1>2. /\ pc' \in [Threads -> Labels]
      /\ ptr' \in [Threads -> [slot : Nat, msg : Nat]]
  <2>1. CASE UNCHANGED ptr /\ \E label \in Labels : Goto("reader", label)
    BY <2>1, GotoType, ReaderAndOwner DEF SyncTypeOK
  <2>2. CASE size # 0 /\ ReturnHead("reader")
    BY <2>2, ReturnHeadType, ReaderAndOwner
  <2> QED
    BY <2>1, <2>2 DEF ReaderReturns, Expire, Labels
<1> QED
  BY <1>1, <1>2 DEF SyncTypeOK, ReaderReturns

\* The cleared pointer is a pointer.
LEMMA NoPtrType == NoPtr \in [slot : Nat, msg : Nat]
BY DEF NoPtr

\* Every step keeps the types.
LEMMA SyncTypeStep ==
  ASSUME SyncTypeOK, RingTypeOK, [Next]_vars PROVE SyncTypeOK'
<1>1. ASSUME NEW t \in Threads, CheckSession(t) \/ LockDestroyed(t) \/ Use(t)
      PROVE  SyncTypeOK'
  <2>1. pc' \in [Threads -> Labels]
    <3>1. \E label \in Labels : Goto(t, label)
      BY <1>1 DEF CheckSession, LockDestroyed, Use, Labels
    <3> QED
      BY <3>1, GotoType
  <2>2. ptr' \in [Threads -> [slot : Nat, msg : Nat]]
    BY <1>1, NoPtrType DEF CheckSession, LockDestroyed, Use, SyncTypeOK
  <2> QED
    BY <1>1, <2>1, <2>2 DEF CheckSession, LockDestroyed, Use, SyncTypeOK, syncVars
<1>2. ASSUME NEW t \in Producers, Enqueue(t) \/ EnqueueZeroSize(t)
      PROVE  SyncTypeOK'
  <2>1. pc' \in [Threads -> Labels]
    BY <1>2, GotoType, ReaderAndOwner DEF Enqueue, EnqueueZeroSize, Labels
  <2> QED
    BY <1>2, <2>1, SignalType DEF Enqueue, EnqueueZeroSize, SyncTypeOK
<1>3. ASSUME ReaderSleeps, dequeue_waiting' \in BOOLEAN PROVE SyncTypeOK'
  <2>1. pc' \in [Threads -> Labels]
    BY <1>3, GotoType, ReaderAndOwner DEF ReaderSleeps, Labels
  <2> QED
    BY <1>3, <2>1 DEF ReaderSleeps, SyncTypeOK
<1>4. CASE ReaderLocks \/ ReaderWakes
  <2>1. \/ ReaderReturns
        \/ ReaderSleeps /\ dequeue_waiting' \in BOOLEAN
    BY <1>4 DEF ReaderLocks, ReaderWakes, SyncTypeOK
  <2> QED
    BY <2>1, <1>3, ReaderReturnsType
<1>5. ASSUME NEW t \in Pollers, PollerLocks(t) PROVE SyncTypeOK'
  <2>1. CASE UNCHANGED ptr /\ \E label \in Labels : Goto(t, label)
    BY <1>5, <2>1, GotoType, ReaderAndOwner DEF SyncTypeOK, PollerLocks, syncVars
  <2>2. CASE size # 0 /\ ReturnHead(t)
    BY <1>5, <2>2, ReturnHeadType, ReaderAndOwner DEF SyncTypeOK, PollerLocks, syncVars
  <2> QED
    BY <1>5, <2>1, <2>2 DEF PollerLocks, Expire, Take, Labels
<1>6. CASE ShutdownSignal \/ OwnerSleeps \/ Destroy
  <2>1. pc' \in [Threads -> Labels]
    BY <1>6, GotoType, ReaderAndOwner DEF ShutdownSignal, OwnerSleeps, Destroy, Labels
  <2> QED
    BY <1>6, <2>1, SignalType DEF ShutdownSignal, OwnerSleeps, Destroy, SyncTypeOK
<1>7. CASE StartSignal \/ SpuriousWakeup
  BY <1>7, SignalType DEF StartSignal, SpuriousWakeup, SyncTypeOK
<1>8. CASE UNCHANGED vars
  BY <1>8 DEF vars, syncVars, SyncTypeOK
<1> QED
  BY <1>1, <1>2, <1>4, <1>5, <1>6, <1>7, <1>8 DEF Next, OwnerStep

\* The indices stay inside the ring however the threads interleave, and only
\* the reader and the owner sleep on the condition variable.
THEOREM QueueTypeCorrect == Spec => []TypeOK
<1>1. Spec => []RingTypeOK
  BY QueueImplementsRing, RingTypeCorrect, PTL DEF ImplementsRing
<1>2. Init => SyncTypeOK
  BY NoPtrType DEF Init, SyncTypeOK, Labels
<1>3. SyncTypeOK /\ RingTypeOK /\ [Next]_vars => SyncTypeOK'
  BY SyncTypeStep
<1>4. RingTypeOK /\ SyncTypeOK => TypeOK
  BY DEF SyncTypeOK, TypeOK
<1> QED
  BY <1>1, <1>2, <1>3, <1>4, PTL DEF Spec

-----------------------------------------------------------------------------
(* Waiting and waking.                                                      *)

\* The strengthening that makes NoLostWakeup and OwnerWaitsForReader inductive.
\* The heart of it is that the two sleepers are never asleep together, so that
\* a signal, which wakes one sleeper, always wakes the one it is meant for.
SleepersOK ==
  /\ NoLostWakeup
  /\ OwnerWaitsForReader
  /\ "owner" \in cond => pc["owner"] = "wait"
  /\ pc["owner"] \in {"lock", "wait", "done"} => ~session_up
  /\ destroyed => ~dequeue_waiting /\ ~session_up

\* After a signal nobody sleeps.
LEMMA SignalWakesAll ==
  ASSUME SyncTypeOK, SleepersOK, Signal PROVE cond' = {}
<1>1. cond \subseteq {"reader", "owner"} /\ ~("reader" \in cond /\ "owner" \in cond)
  BY DEF SyncTypeOK, SleepersOK, OwnerWaitsForReader
<1> QED
  BY <1>1 DEF Signal

\* A reader in its waiting loop is neither about to lock nor using a message,
\* and only it can be asleep while the session is up.
LEMMA ReaderAsleep ==
  ASSUME SleepersOK, "reader" \in cond
  PROVE  /\ pc["reader"] = "wait" /\ dequeue_waiting /\ session_up
         /\ RingEmpty \/ (ReaderOp = "dequeue" /\ stopped)
BY DEF SleepersOK, NoLostWakeup, OwnerWaitsForReader, ReaderMustWait

\* Steps that change neither the flags nor the sleepers nor where the reader
\* and the owner are.
LEMMA SleepersKept ==
  ASSUME SleepersOK, UNCHANGED syncVars, RingEmpty => RingEmpty',
         pc'["reader"] = pc["reader"], pc'["owner"] = pc["owner"]
  PROVE  SleepersOK'
BY DEF SleepersOK, NoLostWakeup, OwnerWaitsForReader, ReaderMustWait, syncVars

\* A step of one thread leaves the others where they are.
LEMMA GotoOther ==
  ASSUME SyncTypeOK, NEW t, NEW u \in Threads, u # t, NEW label, Goto(t, label)
  PROVE  pc'[u] = pc[u]
BY DEF SyncTypeOK, Goto

\* Leaving the waiting loop.
LEMMA ReaderReturnsSleepers ==
  ASSUME SyncTypeOK, SleepersOK, ReaderReturns, pc["reader"] \in {"lock", "wait"},
         "reader" \notin cond
  PROVE  SleepersOK'
<1>1. cond' = {}
  <2>1. CASE session_up
    <3>1. cond = {}
      BY <2>1 DEF SyncTypeOK, SleepersOK, OwnerWaitsForReader
    <3> QED
      BY <2>1, <3>1 DEF ReaderReturns
  <2>2. CASE ~session_up
    BY <2>2, SignalWakesAll DEF ReaderReturns
  <2> QED
    BY <2>1, <2>2
<1>2. pc'["owner"] = pc["owner"]
  <2>1. \E label : Goto("reader", label)
    BY DEF ReaderReturns, ReturnHead, Expire
  <2> QED
    BY <2>1, GotoOther, ReaderAndOwner
<1> QED
  BY <1>1, <1>2 DEF SleepersOK, NoLostWakeup, OwnerWaitsForReader, ReaderReturns

\* Every step keeps what the sleepers rely on.
LEMMA SleepersStep ==
  ASSUME SyncTypeOK, SleepersOK, [Next]_vars PROVE SleepersOK'
<1>1. ASSUME NEW t \in Threads, CheckSession(t) \/ LockDestroyed(t) PROVE SleepersOK'
  <2>1. pc[t] = "wait" => t \notin cond /\ destroyed
    BY <1>1 DEF CheckSession, LockDestroyed
  <2>2. t # "owner" /\ \E label : Goto(t, label)
    BY <1>1 DEF CheckSession, LockDestroyed
  <2>3. pc'["owner"] = pc["owner"]
    BY <2>2, GotoOther, ReaderAndOwner
  <2>4. UNCHANGED syncVars /\ (RingEmpty => RingEmpty')
    BY <1>1 DEF CheckSession, LockDestroyed, RingEmpty, ringVars
  <2>5. dequeue_waiting => pc'["reader"] = pc["reader"]
    <3>1. CASE t = "reader"
      BY <1>1, <3>1 DEF CheckSession, LockDestroyed, SleepersOK, OwnerWaitsForReader
    <3>2. CASE t # "reader"
      BY <3>2, <2>2, GotoOther, ReaderAndOwner
    <3> QED
      BY <3>1, <3>2
  <2> QED
    BY <2>3, <2>4, <2>5
       DEF SleepersOK, NoLostWakeup, OwnerWaitsForReader, ReaderMustWait, syncVars
<1>2. ASSUME NEW t \in Threads, Use(t) PROVE SleepersOK'
  <2>1. pc[t] = "use" /\ \E label : Goto(t, label)
    BY <1>2 DEF Use
  <2>2. dequeue_waiting => t # "reader"
    BY <2>1 DEF SleepersOK, OwnerWaitsForReader
  <2>3. dequeue_waiting => pc'["reader"] = pc["reader"]
    BY <2>1, <2>2, GotoOther, ReaderAndOwner
  <2>4. "reader" \in cond => UNCHANGED <<stopped, begin, end>>
    BY <1>2, <2>2, ReaderAsleep DEF Use, ringVars
  <2>5. \/ pc'["owner"] = pc["owner"]
        \/ t = "owner" /\ pc'["owner"] = "idle"
    BY <1>2, <2>1, GotoOther, ReaderAndOwner DEF Use, Goto, SyncTypeOK
  <2>6. "owner" \in cond => t # "owner"
    BY <2>1 DEF SleepersOK
  <2> QED
    BY <1>2, <2>3, <2>4, <2>5, <2>6
       DEF SleepersOK, NoLostWakeup, OwnerWaitsForReader, ReaderMustWait, Use, RingEmpty
<1>3. ASSUME NEW t \in Producers, Enqueue(t) \/ EnqueueZeroSize(t) PROVE SleepersOK'
  <2>1. cond' = {} /\ t # "reader" /\ t # "owner"
    BY <1>3, SignalWakesAll, ThreadsAssumption DEF Enqueue, EnqueueZeroSize
  <2>2. pc'["reader"] = pc["reader"] /\ pc'["owner"] = pc["owner"]
    BY <1>3, <2>1, GotoOther, ReaderAndOwner DEF Enqueue, EnqueueZeroSize
  <2> QED
    BY <1>3, <2>1, <2>2
       DEF SleepersOK, NoLostWakeup, OwnerWaitsForReader, Enqueue, EnqueueZeroSize
<1>4. ASSUME ReaderSleeps, pc["reader"] \in {"lock", "wait"}, ReaderMustWait(dequeue_waiting'),
             ~destroyed
      PROVE  SleepersOK'
  <2>1. "owner" \notin cond
    BY <1>4 DEF SleepersOK, OwnerWaitsForReader, ReaderMustWait
  <2>2. pc'["reader"] = "wait" /\ pc'["owner"] = pc["owner"]
    BY <1>4, GotoOther, ReaderAndOwner DEF ReaderSleeps, Goto, SyncTypeOK
  <2>3. ReaderMustWait(dequeue_waiting)'
    BY <1>4 DEF ReaderSleeps, ReaderMustWait, RingEmpty, ringVars
  <2> QED
    BY <1>4, <2>1, <2>2, <2>3
       DEF SleepersOK, NoLostWakeup, OwnerWaitsForReader, ReaderSleeps, ReaderMustWait
<1>5. CASE ReaderLocks \/ ReaderWakes
  <2>1. pc["reader"] \in {"lock", "wait"} /\ "reader" \notin cond /\ ~destroyed
    BY <1>5, ReaderAsleep DEF ReaderLocks, ReaderWakes
  <2>2. ReaderReturns \/ (ReaderSleeps /\ ReaderMustWait(dequeue_waiting'))
    BY <1>5 DEF ReaderLocks, ReaderWakes, ReaderMustWait
  <2> QED
    BY <2>1, <2>2, <1>4, ReaderReturnsSleepers
<1>6. ASSUME NEW t \in Pollers, PollerLocks(t) PROVE SleepersOK'
  <2>1. t # "reader" /\ t # "owner" /\ \E label : Goto(t, label)
    BY <1>6, ThreadsAssumption DEF PollerLocks, ReturnHead, Expire
  <2>2. pc'["reader"] = pc["reader"] /\ pc'["owner"] = pc["owner"]
    BY <2>1, GotoOther, ReaderAndOwner
  <2>3. UNCHANGED syncVars /\ (RingEmpty => RingEmpty')
    BY <1>6 DEF PollerLocks, Expire, Take, RingEmpty, ringVars
  <2> QED
    BY <2>2, <2>3, SleepersKept
<1>7. CASE StartSignal
  <2>1. cond' = {}
    BY <1>7, SignalWakesAll DEF StartSignal
  <2> QED
    BY <1>7, <2>1 DEF SleepersOK, NoLostWakeup, OwnerWaitsForReader, StartSignal
<1>8. CASE ShutdownSignal
  <2>1. cond' = {}
    BY <1>8, SignalWakesAll DEF ShutdownSignal
  <2>2. pc'["reader"] = pc["reader"]
    BY <1>8, GotoOther, ReaderAndOwner DEF ShutdownSignal
  <2> QED
    BY <1>8, <2>1, <2>2 DEF SleepersOK, NoLostWakeup, OwnerWaitsForReader, ShutdownSignal
<1>9. CASE OwnerSleeps \/ Destroy
  <2>1. ~session_up /\ pc["owner"] \in {"lock", "wait"}
    BY <1>9 DEF OwnerSleeps, Destroy, OwnerRuns, SleepersOK
  <2>2. "reader" \notin cond
    BY <2>1, ReaderAsleep
  <2>3. pc'["reader"] = pc["reader"]
    BY <1>9, GotoOther, ReaderAndOwner DEF OwnerSleeps, Destroy
  <2>4. CASE OwnerSleeps
    <3>1. pc'["owner"] = "wait"
      BY <2>4, ReaderAndOwner DEF OwnerSleeps, Goto, SyncTypeOK
    <3> QED
      BY <2>1, <2>2, <2>3, <2>4, <3>1
         DEF SleepersOK, NoLostWakeup, OwnerWaitsForReader, OwnerSleeps
  <2>5. CASE Destroy
    <3>1. cond' = {}
      BY <2>2, <2>5 DEF Destroy, SleepersOK, OwnerWaitsForReader, SyncTypeOK
    <3> QED
      BY <2>1, <2>3, <2>5, <3>1
         DEF SleepersOK, NoLostWakeup, OwnerWaitsForReader, Destroy
  <2> QED
    BY <1>9, <2>4, <2>5
<1>10. CASE SpuriousWakeup
  <2>1. cond' \subseteq cond /\ UNCHANGED <<begin, end>>
    BY <1>10 DEF SpuriousWakeup, ringVars
  <2> QED
    BY <1>10, <2>1 DEF SleepersOK, NoLostWakeup, OwnerWaitsForReader, ReaderMustWait,
                       RingEmpty, SpuriousWakeup
<1>11. CASE UNCHANGED vars
  BY <1>11, SleepersKept DEF vars, ringVars, RingEmpty
<1> QED
  BY <1>1, <1>2, <1>3, <1>5, <1>6, <1>7, <1>8, <1>9, <1>10, <1>11 DEF Next, OwnerStep

\* The sleepers' invariant holds throughout.
LEMMA SleepersInvariant == Spec => []SleepersOK
<1>1. Init => SleepersOK
  BY ReaderAndOwner DEF Init, SleepersOK, NoLostWakeup, OwnerWaitsForReader
<1>2. TypeOK => SyncTypeOK
  BY DEF TypeOK, SyncTypeOK
<1>3. SyncTypeOK /\ SleepersOK /\ [Next]_vars => SleepersOK'
  BY SleepersStep
<1> QED
  BY <1>1, <1>2, <1>3, QueueTypeCorrect, PTL DEF Spec

\* No wake-up is lost: the reader of dequeue or dequeue_peek is asleep only while
\* the condition of its waiting loop tells it to be.
THEOREM QueueNoLostWakeup == Spec => []NoLostWakeup
<1>1. SleepersOK => NoLostWakeup
  BY DEF SleepersOK
<1> QED
  BY <1>1, SleepersInvariant, PTL

\* destroy_queue waits only for a reader that will answer, and nobody is asleep
\* on the condition variable it destroys.
THEOREM QueueOwnerWaitsForReader == Spec => []OwnerWaitsForReader
<1>1. SleepersOK => OwnerWaitsForReader
  BY DEF SleepersOK
<1> QED
  BY <1>1, SleepersInvariant, PTL
=============================================================================
