------------------------------- MODULE CanRing -------------------------------
(***************************************************************************)
(* The ring of queue_t (queue.h, queue.c): the array data, the indices     *)
(* begin and end, and what enqueue, the dequeues and destroy_queue do to   *)
(* them while they hold the queue's mutex.  end may equal the size of the  *)
(* array: the wrap to slot 0 is postponed to the next enqueue.             *)
(*                                                                         *)
(* A message is its number in the order of storing; slots never written    *)
(* hold 0.  stored, taken and takes are history variables.                 *)
(***************************************************************************)
EXTENDS Integers

CONSTANTS Size,       \* queue_attr_t.size of a queue that can store
          MaxStored   \* bound on the messages stored in a behaviour

\* The driver creates queues of 15 and 1024 messages and, where nothing is to be
\* stored, of 0.  The wrap of a full ring sets begin to 2, which is no slot of a
\* ring of one or two messages.
ASSUME SizeAssumption == Size \in Nat /\ Size >= 3
ASSUME MaxStoredAssumption == MaxStored \in Nat

VARIABLES size,      \* attr.size: Size, or 0; destroy_queue sets it to 0
          data, begin, end,
          dropped,   \* calls of dropped_packet
          stored,    \* messages stored so far
          taken,     \* number of the message removed last, 0 before any
          takes      \* messages removed so far

ringVars == <<size, data, begin, end, dropped, stored, taken, takes>>

Slots == 0 .. Size - 1

\* create_queue: an empty ring.
RingInit ==
  /\ size \in {0, Size}
  /\ data = [i \in Slots |-> 0]
  /\ begin = 0
  /\ end = 0
  /\ dropped = 0
  /\ stored = 0
  /\ taken = 0
  /\ takes = 0

RingEmpty == begin = end

\* How many messages lie between begin and end.
Count == IF begin <= end THEN end - begin ELSE Size - begin + end

\* The slot of the i-th message held, oldest first.
NthSlot(i) == IF begin + i - 1 < Size THEN begin + i - 1 ELSE begin + i - 1 - Size

\* The messages held, oldest first.
Contents == [i \in 1 .. Count |-> data[NthSlot(i)]]

-----------------------------------------------------------------------------

\* Mutant: end is incremented before the message is written.
PutAfterIncrement(b, e, d) ==
  /\ data' = [data EXCEPT ![e + 1] = stored + 1]
  /\ end' = e + 1
  /\ begin' = b
  /\ dropped' = dropped + d
  /\ stored' = stored + 1
  /\ UNCHANGED <<size, taken, takes>>

\* Write the message to slot e, leave the head at b, tell the owner of the
\* queue of d dropped messages.
Put(b, e, d) ==
  /\ data' = [data EXCEPT ![e] = stored + 1]
  /\ end' = e + 1
  /\ begin' = b
  /\ dropped' = dropped + d
  /\ stored' = stored + 1
  /\ UNCHANGED <<size, taken, takes>>

\* The insertion of enqueue: the five ways the indices can move.
Store ==
  /\ size # 0
  /\ stored < MaxStored
  /\ \/ end = size /\ begin = 0 /\ Put(2, 0, 0)
     \/ end = size /\ begin # 0 /\ Put(begin, 0, 0)
     \/ end # size /\ begin = end + 1 /\ begin + 1 = size /\ Put(0, end, 0)
     \/ end # size /\ begin = end + 1 /\ begin + 1 # size /\ Put(begin + 1, end, 1)
     \/ end # size /\ begin # end + 1 /\ Put(begin, end, 0)

\* Mutant: begin is wrapped, the postponed wrap of end is forgotten.
TakeKeepsEnd ==
  /\ size # 0
  /\ ~RingEmpty
  /\ taken' = data[begin]
  /\ takes' = takes + 1
  /\ begin' = IF begin + 1 = size THEN 0 ELSE begin + 1
  /\ UNCHANGED <<size, data, end, dropped, stored>>

\* The removal shared by dequeue and dequeue_noblock.
Take ==
  /\ size # 0
  /\ ~RingEmpty
  /\ taken' = data[begin]
  /\ takes' = takes + 1
  /\ begin' = IF begin + 1 = size THEN 0 ELSE begin + 1
  /\ end' = IF begin + 1 = size /\ end = size THEN 0 ELSE end
  /\ UNCHANGED <<size, data, dropped, stored>>

\* destroy_queue: the messages still held are forgotten.
Reset ==
  /\ size' = 0
  /\ begin' = 0
  /\ end' = 0
  /\ UNCHANGED <<data, dropped, stored, taken, takes>>

RingNext == Store \/ Take \/ Reset

RingSpec == RingInit /\ [][RingNext]_ringVars
-----------------------------------------------------------------------------

(***************************************************************************)
(* Properties.                                                             *)
(***************************************************************************)

\* begin is always a slot of the array and end at most one past it, so that
\* data[begin] in the dequeues and data[end] in enqueue stay inside the array.
RingTypeOK ==
  /\ size \in {0, Size}
  /\ data \in [Slots -> Nat]
  /\ begin \in Nat /\ end \in Nat
  /\ IF size = 0 THEN begin = 0 /\ end = 0 ELSE begin < Size /\ end <= Size
  /\ dropped \in Nat /\ stored \in Nat /\ taken \in Nat /\ takes \in Nat

\* Whatever mixture of enqueues and dequeues wrapped the indices, the slots
\* from begin to end hold exactly the Count messages stored last, in the order
\* of storing: no stale slot, no gap and no duplicate is ever between them.
HoldsNewest ==
  /\ Count <= stored
  /\ \A i \in 1 .. Count : Contents[i] = stored - Count + i

\* A dequeue never returns a message twice and never goes back: every message
\* still held is newer than every message already removed.
TakenInOrder == taken <= stored - Count

\* dropped_packet is never called for a message that was not lost: the calls,
\* the messages removed and the messages held never exceed those stored.
DropsNotOvercounted == dropped + takes + Count <= stored

Fifo == INSTANCE LossyFifo
          WITH Capacity <- Size - 1, fifo <- Contents, count <- stored

\* The ring is a FIFO queue that loses nothing while it holds fewer than
\* Size - 1 messages.
ImplementsLossyFifo == Fifo!Spec

\* What the comments of enqueue say of a full ring: "1 message lost" or
\* "we must lose 2 of the oldest messages in this scenario".
LosesAtMostTwo ==
  [][stored' = stored + 1 => Count + 1 - Count' <= 2]_ringVars
=============================================================================
