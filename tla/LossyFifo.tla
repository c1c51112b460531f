------------------------------ MODULE LossyFifo ------------------------------
(***************************************************************************)
(* What the circular queue of queue.c promises its callers, without the    *)
(* ring: messages are numbered in the order in which they are stored, they *)
(* leave in that order, a queue that holds fewer than Capacity messages    *)
(* loses nothing, and a queue that is full makes room by forgetting some   *)
(* number of the messages at its head.  How many it forgets is left open:  *)
(* queue.c means one or two, and the ring of CanRing can forget them all.  *)
(***************************************************************************)
EXTENDS Naturals, Sequences

CONSTANT Capacity

VARIABLES fifo,    \* the messages held, oldest first
          count    \* how many messages have been stored so far

fifoVars == <<fifo, count>>

Init ==
  /\ fifo = <<>>
  /\ count = 0

\* A message is stored.  Forgetting Len(fifo) + 1 messages loses the new
\* message too.
Put ==
  /\ count' = count + 1
  /\ \E lost \in 0 .. Len(fifo) + 1 :
       /\ Len(fifo) < Capacity => lost = 0
       /\ fifo' = SubSeq(Append(fifo, count + 1), lost + 1, Len(fifo) + 1)

\* The oldest message leaves.
Get ==
  /\ fifo # <<>>
  /\ fifo' = Tail(fifo)
  /\ UNCHANGED count

\* The queue is destroyed with whatever it holds.
Clear ==
  /\ fifo' = <<>>
  /\ UNCHANGED count

Next == Put \/ Get \/ Clear

Spec == Init /\ [][Next]_fifoVars
=============================================================================
