------------------------------- MODULE WritePath ------------------------------
(***************************************************************************)
(* One write() to a file on its way to the bus: io_write cuts the bytes    *)
(* into messages and enqueues them one by one, while the thread of the     *)
(* device, netif_tx, dequeues and sends them.  The tx_queue is the one     *)
(* queue.c promises (LossyFifo): a ring of Size slots implements it with   *)
(* the Capacity Size - 1, so TxCapacity is 14 for the 15 slots that        *)
(* register_netdev asks for.  What the messages become is FrameCodec.      *)
(*                                                                         *)
(* The queue is idle when the write begins and no other client uses the    *)
(* device.  That the controller takes every frame is TxPath's matter.      *)
(***************************************************************************)
EXTENDS FrameCodec

CONSTANTS Writes,       \* the writes: kind, format and identifier of the file, and the bytes
          TxCapacity    \* how many messages the tx_queue holds without losing one

ASSUME WriteAssumption ==
  /\ TxCapacity \in Nat
  /\ \A x \in Writes : /\ x \in [kind : {"rx", "tx"}, ext : BOOLEAN, id : Nat, bytes : Seq(Byte)]
                       /\ x.id < Pow29

VARIABLES
  write,      \* the write
  tx_queue,   \* the messages queued, by their number in the write
  enqueued,   \* how many the loop of io_write has enqueued
  taken,      \* the messages netif_tx has sent, in order
  overrun     \* history: io_write found the queue full

writeVars == <<write, tx_queue, enqueued, taken, overrun>>

Q == INSTANCE LossyFifo WITH Capacity <- TxCapacity, fifo <- tx_queue, count <- enqueued

\* The file after CAN_DEVCTL_SET_MID, and the messages of the write.
FileOf(x) ==
  set_mid(set_latency_limit_ms(File0(x.kind, x.ext), 5).file, cansend(x.id, x.ext, <<>>).mid).file
Messages == io_write(FileOf(write), write.bytes)

WriteInit ==
  /\ write \in Writes
  /\ Q!Init
  /\ taken = <<>> /\ overrun = FALSE

\* One turn of the loop in io_write, which does not look at what enqueue returns.
Enqueue ==
  /\ enqueued < Len(Messages)
  /\ Q!Put
  /\ overrun' = (overrun \/ Len(tx_queue) >= TxCapacity)
  /\ UNCHANGED <<write, taken>>

\* One turn of the loop in netif_tx.
Transmit ==
  /\ Q!Get
  /\ taken' = Append(taken, Head(tx_queue))
  /\ UNCHANGED <<write, overrun>>

WriteNext == Enqueue \/ Transmit

WriteSpec == WriteInit /\ [][WriteNext]_writeVars

-----------------------------------------------------------------------------

\* The frame another client receives for message k.
Frame(k) == Received(Messages[k], 255)

Finished == enqueued = Len(Messages) /\ tx_queue = <<>>

\* Every byte is where it belongs in the frames received.
Whole ==
  \A i \in 1 .. Len(write.bytes) :
    LET m == Frame(taken[(i + 7) \div 8])
    IN  (i - 1) % 8 < m.len /\ m.dat[((i - 1) % 8) + 1] = write.bytes[i]

\* The frames of a write() reach another client in order, none twice, with the identifier
\* that CAN_DEVCTL_SET_MID gave the file and nothing past the end of what was written; an
\* rx file sends none.  Unless io_write finds the tx_queue full, which takes a write of
\* more messages than it holds, none is missing, and when the last has been sent their
\* data is what was written exactly if its length fits can_msg.len: otherwise some frame
\* is short, because the bytes left go through len before they are compared with 8.
\* (A full queue forgets messages, and the slot netif_tx still copies from is reused.)
WriteArrives ==
  /\ write.kind = "rx" => taken = <<>>
  /\ \A i, j \in DOMAIN taken : i < j => taken[i] < taken[j]
  /\ \A i \in DOMAIN taken :
       /\ Frame(taken[i]).mid = Received(cansend(write.id, write.ext, <<>>), 0).mid
       /\ 8 * (taken[i] - 1) + Frame(taken[i]).len <= Len(write.bytes)
  /\ overrun => Len(Messages) > TxCapacity
  /\ ~overrun => \A i \in DOMAIN taken : taken[i] = i
  /\ ~overrun /\ write.kind = "tx" /\ Finished => (Len(write.bytes) < LenWrap <=> Whole)
=============================================================================
