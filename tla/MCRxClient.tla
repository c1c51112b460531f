----------------------------- MODULE MCRxClient -----------------------------
(* RxClient for TLC: a file shared by two client threads, from two of the    *)
(* states messages and reads lead to.                                        *)
EXTENDS RxInvariants

MCMsgLen == <<1, 3, 2, 1>>

\* The ring filled up before anybody read: the next message overflows it.
Full == end = Size /\ takes = 0 /\ read = <<>>

\* Three read() of two bytes returned what the ring held.
Drained ==
  /\ end = 0 /\ takes = Size
  /\ read = Bytes(1, 0, 1) \o Bytes(2, 0, 3) \o Bytes(3, 0, 2)

MCInit ==
  /\ Full \/ Drained
  /\ size = Size /\ data = [i \in Slots |-> i + 1] /\ begin = 0
  /\ stored = Size /\ taken = takes /\ dropped = 0
  /\ session_up = TRUE /\ dequeue_waiting = FALSE /\ stopped = FALSE
  /\ destroyed = FALSE /\ cond = {}
  /\ pc = [t \in Threads |-> "idle"] /\ ptr = [t \in Threads |-> NoPtr]
  /\ blocked = <<>> /\ rx_queue = TRUE /\ rx_asleep = FALSE
  /\ buffer = <<>> /\ read_size = READ_SIZE /\ offset = 0
  /\ loop = [pc |-> "top", rcvid |-> "none"]
  /\ handler = NoHandler
  /\ client = [c \in Clients |-> Ready]
  /\ close = "open" /\ shutdown = FALSE /\ requests = 0
  /\ spoiled = FALSE /\ interrupted = FALSE

MCSpec == MCInit /\ [][RxNext]_rxVars /\ RxFairness
=============================================================================
