------------------------------- MODULE RxClient -------------------------------
(***************************************************************************)
(* One open file of an rx channel (can_ocb in resmgr.c, resmgr.h): its     *)
(* client session's rx_queue, its thread rx_loop, the list of clients left *)
(* blocked, and the handlers that serve reads.                             *)
(*                                                                         *)
(*   producers  netif_rx: enqueue on the session's rx_queue                *)
(*   "reader"   rx_loop: waits for a blocked client, then for a message,   *)
(*              and has the client's request handled again                 *)
(*   "handler"  the resource-manager thread inside io_read or io_devctl;   *)
(*              the framework serialises the handlers of one channel       *)
(*   "owner"    can_ocb_free, called when the file is closed               *)
(*                                                                         *)
(* The queue is CanQueue.  A section under rx.mutex is one step.  A client *)
(* is a thread of a client process; its rcvid is the client itself.        *)
(***************************************************************************)
EXTENDS CanQueue, Sequences, FiniteSets

CONSTANTS Clients,      \* the client threads that share the file
          MsgLen,       \* message number -> bytes of data
          ReadSizes,    \* nbytes of read()
          READ_SIZE,    \* how much read_buffer holds at first, 4096
          MaxRequests,  \* bound on the requests sent
          MayInterrupt, \* whether signals interrupt blocked clients
          MayShutdown   \* whether unregister_netdev runs

ASSUME ClientAssumption ==
  /\ Pollers = {"handler"} /\ ReaderOp = "dequeue_peek"
  /\ MsgLen \in [1 .. MaxStored -> 0 .. 8]
  /\ ReadSizes \subseteq Nat \ {0} /\ READ_SIZE \in Nat
  /\ MaxRequests \in Nat
  /\ MayInterrupt \in BOOLEAN /\ MayShutdown \in BOOLEAN
  /\ "none" \notin Clients

VARIABLES
  blocked,      \* rx.blocked_clients: a sequence of rcvids
  rx_queue,     \* rx.queue is not NULL
  rx_asleep,    \* rx_loop sleeps on rx.cond
  buffer,       \* the rx.nbytes bytes in rx.read_buffer
  read_size,    \* rx.read_size
  offset,       \* rx.offset
  loop,         \* pc of rx_loop and the rcvid it picked
  handler,      \* the request being handled
  client,       \* what each client waits for
  close,        \* pc of can_ocb_free
  shutdown,     \* resmgr->shutdown
  requests,     \* requests sent
  read,         \* history: the bytes read() returned, in order
  spoiled,      \* history: one of the exceptions of ReadsInOrder happened
  interrupted   \* history: a blocked client was interrupted

queueVars == <<ringVars, syncVars, pc, ptr>>
readVars == <<buffer, read_size, offset>>
ocbVars == <<blocked, rx_queue, rx_asleep, readVars>>
history == <<read, spoiled, interrupted>>
rxVars == <<queueVars, ocbVars, loop, handler, client, close, shutdown, requests,
            history>>

\* A request: read() of n bytes, CAN_DEVCTL_READ_CANMSG_EXT or
\* CAN_DEVCTL_RX_FRAME_RAW_BLOCK ("block"), CAN_DEVCTL_RX_FRAME_RAW_NOBLOCK; the last
\* two as commands.h sends them.
read_frame_raw_block == [op |-> "block", n |-> 0]
read_frame_raw_noblock == [op |-> "noblock", n |-> 0]
Requests == [op : {"read"}, n : ReadSizes] \cup {read_frame_raw_block, read_frame_raw_noblock}

Ready == [op |-> "none", n |-> 0]
NoHandler == [client |-> "none", st |-> "idle", again |-> FALSE]

\* can_ocb_calloc for an rx channel: a queue that can store, and the thread.
RxInit ==
  /\ Init /\ size = Size
  /\ blocked = <<>> /\ rx_queue = TRUE /\ rx_asleep = FALSE
  /\ buffer = <<>> /\ read_size = READ_SIZE /\ offset = 0
  /\ loop = [pc |-> "top", rcvid |-> "none"]
  /\ handler = NoHandler
  /\ client = [c \in Clients |-> Ready]
  /\ close = "open" /\ shutdown = FALSE /\ requests = 0
  /\ read = <<>> /\ spoiled = FALSE /\ interrupted = FALSE

Bytes(m, from, n) == [i \in 1 .. n |-> <<m, from + i>>]

-----------------------------------------------------------------------------
(* rx_loop                                                                  *)

LoopGoto(label) == loop' = [loop EXCEPT !.pc = label]

\* Under rx.mutex: sleep until a client is blocked or the file is closed.
WaitForClient ==
  /\ loop.pc = "top" \/ (loop.pc = "wait" /\ ~rx_asleep)
  /\ IF ~shutdown /\ rx_queue /\ blocked = <<>>
     THEN rx_asleep' = TRUE /\ LoopGoto("wait")
     ELSE rx_asleep' = FALSE /\ LoopGoto("test")
  /\ UNCHANGED <<queueVars, blocked, rx_queue, readVars, handler, client, close,
                 shutdown, requests, history>>

RxSpuriousWakeup ==
  /\ rx_asleep
  /\ rx_asleep' = FALSE
  /\ UNCHANGED <<queueVars, blocked, rx_queue, readVars, loop, handler, client,
                 close, shutdown, requests, history>>

\* The test for the end, made without the lock.
TestQueue ==
  /\ loop.pc = "test"
  /\ LoopGoto(IF shutdown \/ ~rx_queue THEN "exit" ELSE "peek")
  /\ UNCHANGED <<queueVars, ocbVars, handler, client, close, shutdown, requests, history>>

\* dequeue_peek(ocb->rx.queue): NULL for a NULL queue or one that is shut down,
\* and the loop goes on.
PeekNull ==
  /\ loop.pc = "peek"
  /\ (pc["reader"] = "idle" /\ ~rx_queue) \/ pc["reader"] = "done"
  /\ LoopGoto("top")
  /\ UNCHANGED <<queueVars, ocbVars, handler, client, close, shutdown, requests, history>>

Peek ==
  /\ loop.pc = "peek"
  /\ \/ rx_queue /\ CheckSession("reader")
     \/ ReaderLocks
     \/ ReaderWakes
     \/ LockDestroyed("reader")
  /\ UNCHANGED <<ocbVars, loop, handler, client, close, shutdown, requests, history>>

PeekReturns ==
  /\ loop.pc = "peek"
  /\ Use("reader")
  /\ LoopGoto("pick")
  /\ UNCHANGED <<ocbVars, handler, client, close, shutdown, requests, history>>

\* Under rx.mutex, the first client of the list; there is no test for NULL.
PickClient ==
  /\ loop.pc = "pick"
  /\ loop' = IF blocked = <<>> THEN [loop EXCEPT !.pc = "null"]
             ELSE [pc |-> "send", rcvid |-> Head(blocked)]
  /\ UNCHANGED <<queueVars, ocbVars, handler, client, close, shutdown, requests, history>>

\* MsgSend to our own channel: msg_again_callback hands the client's message to
\* its handler once more, unless the client does not wait for it any more.
msg_again_callback ==
  /\ loop.pc = "send" /\ handler = NoHandler
  /\ IF client[loop.rcvid] # Ready /\ close = "open"
     THEN /\ handler' = [client |-> loop.rcvid, again |-> TRUE,
                         st |-> IF client[loop.rcvid].op = "read" THEN "peek" ELSE "take"]
          /\ LoopGoto("reply")
     ELSE LoopGoto("top") /\ UNCHANGED handler
  /\ UNCHANGED <<queueVars, ocbVars, client, close, shutdown, requests, history>>

-----------------------------------------------------------------------------
(* io_read and io_devctl on the file                                        *)

op == client[handler.client].op
nbytes == client[handler.client].n

\* A buffer too small for a read() is replaced, and what it held is gone; rx.nbytes stays.
Junk == <<0, 0>>
Enlarges(r) == r.op = "read" /\ read_size < r.n

\* The client sends a request.
Request(c, r) ==
  /\ client[c] = Ready /\ handler = NoHandler /\ close = "open"
  /\ requests < MaxRequests
  /\ requests' = requests + 1
  /\ client' = [client EXCEPT ![c] = r]
  /\ handler' = [client |-> c, again |-> FALSE, st |-> IF r.op = "read" THEN "peek" ELSE "take"]
  /\ IF Enlarges(r)
     THEN /\ read_size' = read_size + r.n
          /\ buffer' = [i \in DOMAIN buffer |-> Junk]
          /\ spoiled' = (spoiled \/ buffer # <<>>)
     ELSE UNCHANGED <<read_size, buffer, spoiled>>
  /\ UNCHANGED <<queueVars, blocked, rx_queue, rx_asleep, offset, loop, close, shutdown, read,
                 interrupted>>

\* The handler returns: msg_again_callback, if it called it, replies to rx_loop.
Finish ==
  /\ handler' = NoHandler
  /\ IF handler.again THEN LoopGoto("top") ELSE UNCHANGED loop

\* io_read looks at the oldest message while it needs more bytes.
ReadPeeks ==
  /\ handler.st = "peek" /\ Len(buffer) < nbytes
  /\ \/ CheckSession("handler") /\ UNCHANGED handler
     \/ /\ PollerLocks("handler") /\ takes' = takes
        /\ handler' = [handler EXCEPT !.st = IF pc'["handler"] = "use" THEN "copy" ELSE "list"]
  /\ UNCHANGED <<ocbVars, loop, client, close, shutdown, requests, history>>

ReadHasEnough ==
  /\ handler.st = "peek" /\ Len(buffer) >= nbytes
  /\ handler' = [handler EXCEPT !.st = "done"]
  /\ UNCHANGED <<queueVars, ocbVars, loop, client, close, shutdown, requests, history>>

\* Mutant: the part of the message already read is forgotten.
ReadCopiesFromStart ==
  /\ handler.st = "copy"
  /\ Use("handler")
  /\ LET m == data[ptr["handler"].slot]
         rest == MsgLen[m] - offset
         n == IF Len(buffer) + rest \in 0 .. nbytes THEN rest ELSE nbytes - Len(buffer)
     IN  /\ buffer' = buffer \o Bytes(m, 0, n)
         /\ offset' = IF n = rest THEN 0 ELSE offset + n
         /\ handler' = [handler EXCEPT !.st = IF n = rest THEN "drop" ELSE "peek"]
  /\ UNCHANGED <<blocked, rx_queue, rx_asleep, read_size, loop, client, close, shutdown,
                 requests, history>>

\* The rest of the message is copied and the message removed if it fits; otherwise as
\* much as is asked for.  A rest below 0, when a shorter message has taken the place of the
\* one begun, is a copy without end if the sum wraps back: nothing is copied here, and
\* spoiled is set before.
ReadCopies ==
  /\ handler.st = "copy"
  /\ Use("handler")
  /\ LET m == data[ptr["handler"].slot]
         rest == MsgLen[m] - offset
         n == IF Len(buffer) + rest \in 0 .. nbytes THEN rest ELSE nbytes - Len(buffer)
     IN  /\ buffer' = buffer \o Bytes(m, offset, n)
         /\ offset' = IF n = rest THEN 0 ELSE offset + n
         /\ handler' = [handler EXCEPT !.st = IF n = rest THEN "drop" ELSE "peek"]
  /\ UNCHANGED <<blocked, rx_queue, rx_asleep, read_size, loop, client, close, shutdown,
                 requests, history>>

\* dequeue_noblock without a latency limit; the pointer is not used.
ReadDrops ==
  /\ handler.st = "drop"
  /\ \/ CheckSession("handler") /\ UNCHANGED handler
     \/ /\ PollerLocks("handler") /\ pc'["handler"] # "lock"
        /\ RingEmpty \/ takes' # takes
        /\ handler' = IF RingEmpty THEN [handler EXCEPT !.st = "peek"] ELSE handler
     \/ Use("handler") /\ handler' = [handler EXCEPT !.st = "peek"]
  /\ UNCHANGED <<ocbVars, loop, client, close, shutdown, requests, history>>

\* The reads of io_devctl: dequeue_noblock with the channel's latency limit.
DevctlTakes ==
  /\ handler.st = "take"
  /\ \/ CheckSession("handler") /\ UNCHANGED <<handler, spoiled>>
     \/ /\ PollerLocks("handler")
        /\ RingEmpty \/ takes' # takes
        /\ handler' = IF RingEmpty THEN [handler EXCEPT !.st = "list"] ELSE handler
        /\ spoiled' = (spoiled \/ ~RingEmpty)
     \/ /\ Use("handler")
        /\ handler' = [handler EXCEPT !.st = "done"]
        /\ UNCHANGED spoiled
  /\ UNCHANGED <<ocbVars, loop, client, close, shutdown, requests, read, interrupted>>

\* CAN_DEVCTL_RX_FRAME_RAW_NOBLOCK with nothing to read: EAGAIN.
ReplyAgain ==
  /\ handler.st = "list" /\ op = "noblock"
  /\ client' = [client EXCEPT ![handler.client] = Ready]
  /\ Finish
  /\ UNCHANGED <<queueVars, ocbVars, close, shutdown, requests, history>>

\* c has an entry in the list s.
Listed(s, c) == \E i \in DOMAIN s : s[i] = c

\* Mutant: a client already in the list is not signalled, nor is a new one.
BlockWithoutSignal ==
  /\ handler.st = "list" /\ op # "noblock"
  /\ blocked' = IF op = "read" /\ Listed(blocked, handler.client) THEN blocked
                ELSE Append(blocked, handler.client)
  /\ Finish
  /\ UNCHANGED <<queueVars, rx_queue, rx_asleep, readVars, client, close, shutdown,
                 requests, history>>

\* Under rx.mutex: the client is put on the list, by io_read only if it is not
\* there yet, and rx_loop is signalled.  No reply.
Block ==
  /\ handler.st = "list" /\ op # "noblock"
  /\ blocked' = IF op = "read" /\ Listed(blocked, handler.client) THEN blocked
                ELSE Append(blocked, handler.client)
  /\ rx_asleep' = FALSE
  /\ Finish
  /\ UNCHANGED <<queueVars, rx_queue, readVars, client, close, shutdown,
                 requests, history>>

\* Mutant: every client is removed from the list.
ReplyRemovesAll ==
  /\ handler.st = "done"
  /\ blocked' = <<>>
  /\ client' = [client EXCEPT ![handler.client] = Ready]
  /\ IF op = "read"
     THEN /\ read' = read \o SubSeq(buffer, 1, IF Len(buffer) < nbytes THEN Len(buffer) ELSE nbytes)
          /\ spoiled' = (spoiled \/ Len(buffer) > nbytes)
          /\ buffer' = <<>>
     ELSE UNCHANGED <<read, spoiled, buffer>>
  /\ Finish
  /\ UNCHANGED <<queueVars, rx_queue, rx_asleep, read_size, offset, close, shutdown,
                 requests, interrupted>>

\* The list s without the entries of c.
Without(s, c) ==
  LET kept == {i \in DOMAIN s : s[i] # c}
      Nth(n) == CHOOSE i \in kept : Cardinality({j \in kept : j <= i}) = n
  IN  [n \in 1 .. Cardinality(kept) |-> s[Nth(n)]]

\* The data is returned and the client's entries leave the list.  read() returns
\* everything in the buffer, of which the client receives what it asked for.
Reply ==
  /\ handler.st = "done"
  /\ blocked' = Without(blocked, handler.client)
  /\ client' = [client EXCEPT ![handler.client] = Ready]
  /\ IF op = "read"
     THEN /\ read' = read \o SubSeq(buffer, 1, IF Len(buffer) < nbytes THEN Len(buffer) ELSE nbytes)
          /\ spoiled' = (spoiled \/ Len(buffer) > nbytes)
          /\ buffer' = <<>>
     ELSE UNCHANGED <<read, spoiled, buffer>>
  /\ Finish
  /\ UNCHANGED <<queueVars, rx_queue, rx_asleep, read_size, offset, close, shutdown,
                 requests, interrupted>>

\* A signal hits a blocked client: io_unblock lets the framework answer it and
\* leaves the list as it is.
io_unblock(c) ==
  /\ MayInterrupt
  /\ client[c] # Ready /\ handler = NoHandler /\ close = "open"
  /\ client' = [client EXCEPT ![c] = Ready]
  /\ interrupted' = TRUE
  /\ UNCHANGED <<queueVars, ocbVars, loop, handler, close, shutdown, requests, read,
                 spoiled>>

-----------------------------------------------------------------------------
(* can_ocb_free and unregister_netdev                                       *)

\* Mutant: rx_loop is not woken when the file is closed.
CloseFileQuietly ==
  /\ MayDestroy
  /\ close = "open" /\ handler = NoHandler
  /\ rx_queue' = FALSE /\ rx_asleep' = rx_asleep
  /\ buffer' = <<>> /\ read_size' = 0 /\ offset' = 0
  /\ close' = "destroy"
  /\ UNCHANGED <<queueVars, blocked, loop, handler, client, shutdown, requests, history>>

\* The last descriptor is closed; no handler runs on the file any more.
CloseFile ==
  /\ MayDestroy
  /\ close = "open" /\ handler = NoHandler
  /\ rx_queue' = FALSE /\ rx_asleep' = FALSE
  /\ buffer' = <<>> /\ read_size' = 0 /\ offset' = 0
  /\ close' = "destroy"
  /\ UNCHANGED <<queueVars, blocked, loop, handler, client, shutdown, requests, history>>

\* destroy_client_session destroys the rx_queue.
DestroySession ==
  /\ close = "destroy"
  /\ ShutdownSignal \/ OwnerStep
  /\ close' = IF pc'["owner"] = "done" THEN "join" ELSE "destroy"
  /\ UNCHANGED <<ocbVars, loop, handler, client, shutdown, requests, history>>

\* Mutant: the blocked clients are answered before rx_loop has ended.
AnswerWithoutJoin ==
  /\ close = "join"
  /\ client' = [c \in Clients |-> IF Listed(blocked, c) THEN Ready ELSE client[c]]
  /\ blocked' = <<>>
  /\ close' = "closed"
  /\ UNCHANGED <<queueVars, rx_queue, rx_asleep, readVars, loop, handler,
                 shutdown, requests, history>>

\* rx_loop has ended: EBADF to every blocked client, the list is freed.
JoinAndAnswer ==
  /\ close = "join" /\ loop.pc = "exit"
  /\ client' = [c \in Clients |-> IF Listed(blocked, c) THEN Ready ELSE client[c]]
  /\ blocked' = <<>>
  /\ close' = "closed"
  /\ UNCHANGED <<queueVars, rx_queue, rx_asleep, readVars, loop, handler,
                 shutdown, requests, history>>

\* unregister_netdev raises the flag; rx.cond is not signalled.
Shutdown ==
  /\ MayShutdown /\ ~shutdown
  /\ shutdown' = TRUE
  /\ UNCHANGED <<queueVars, ocbVars, loop, handler, client, close, requests, history>>

-----------------------------------------------------------------------------

\* io_read has a pointer to the oldest message, or has returned a part of it.
InMessage == handler.st \in {"copy", "drop"} \/ offset # 0

\* The messages the ring has dropped.
Lost == stored - takes - Count

\* netif_rx: enqueue on the rx_queue of the session, which may drop the oldest messages.
Receive(p) ==
  /\ CheckSession(p) \/ Enqueue(p) \/ LockDestroyed(p)
  /\ spoiled' = (spoiled \/ (InMessage /\ Lost' > Lost))
  /\ UNCHANGED <<ocbVars, loop, handler, client, close, shutdown, requests, read, interrupted>>

QueueSpurious ==
  /\ SpuriousWakeup
  /\ UNCHANGED <<ocbVars, loop, handler, client, close, shutdown, requests, history>>

LoopStep ==
  \/ WaitForClient \/ TestQueue \/ PeekNull \/ Peek \/ PeekReturns \/ PickClient
  \/ msg_again_callback

HandlerStep ==
  \/ ReadPeeks \/ ReadHasEnough \/ ReadCopies \/ ReadDrops \/ DevctlTakes
  \/ ReplyAgain \/ Block \/ Reply

CloseStep == DestroySession \/ JoinAndAnswer

RxNext ==
  \/ \E p \in Producers : Receive(p)
  \/ QueueSpurious \/ RxSpuriousWakeup
  \/ LoopStep
  \/ HandlerStep
  \/ \E c \in Clients : io_unblock(c) \/ \E r \in Requests : Request(c, r)
  \/ CloseFile \/ CloseStep \/ Shutdown

\* rx_loop, a running handler and a closing thread are scheduled; nothing makes
\* a message arrive or a client send a request.
RxFairness == WF_rxVars(LoopStep) /\ WF_rxVars(HandlerStep) /\ WF_rxVars(CloseStep)

RxSpec == RxInit /\ [][RxNext]_rxVars

RxFairSpec == RxSpec /\ RxFairness
-----------------------------------------------------------------------------

(***************************************************************************)
(* Properties.                                                             *)
(***************************************************************************)

\* A client left without a reply can always be found again: it is in
\* blocked_clients, or its request is being handled, or can_ocb_free has
\* answered it.  Neither the entries of an interrupted client nor the second
\* entry io_devctl makes for a client already listed loses another one.  So
\* rx_loop, which picks a client without a test for NULL after the lock was
\* released since it tested the list, finds one, unless an interrupted client,
\* whose entry io_unblock leaves in the list, has come back and was served.
BlockedIsListed ==
  /\ \A c \in Clients : client[c] # Ready => Listed(blocked, c) \/ handler.client = c
  /\ loop.pc = "null" => interrupted

\* "Don't leave any blocking clients hanging": once can_ocb_free has returned
\* no client waits for a reply, and rx_loop, whose OCB is gone, has ended.
NoneHangsAfterClose ==
  close = "closed" => loop.pc = "exit" /\ \A c \in Clients : client[c] = Ready

\* The byte b may follow a in what read() returns: it is the next of the same message,
\* or a ends its message and b starts a later one.
Follows(a, b) ==
  \/ b = <<a[1], a[2] + 1>> /\ b[2] <= MsgLen[a[1]]
  \/ a[2] = MsgLen[a[1]] /\ b[2] = 1 /\ b[1] > a[1]

\* The messages read() went past without returning them.
Skipped ==
  LET returned == {read[i][1] : i \in DOMAIN read}
  IN  {m \in 1 .. stored : MsgLen[m] > 0 /\ m \notin returned /\ \E k \in returned : m < k}

\* The bytes read() returns are those of the messages received, in order, whole and
\* none twice, and no message is missing that the queue did not drop, although a read
\* may take several messages, a message several reads, a blocked read goes on where it
\* stopped, and the ring may overflow at any time.  The exceptions: io_devctl took a
\* message of the file; a read asked for less than an unfinished read before it had left
\* in the buffer, or for more than the buffer holds while it had left something; the
\* ring overflowed while io_read was between its look at a message and its removal, or
\* while a part of the oldest message was returned already.
ReadsInOrder ==
  ~spoiled =>
    /\ \A i \in 2 .. Len(read) : Follows(read[i - 1], read[i])
    /\ read # <<>> => Head(read)[2] = 1
    /\ Cardinality(Skipped) <= Lost

\* A blocked client is served while messages are there, unless a client was
\* interrupted: rx_loop has the first request of the list handled until it is
\* answered or the queue is empty.
BlockedServed ==
  \A c \in Clients :
    client[c] # Ready /\ ~RingEmpty ~>
      client[c] = Ready \/ RingEmpty \/ interrupted \/ shutdown \/ close # "open"

\* can_ocb_free returns: rx_loop, asleep on either condition variable or waiting
\* for the reply of its own channel, ends and is joined, unless the queue was
\* destroyed under it.
CloseTerminates ==
  close # "open" ~> close = "closed" \/ pc["reader"] = "fault" \/ loop.pc = "null"
=============================================================================
