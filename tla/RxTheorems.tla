------------------------------ MODULE RxTheorems ------------------------------
(***************************************************************************)
(* An open file of an rx channel, for any number of clients, requests and  *)
(* messages and any queue size: its queue is the queue of CanQueue, and every *)
(* step keeps WaitInv.  The steps that read are in RxReadProofs.           *)
(***************************************************************************)
EXTENDS RxReadProofs, FiniteSetTheorems

-----------------------------------------------------------------------------
(* The queue of the file is the queue of CanQueue.                          *)

\* Every step of the file is a step of its queue, or leaves the queue alone.
LEMMA QueueStep == ASSUME [RxNext]_rxVars PROVE [Next]_vars
<1> USE DEF queueVars, vars
<1>1. "reader" \in Threads /\ "handler" \in Pollers /\ "handler" \in Threads
  BY ClientAssumption DEF Threads
<1>2. ASSUME NEW p \in Producers, Receive(p) PROVE [Next]_vars
  <2>1. p \in Threads
    BY DEF Threads
  <2> QED
    BY <1>2, <2>1 DEF Receive, Next
<1>3. QueueSpurious \/ RxSpuriousWakeup => [Next]_vars
  BY DEF QueueSpurious, RxSpuriousWakeup, Next
<1>4. WaitForClient \/ TestQueue \/ PeekNull \/ PickClient \/ msg_again_callback => [Next]_vars
  BY DEF WaitForClient, TestQueue, PeekNull, PickClient, msg_again_callback
<1>5. Peek \/ PeekReturns => [Next]_vars
  BY <1>1 DEF Peek, PeekReturns, Next
<1>6. ReadPeeks \/ ReadCopies \/ ReadDrops \/ DevctlTakes => [Next]_vars
  BY <1>1 DEF ReadPeeks, ReadCopies, ReadDrops, DevctlTakes, Next
<1>7. ReadHasEnough \/ ReplyAgain \/ Block \/ Reply => [Next]_vars
  BY DEF ReadHasEnough, ReplyAgain, Block, Reply
<1>8. ASSUME NEW c \in Clients, io_unblock(c) \/ \E r \in Requests : Request(c, r)
      PROVE  [Next]_vars
  BY <1>8 DEF io_unblock, Request
<1>9. CloseFile \/ JoinAndAnswer \/ Shutdown => [Next]_vars
  BY DEF CloseFile, JoinAndAnswer, Shutdown
<1>10. DestroySession => [Next]_vars
  BY DEF DestroySession, Next
<1>11. UNCHANGED rxVars => [Next]_vars
  BY DEF rxVars
<1> HIDE DEF queueVars, vars
<1> QED
  BY <1>2, <1>3, <1>4, <1>5, <1>6, <1>7, <1>8, <1>9, <1>10, <1>11
     DEF RxNext, LoopStep, HandlerStep, CloseStep

\* rx_loop, the handlers, netif_rx and can_ocb_free use the rx_queue in no way that
\* CanQueue does not describe: what is proved of the queue holds of the file's.
THEOREM RxImplementsQueue == RxSpec => Spec
<1>1. RxInit => Init
  BY DEF RxInit
<1>2. [RxNext]_rxVars => [Next]_vars
  BY QueueStep
<1> QED
  BY <1>1, <1>2, PTL DEF RxSpec, Spec

-----------------------------------------------------------------------------
(* The list of blocked clients.                                             *)

\* Nobody waits in an empty list.
LEMMA ListedEmpty == ASSUME NEW e PROVE ~Listed(<<>>, e)
BY DEF Listed

\* The first entry of the list waits.
LEMMA ListedHead ==
  ASSUME NEW S, NEW s \in Seq(S), s # <<>>
  PROVE  Head(s) \in S /\ Listed(s, Head(s))
BY DEF Listed

\* block_add appends the client: it waits, and so does who waited before.
LEMMA ListedAppend ==
  ASSUME NEW S, NEW s \in Seq(S), NEW x \in S, NEW e
  PROVE  Listed(Append(s, x), e) <=> Listed(s, e) \/ e = x
<1>1. /\ Append(s, x) \in Seq(S) /\ Len(Append(s, x)) = Len(s) + 1 /\ Len(s) \in Nat
      /\ \A i \in 1 .. Len(s) : Append(s, x)[i] = s[i]
      /\ Append(s, x)[Len(s) + 1] = x
  OBVIOUS
<1>2. ASSUME Listed(Append(s, x), e), e # x PROVE Listed(s, e)
  BY <1>1, <1>2 DEF Listed
<1>3. ASSUME Listed(s, e) PROVE Listed(Append(s, x), e)
  BY <1>1, <1>3 DEF Listed
<1>4. Listed(Append(s, x), x)
  BY <1>1 DEF Listed
<1> QED
  BY <1>2, <1>3, <1>4

\* What is used below of the removal from the list.  RemovalHolds proves it, from the library on finite sets.
RemovalOK ==
  \A s \in Seq(Clients) : \A c \in Clients :
    /\ Without(s, c) \in Seq(Clients)
    /\ \A e : Listed(Without(s, c), e) <=> Listed(s, e) /\ e # c

-----------------------------------------------------------------------------
(* Who waits for a reply is found again.                                    *)

\* A client that is ready to send a request has none pending.
LEMMA ReadyIsNoRequest == Ready \notin Requests
BY DEF Ready, Requests, read_frame_raw_block, read_frame_raw_noblock

\* Nobody waits at the start.
LEMMA WaitInit == RxInit => WaitInv
<1> SUFFICES ASSUME RxInit PROVE WaitInv
  OBVIOUS
<1> USE DEF RxInit, NoHandler
<1>1. RxType
  BY DEF RxType, LoopPcs
<1>2. HandlerInv /\ NoneHangsAfterClose
  BY DEF HandlerInv, NoneHangsAfterClose
<1>3. BlockedIsListed /\ ListInv
  BY ListedEmpty DEF BlockedIsListed, ListInv
<1> QED
  BY <1>1, <1>2, <1>3 DEF WaitInv

\* A step of netif_rx, or inside the queue.
LEMMA WaitSame ==
  ASSUME WaitInv,
         UNCHANGED <<blocked, rx_queue, loop, handler, client, close, shutdown, interrupted>>
  PROVE  WaitInv'
BY DEF WaitInv, RxType, HandlerInv, BlockedIsListed, NoneHangsAfterClose, ListInv

\* A step of the handler that neither replies nor returns.
LEMMA HandlerMoves ==
  ASSUME WaitInv, NEW st \in HandlerStates, handler # NoHandler,
         handler' = [handler EXCEPT !.st = st],
         UNCHANGED <<blocked, rx_queue, loop, client, close, shutdown, interrupted>>
  PROVE  WaitInv'
<1>1. handler \in [client : Clients, st : HandlerStates, again : BOOLEAN]
  BY DEF WaitInv, RxType
<1>2. /\ handler' \in [client : Clients, st : HandlerStates, again : BOOLEAN]
      /\ handler'.client = handler.client /\ handler'.again = handler.again
  BY <1>1
<1>3. NoHandler \notin [client : Clients, st : HandlerStates, again : BOOLEAN]
  BY ClientAssumption DEF NoHandler
<1> QED
  BY <1>2, <1>3
     DEF WaitInv, RxType, HandlerInv, BlockedIsListed, NoneHangsAfterClose, ListInv

\* A step of rx_loop outside the handler.
LEMMA LoopMoves ==
  ASSUME WaitInv, NEW label \in LoopPcs \ {"send", "reply"},
         loop' = [loop EXCEPT !.pc = label], loop.pc \notin {"reply", "exit"},
         UNCHANGED <<blocked, rx_queue, client, handler, close, shutdown, interrupted>>,
         label = "null" => interrupted,
         ~interrupted /\ label = "test" => blocked # <<>> \/ shutdown \/ ~rx_queue,
         ~interrupted /\ label \in {"peek", "pick"} => blocked # <<>>
  PROVE  WaitInv'
<1>1. /\ loop' \in [pc : LoopPcs, rcvid : Clients \cup {"none"}]
      /\ loop'.pc = label /\ loop'.rcvid = loop.rcvid
  BY DEF WaitInv, RxType
<1> QED
  BY <1>1
     DEF WaitInv, RxType, HandlerInv, BlockedIsListed, NoneHangsAfterClose, ListInv

\* The steps of rx_loop, which picks a blocked client to be answered.
LEMMA LoopKeepsWaitInv == ASSUME WaitInv, LoopStep PROVE WaitInv'
<1>1. WaitForClient => WaitInv'
  <2> SUFFICES ASSUME WaitForClient PROVE WaitInv'
    OBVIOUS
  <2>1. UNCHANGED <<blocked, rx_queue, client, handler, close, shutdown, interrupted>>
    BY DEF WaitForClient, history
  <2>2. loop.pc \notin {"reply", "exit"}
    BY DEF WaitForClient
  <2>3. CASE ~shutdown /\ rx_queue /\ blocked = <<>>
    BY <2>1, <2>2, <2>3, LoopMoves DEF WaitForClient, LoopGoto, LoopPcs
  <2>4. CASE ~(~shutdown /\ rx_queue /\ blocked = <<>>)
    BY <2>1, <2>2, <2>4, LoopMoves DEF WaitForClient, LoopGoto, LoopPcs
  <2> QED
    BY <2>3, <2>4
<1>2. TestQueue => WaitInv'
  <2> SUFFICES ASSUME TestQueue PROVE WaitInv'
    OBVIOUS
  <2>1. UNCHANGED <<blocked, rx_queue, client, handler, close, shutdown, interrupted>>
    BY DEF TestQueue, history, ocbVars
  <2>2. loop.pc = "test"
    BY DEF TestQueue
  <2>3. CASE shutdown \/ ~rx_queue
    BY <2>1, <2>2, <2>3, LoopMoves DEF TestQueue, LoopGoto, LoopPcs
  <2>4. CASE ~(shutdown \/ ~rx_queue)
    <3>1. ~interrupted => blocked # <<>>
      BY <2>2, <2>4 DEF WaitInv, ListInv
    <3> QED
      BY <2>1, <2>2, <2>4, <3>1, LoopMoves DEF TestQueue, LoopGoto, LoopPcs
  <2> QED
    BY <2>3, <2>4
<1>3. PeekNull => WaitInv'
  <2> SUFFICES ASSUME PeekNull PROVE WaitInv'
    OBVIOUS
  <2>1. UNCHANGED <<blocked, rx_queue, client, handler, close, shutdown, interrupted>>
    BY DEF PeekNull, history, ocbVars
  <2>2. loop.pc = "peek" /\ loop' = [loop EXCEPT !.pc = "top"]
    BY DEF PeekNull, LoopGoto
  <2> QED
    BY <2>1, <2>2, LoopMoves DEF LoopPcs
<1>4. Peek => WaitInv'
  BY WaitSame DEF Peek, history, ocbVars
<1>5. PeekReturns => WaitInv'
  <2> SUFFICES ASSUME PeekReturns PROVE WaitInv'
    OBVIOUS
  <2>1. UNCHANGED <<blocked, rx_queue, client, handler, close, shutdown, interrupted>>
    BY DEF PeekReturns, history, ocbVars
  <2>2. ~interrupted => blocked # <<>>
    BY DEF WaitInv, ListInv, PeekReturns
  <2> QED
    BY <2>1, <2>2, LoopMoves DEF PeekReturns, LoopGoto, LoopPcs
<1>6. PickClient => WaitInv'
  <2> SUFFICES ASSUME PickClient PROVE WaitInv'
    OBVIOUS
  <2>1. UNCHANGED <<blocked, rx_queue, client, handler, close, shutdown, interrupted>>
    BY DEF PickClient, history, ocbVars
  <2>2. loop.pc = "pick" /\ blocked \in Seq(Clients)
    BY DEF PickClient, WaitInv, RxType
  <2>3. CASE blocked = <<>>
    <3>1. interrupted
      BY <2>2, <2>3 DEF WaitInv, ListInv
    <3> QED
      BY <2>1, <2>2, <2>3, <3>1, LoopMoves DEF PickClient, LoopPcs
  <2>4. CASE blocked # <<>>
    <3>1. loop' = [pc |-> "send", rcvid |-> Head(blocked)]
      BY <2>4 DEF PickClient
    <3>2. Head(blocked) \in Clients /\ Listed(blocked, Head(blocked))
      BY <2>2, <2>4, ListedHead
    <3> HIDE DEF PickClient
    <3> QED
      BY <2>1, <2>2, <3>1, <3>2
         DEF WaitInv, RxType, HandlerInv, BlockedIsListed, NoneHangsAfterClose, ListInv, LoopPcs
  <2> QED
    BY <2>3, <2>4
<1>7. msg_again_callback => WaitInv'
  <2> SUFFICES ASSUME msg_again_callback PROVE WaitInv'
    OBVIOUS
  <2>1. UNCHANGED <<blocked, rx_queue, client, close, shutdown, interrupted>>
    BY DEF msg_again_callback, history, ocbVars
  <2>2. loop.pc = "send" /\ handler = NoHandler
    BY DEF msg_again_callback
  <2>3. CASE client[loop.rcvid] # Ready /\ close = "open"
    <3>1. /\ handler' = [client |-> loop.rcvid, again |-> TRUE,
                         st |-> IF client[loop.rcvid].op = "read" THEN "peek" ELSE "take"]
          /\ loop' = [loop EXCEPT !.pc = "reply"]
      BY <2>3 DEF msg_again_callback, LoopGoto
    <3>2. loop.rcvid \in Clients
      BY <2>2 DEF WaitInv, HandlerInv
    <3>3. /\ handler' \in [client : Clients, st : HandlerStates, again : BOOLEAN]
          /\ handler'.client = loop.rcvid /\ handler'.again = TRUE
      BY <3>1, <3>2 DEF HandlerStates
    <3>4. /\ loop' \in [pc : LoopPcs, rcvid : Clients \cup {"none"}]
          /\ loop'.pc = "reply" /\ loop'.rcvid = loop.rcvid
      BY <3>1 DEF WaitInv, RxType, LoopPcs
    <3>5. handler.client = "none" /\ "none" \notin Clients
      BY <2>2, ClientAssumption DEF NoHandler
    <3> QED
      BY <2>1, <2>2, <2>3, <3>2, <3>3, <3>4, <3>5
         DEF WaitInv, RxType, HandlerInv, BlockedIsListed, NoneHangsAfterClose, ListInv
  <2>4. CASE ~(client[loop.rcvid] # Ready /\ close = "open")
    <3>1. handler' = handler /\ loop' = [loop EXCEPT !.pc = "top"]
      BY <2>4 DEF msg_again_callback, LoopGoto
    <3>2. "top" \in LoopPcs \ {"send", "reply"}
      BY DEF LoopPcs
    <3> HIDE DEF msg_again_callback
    <3> QED
      BY <2>1, <2>2, <3>1, <3>2, LoopMoves
  <2> QED
    BY <2>3, <2>4
<1> QED
  BY <1>1, <1>2, <1>3, <1>4, <1>5, <1>6, <1>7 DEF LoopStep

\* The handler returns: what rx_loop and the handler are afterwards.
LEMMA FinishResult ==
  ASSUME WaitInv, handler # NoHandler, Finish
  PROVE  /\ handler.client \in Clients /\ handler.again \in BOOLEAN
         /\ handler' = NoHandler /\ handler'.again = FALSE /\ handler'.client = "none"
         /\ loop' \in [pc : LoopPcs, rcvid : Clients \cup {"none"}]
         /\ handler.again => loop.pc = "reply" /\ loop'.pc = "top"
         /\ ~handler.again => loop' = loop /\ loop.pc # "reply"
<1>1. handler \in [client : Clients, st : HandlerStates, again : BOOLEAN]
  BY DEF WaitInv, RxType
<1>2. handler' = NoHandler /\ handler'.again = FALSE /\ handler'.client = "none"
  BY DEF Finish, NoHandler
<1>3. CASE handler.again
  <2>1. loop' = [loop EXCEPT !.pc = "top"] /\ loop.pc = "reply"
    BY <1>3 DEF Finish, LoopGoto, WaitInv, HandlerInv
  <2>2. loop' \in [pc : LoopPcs, rcvid : Clients \cup {"none"}] /\ loop'.pc = "top"
    BY <2>1 DEF WaitInv, RxType, LoopPcs
  <2> QED
    BY <1>1, <1>2, <1>3, <2>1, <2>2
<1>4. CASE ~handler.again
  <2>1. loop' = loop /\ loop.pc # "reply"
    BY <1>4 DEF Finish, WaitInv, HandlerInv
  <2> QED
    BY <1>1, <1>2, <1>4, <2>1 DEF WaitInv, RxType
<1> QED
  BY <1>3, <1>4

\* The steps of the handlers of read() and devctl().
LEMMA HandlerKeepsWaitInv == ASSUME RemovalOK, WaitInv, HandlerStep PROVE WaitInv'
<1> USE DEF history, ocbVars
<1>1. handler.st \in HandlerStates => handler # NoHandler
  BY DEF NoHandler, HandlerStates
<1>2. ReadPeeks \/ ReadHasEnough \/ ReadCopies => WaitInv'
  <2> SUFFICES ASSUME ReadPeeks \/ ReadHasEnough \/ ReadCopies PROVE WaitInv'
    OBVIOUS
  <2>1. UNCHANGED <<blocked, rx_queue, loop, client, close, shutdown, interrupted>>
    BY DEF ReadPeeks, ReadHasEnough, ReadCopies
  <2>2. handler # NoHandler
    BY <1>1 DEF ReadPeeks, ReadHasEnough, ReadCopies, HandlerStates
  <2>3. handler' = handler \/ \E st \in HandlerStates : handler' = [handler EXCEPT !.st = st]
    BY DEF ReadPeeks, ReadHasEnough, ReadCopies, HandlerStates
  <2> QED
    BY <2>1, <2>2, <2>3, WaitSame, HandlerMoves
<1>3. ReadDrops \/ DevctlTakes => WaitInv'
  <2> SUFFICES ASSUME ReadDrops \/ DevctlTakes PROVE WaitInv'
    OBVIOUS
  <2>1. UNCHANGED <<blocked, rx_queue, loop, client, close, shutdown, interrupted>>
    BY DEF ReadDrops, DevctlTakes
  <2>2. handler # NoHandler
    BY <1>1 DEF ReadDrops, DevctlTakes, HandlerStates
  <2>3. handler' = handler \/ \E st \in HandlerStates : handler' = [handler EXCEPT !.st = st]
    BY DEF ReadDrops, DevctlTakes, HandlerStates
  <2> QED
    BY <2>1, <2>2, <2>3, WaitSame, HandlerMoves
<1> DEFINE h == handler.client
<1>4. RxType /\ HandlerInv /\ BlockedIsListed /\ NoneHangsAfterClose
  BY DEF WaitInv
<1>5. ReplyAgain => WaitInv'
  <2> SUFFICES ASSUME ReplyAgain PROVE WaitInv'
    OBVIOUS
  <2>1. /\ UNCHANGED <<blocked, rx_queue, close, shutdown, interrupted>>
        /\ client' = [client EXCEPT ![h] = Ready] /\ client[h].op = "noblock" /\ Finish
    BY DEF ReplyAgain, op
  <2>2. handler # NoHandler
    BY <1>1 DEF ReplyAgain, HandlerStates
  <2>3. h \in Clients /\ close = "open"
    BY <2>1, <2>2, FinishResult DEF WaitInv, HandlerInv
  <2>4. /\ client' \in [Clients -> Requests \cup {Ready}] /\ client'[h] = Ready
        /\ \A c \in Clients : c # h => client'[c] = client[c]
    BY <2>1, <2>3 DEF WaitInv, RxType
  <2>5. ~interrupted => ~Listed(blocked, h)
    BY <2>1, <2>3 DEF WaitInv, ListInv
  <2>6. RxType' /\ HandlerInv' /\ BlockedIsListed' /\ NoneHangsAfterClose'
    BY <1>4, <2>1, <2>2, <2>3, <2>4, FinishResult
       DEF RxType, HandlerInv, BlockedIsListed, NoneHangsAfterClose
  <2>7. ASSUME ~interrupted, ListInv PROVE ListInv'
    BY <2>1, <2>2, <2>3, <2>4, <2>5, <2>7, FinishResult DEF ListInv
  <2> QED
    BY <2>1, <2>6, <2>7 DEF WaitInv
<1>6. Block => WaitInv'
  <2> SUFFICES ASSUME Block PROVE WaitInv'
    OBVIOUS
  <2>1. /\ UNCHANGED <<rx_queue, client, close, shutdown, interrupted>>
        /\ client[h].op # "noblock" /\ Finish
    BY DEF Block, op
  <2>2. handler # NoHandler
    BY <1>1 DEF Block, HandlerStates
  <2>3. h \in Clients /\ close = "open" /\ client[h] # Ready
    BY <2>1, <2>2, FinishResult DEF WaitInv, HandlerInv
  <2>4. blocked' = Append(blocked, h) \/ (blocked' = blocked /\ Listed(blocked, h))
    BY DEF Block
  <2>5. /\ blocked' \in Seq(Clients)
        /\ \A c : Listed(blocked', c) <=> Listed(blocked, c) \/ c = h
    <3>1. blocked \in Seq(Clients) /\ Append(blocked, h) \in Seq(Clients)
      BY <1>4, <2>3 DEF RxType
    <3>2. \A c : Listed(Append(blocked, h), c) <=> Listed(blocked, c) \/ c = h
      BY <2>3, <3>1, ListedAppend
    <3> QED
      BY ONLY <2>4, <3>1, <3>2
  <2>6. blocked' # <<>>
    BY <2>5, ListedEmpty
  <2>7. RxType' /\ HandlerInv' /\ BlockedIsListed' /\ NoneHangsAfterClose'
    BY <1>4, <2>1, <2>2, <2>3, <2>5, FinishResult
       DEF RxType, HandlerInv, BlockedIsListed, NoneHangsAfterClose
  <2>8. ASSUME ~interrupted, ListInv PROVE ListInv'
    BY <2>1, <2>2, <2>3, <2>5, <2>6, <2>8, FinishResult DEF ListInv
  <2> QED
    BY <2>1, <2>7, <2>8 DEF WaitInv
<1>7. Reply => WaitInv'
  <2> SUFFICES ASSUME Reply PROVE WaitInv'
    OBVIOUS
  <2>1. /\ UNCHANGED <<rx_queue, close, shutdown, interrupted>>
        /\ client' = [client EXCEPT ![h] = Ready] /\ Finish
        /\ blocked' = Without(blocked, h)
    BY DEF Reply
  <2>2. handler # NoHandler
    BY <1>1 DEF Reply, HandlerStates
  <2>3. h \in Clients /\ close = "open"
    BY <2>1, <2>2, FinishResult DEF WaitInv, HandlerInv
  <2>4. /\ client' \in [Clients -> Requests \cup {Ready}] /\ client'[h] = Ready
        /\ \A c \in Clients : c # h => client'[c] = client[c]
    BY <2>1, <2>3 DEF WaitInv, RxType
  <2>5. /\ blocked' \in Seq(Clients)
        /\ \A c : Listed(blocked', c) <=> Listed(blocked, c) /\ c # h
    <3>1. blocked \in Seq(Clients)
      BY <1>4 DEF RxType
    <3> QED
      BY ONLY RemovalOK, <2>1, <2>3, <3>1 DEF RemovalOK
  <2>6. blocked # <<>> /\ ~Listed(blocked, h) => blocked' # <<>>
    <3>1. blocked # <<>> => Listed(blocked, Head(blocked))
      BY <1>4, ListedHead DEF RxType
    <3> QED
      BY <2>5, <3>1, ListedEmpty
  <2>7. RxType' /\ HandlerInv' /\ BlockedIsListed' /\ NoneHangsAfterClose'
    BY <1>4, <2>1, <2>2, <2>3, <2>4, <2>5, FinishResult
       DEF RxType, HandlerInv, BlockedIsListed, NoneHangsAfterClose
  <2>8. ASSUME ~interrupted, ListInv PROVE ListInv'
    BY <2>1, <2>2, <2>3, <2>4, <2>5, <2>6, <2>8, FinishResult DEF ListInv
  <2> QED
    BY <2>1, <2>7, <2>8 DEF WaitInv
<1> QED
  BY <1>2, <1>3, <1>5, <1>6, <1>7 DEF HandlerStep

\* The client sends a request.
LEMMA RequestKeepsWaitInv ==
  ASSUME WaitInv, NEW c \in Clients, NEW r \in Requests, Request(c, r) PROVE WaitInv'
<1>1. /\ UNCHANGED <<blocked, rx_queue, loop, close, shutdown, interrupted>>
      /\ client[c] = Ready /\ handler = NoHandler /\ close = "open"
      /\ client' = [client EXCEPT ![c] = r]
      /\ handler' = [client |-> c, again |-> FALSE, st |-> IF r.op = "read" THEN "peek" ELSE "take"]
  BY DEF Request
<1>2. /\ client' \in [Clients -> Requests \cup {Ready}] /\ client'[c] # Ready
      /\ \A e \in Clients : e # c => client'[e] = client[e]
  BY <1>1, ReadyIsNoRequest DEF WaitInv, RxType
<1>3. /\ handler' \in [client : Clients, st : HandlerStates, again : BOOLEAN]
      /\ handler'.client = c /\ handler'.again = FALSE
  BY <1>1 DEF HandlerStates
<1>4. handler.client = "none" /\ "none" \notin Clients /\ handler.again = FALSE
  BY <1>1, ClientAssumption DEF NoHandler
<1>5. RxType' /\ NoneHangsAfterClose'
  BY ONLY WaitInv, <1>1, <1>2, <1>3 DEF WaitInv, RxType, NoneHangsAfterClose
<1>6. HandlerInv'
  BY ONLY WaitInv, c \in Clients, <1>1, <1>2, <1>3, <1>4 DEF WaitInv, HandlerInv
<1>7. BlockedIsListed'
  BY ONLY WaitInv, <1>1, <1>2, <1>3, <1>4 DEF WaitInv, BlockedIsListed
<1>8. ASSUME ~interrupted, ListInv PROVE ListInv'
  BY <1>1, <1>2, <1>3, <1>8 DEF ListInv
<1> QED
  BY <1>1, <1>5, <1>6, <1>7, <1>8 DEF WaitInv

\* A blocked client is interrupted: from then on the list may hold clients that do not wait.
LEMMA UnblockKeepsWaitInv ==
  ASSUME WaitInv, NEW c \in Clients, io_unblock(c) PROVE WaitInv'
<1>1. /\ UNCHANGED <<blocked, rx_queue, loop, handler, close, shutdown>>
      /\ handler = NoHandler /\ interrupted'
      /\ client' = [client EXCEPT ![c] = Ready]
  BY DEF io_unblock, ocbVars
<1>2. /\ client' \in [Clients -> Requests \cup {Ready}] /\ client'[c] = Ready
      /\ \A e \in Clients : e # c => client'[e] = client[e]
  BY <1>1 DEF WaitInv, RxType
<1> QED
  BY <1>1, <1>2 DEF WaitInv, RxType, HandlerInv, BlockedIsListed, NoneHangsAfterClose

\* Closing the file, and the shutdown of the program.
LEMMA CloseKeepsWaitInv == ASSUME WaitInv, CloseFile \/ CloseStep \/ Shutdown PROVE WaitInv'
<1>1. CloseFile \/ DestroySession \/ Shutdown => WaitInv'
  <2> SUFFICES ASSUME CloseFile \/ DestroySession \/ Shutdown PROVE WaitInv'
    OBVIOUS
  <2>1. UNCHANGED <<blocked, loop, handler, client, interrupted>>
    BY DEF CloseFile, DestroySession, Shutdown, ocbVars, history
  <2>2. (shutdown => shutdown') /\ (rx_queue' => rx_queue)
    BY DEF CloseFile, DestroySession, Shutdown, ocbVars
  <2>3. close' # close => handler = NoHandler /\ close' # "closed"
    BY DEF CloseFile, DestroySession, Shutdown, WaitInv, HandlerInv
  <2> QED
    BY <2>1, <2>2, <2>3
       DEF WaitInv, RxType, HandlerInv, BlockedIsListed, NoneHangsAfterClose, ListInv
<1>2. JoinAndAnswer => WaitInv'
  <2> SUFFICES ASSUME JoinAndAnswer PROVE WaitInv'
    OBVIOUS
  <2>1. /\ UNCHANGED <<rx_queue, loop, handler, shutdown, interrupted>>
        /\ loop.pc = "exit" /\ close = "join" /\ blocked' = <<>> /\ close' = "closed"
        /\ client' = [c \in Clients |-> IF Listed(blocked, c) THEN Ready ELSE client[c]]
    BY DEF JoinAndAnswer, history
  <2>2. handler = NoHandler /\ handler.client \notin Clients
    BY <2>1, ClientAssumption DEF WaitInv, HandlerInv, NoHandler
  <2>3. \A c \in Clients : client'[c] = Ready
    BY <2>1, <2>2 DEF WaitInv, BlockedIsListed
  <2>4. client' \in [Clients -> Requests \cup {Ready}] /\ blocked' \in Seq(Clients)
    BY <2>1 DEF WaitInv, RxType
  <2>5. \A c : ~Listed(blocked', c)
    BY <2>1, ListedEmpty
  <2> QED
    BY <2>1, <2>2, <2>3, <2>4, <2>5
       DEF WaitInv, RxType, HandlerInv, BlockedIsListed, NoneHangsAfterClose, ListInv
<1> QED
  BY <1>1, <1>2 DEF CloseStep

\* Every step keeps WaitInv, given what RemovalOK says of removing a client.
LEMMA WaitInvKept == ASSUME RemovalOK, WaitInv, [RxNext]_rxVars PROVE WaitInv'
<1>1. ASSUME NEW p \in Producers, Receive(p) PROVE WaitInv'
  BY <1>1, WaitSame DEF Receive, ocbVars
<1>2. QueueSpurious \/ RxSpuriousWakeup => WaitInv'
  BY WaitSame DEF QueueSpurious, RxSpuriousWakeup, ocbVars, history
<1>3. UNCHANGED rxVars => WaitInv'
  BY WaitSame DEF rxVars, ocbVars, history
<1> QED
  BY <1>1, <1>2, <1>3, LoopKeepsWaitInv, HandlerKeepsWaitInv, RequestKeepsWaitInv,
     UnblockKeepsWaitInv, CloseKeepsWaitInv DEF RxNext

-----------------------------------------------------------------------------
(* Finite sets, and the theorems.                                          *)

\* The replies take the client's entries from the list, and no other.
LEMMA WithoutClient ==
  ASSUME NEW S, NEW s \in Seq(S), NEW c
  PROVE  /\ Without(s, c) \in Seq(S)
         /\ \A e : Listed(Without(s, c), e) <=> Listed(s, e) /\ e # c
<1> DEFINE kept == {i \in DOMAIN s : s[i] # c}
           Upto(i) == {j \in kept : j <= i}
           Nth(n) == CHOOSE i \in kept : Cardinality(Upto(i)) = n
           N == Cardinality(kept)
           rank == [i \in kept |-> Cardinality(Upto(i))]
<1>1. DOMAIN s = 1 .. Len(s) /\ Len(s) \in Nat /\ kept \subseteq 1 .. Len(s)
  OBVIOUS
<1>2. IsFiniteSet(kept) /\ N \in Nat
  <2>1. IsFiniteSet(1 .. Len(s))
    BY <1>1, FS_Interval
  <2> HIDE DEF kept
  <2>2. IsFiniteSet(kept)
    BY <1>1, <2>1, FS_Subset
  <2> QED
    BY <2>2, FS_CardinalityType
<1>3. \A i : IsFiniteSet(Upto(i)) /\ Cardinality(Upto(i)) \in Nat /\ Cardinality(Upto(i)) <= N
  BY <1>2, FS_Subset, FS_CardinalityType
<1>4. ASSUME NEW i \in kept, NEW j \in kept, i < j
      PROVE  Cardinality(Upto(i)) < Cardinality(Upto(j))
  <2>1. Upto(i) \in SUBSET Upto(j) /\ Upto(i) # Upto(j)
    BY <1>1, <1>4
  <2> HIDE DEF kept, Upto
  <2>2. Cardinality(Upto(i)) <= Cardinality(Upto(j)) /\ Cardinality(Upto(i)) # Cardinality(Upto(j))
    BY <1>3, <2>1, FS_Subset
  <2> QED
    BY <1>3, <2>2
<1>5. \A i \in kept : Cardinality(Upto(i)) \in 1 .. N
  <2> TAKE i \in kept
  <2>1. i \in Upto(i)
    BY <1>1
  <2>2. Cardinality(Upto(i)) # 0
    BY <1>3, <2>1, FS_EmptySet
  <2> HIDE DEF kept, Upto
  <2> QED
    BY <1>2, <1>3, <2>2
<1>6. \A i, j \in kept : Cardinality(Upto(i)) = Cardinality(Upto(j)) => i = j
  <2> SUFFICES ASSUME NEW i \in kept, NEW j \in kept, Cardinality(Upto(i)) = Cardinality(Upto(j))
               PROVE  i = j
    OBVIOUS
  <2>1. i \in Int /\ j \in Int
    BY <1>1
  <2> HIDE DEF kept, Upto
  <2>2. ~(i < j) /\ ~(j < i)
    BY <1>3, <1>4
  <2> QED
    BY <2>1, <2>2
<1>7. \A n \in 1 .. N : \E i \in kept : Cardinality(Upto(i)) = n
  <2> HIDE DEF kept, Upto, N
  <2>1. rank \in Injection(kept, 1 .. N)
    BY <1>5, <1>6 DEF Injection, IsInjective
  <2>2. IsFiniteSet(1 .. N) /\ Cardinality(1 .. N) = N
    BY <1>2, FS_Interval
  <2>3. rank \in Surjection(kept, 1 .. N)
    BY <2>1, <2>2, FS_Injection DEF N
  <2> QED
    BY <2>3 DEF Surjection
<1>8. \A n \in 1 .. N : Nth(n) \in kept
  <2> HIDE DEF kept, Upto, N
  <2> QED
    BY <1>7
<1>9. \A i \in kept : Nth(Cardinality(Upto(i))) = i
  <2> HIDE DEF kept, Upto, N
  <2> QED
    BY <1>6
<1>10. Without(s, c) = [n \in 1 .. N |-> s[Nth(n)]]
  BY DEF Without
<1>11. \A i \in kept : i \in 1 .. Len(s) /\ s[i] \in S /\ s[i] # c
  BY <1>1
<1>12. \A i \in 1 .. Len(s) : s[i] # c => i \in kept
  BY <1>1
<1> HIDE DEF kept, Upto, Nth, N
<1>13. Without(s, c) \in Seq(S) /\ Len(Without(s, c)) = N
  BY <1>2, <1>8, <1>10, <1>11
<1>14. ASSUME NEW e, Listed(Without(s, c), e) PROVE Listed(s, e) /\ e # c
  BY <1>8, <1>10, <1>11, <1>13, <1>14 DEF Listed
<1>15. ASSUME NEW e, Listed(s, e), e # c PROVE Listed(Without(s, c), e)
  <2>1. PICK i \in 1 .. Len(s) : s[i] = e
    BY <1>15 DEF Listed
  <2>2. i \in kept
    BY <1>12, <1>15, <2>1
  <2>3. Cardinality(Upto(i)) \in 1 .. N /\ Without(s, c)[Cardinality(Upto(i))] = e
    BY <1>5, <1>9, <1>10, <2>1, <2>2
  <2> QED
    BY <1>13, <2>3 DEF Listed
<1> QED
  BY <1>13, <1>14, <1>15

\* RemovalOK is true: it is WithoutClient.
LEMMA RemovalHolds == RemovalOK
BY WithoutClient DEF RemovalOK

\* CountingOK is true of finite sets.
LEMMA CountingHolds == CountingOK
<1>1. Cardinality({}) = 0
  BY FS_EmptySet
<1>2. ASSUME NEW n \in Nat, NEW S \in SUBSET (1 .. n)
      PROVE  IsFiniteSet(S) /\ Cardinality(S) \in Nat
  <2>1. IsFiniteSet(1 .. n)
    BY FS_Interval
  <2>2. IsFiniteSet(S)
    BY <2>1, FS_Subset
  <2> QED
    BY <2>2, FS_CardinalityType
<1>3. ASSUME NEW n \in Nat, NEW S \in SUBSET (1 .. n), NEW T \in SUBSET S
      PROVE  Cardinality(T) <= Cardinality(S)
  BY <1>2, FS_Subset
<1>4. ASSUME NEW n \in Nat, NEW k \in Nat, NEW S \in SUBSET (1 .. n + k)
      PROVE  Cardinality(S) <= Cardinality(S \cap (1 .. n)) + k
  <2> DEFINE low == S \cap (1 .. n)
             high == S \cap (n + 1 .. n + k)
  <2>1. IsFiniteSet(n + 1 .. n + k) /\ Cardinality(n + 1 .. n + k) = k
    BY FS_Interval
  <2>2. IsFiniteSet(high) /\ Cardinality(high) \in Nat /\ Cardinality(high) <= k
    <3>1. high \in SUBSET (n + 1 .. n + k)
      OBVIOUS
    <3>2. IsFiniteSet(high) /\ Cardinality(high) <= Cardinality(n + 1 .. n + k)
      BY <2>1, <3>1, FS_Subset
    <3> QED
      BY <2>1, <3>2, FS_CardinalityType
  <2>3. IsFiniteSet(low) /\ Cardinality(low) \in Nat
    BY <1>2
  <2>4. S = low \cup high /\ low \cap high = {}
    <3>1. \A m \in 1 .. n + k : (m \in 1 .. n) <=> ~(m \in n + 1 .. n + k)
      OBVIOUS
    <3>2. S \subseteq 1 .. n + k
      OBVIOUS
    <3> QED
      BY ONLY <3>1, <3>2
  <2> HIDE DEF low, high
  <2>5. Cardinality(low \cup high)
          = Cardinality(low) + Cardinality(high) - Cardinality(low \cap high)
    BY ONLY <2>2, <2>3, FS_Union
  <2>6. Cardinality(S) = Cardinality(low) + Cardinality(high) - 0
    BY ONLY <1>1, <2>4, <2>5
  <2>7. Cardinality(S) <= Cardinality(low) + k
    BY ONLY <2>2, <2>3, <2>6, k \in Nat
  <2> QED
    BY <2>7 DEF low
<1> QED
  BY <1>1, <1>2, <1>3, <1>4 DEF CountingOK

-----------------------------------------------------------------------------
(* The theorems.                                                            *)

\* Every state of the file satisfies the inductive invariant on who waits.
THEOREM RxWaitInvHolds == RxSpec => []WaitInv
<1>1. WaitInv /\ [RxNext]_rxVars => WaitInv'
  BY RemovalHolds, WaitInvKept
<1> QED
  BY <1>1, WaitInit, PTL DEF RxSpec

\* A client left without a reply is in blocked_clients or its request is being handled,
\* and rx_loop finds a client when it picks one, unless one was interrupted.
THEOREM RxBlockedIsListed == RxSpec => []BlockedIsListed
<1>1. WaitInv => BlockedIsListed
  BY DEF WaitInv
<1> QED
  BY <1>1, RxWaitInvHolds, PTL

\* Once can_ocb_free has returned nobody waits and rx_loop has ended.
THEOREM RxNoneHangsAfterClose == RxSpec => []NoneHangsAfterClose
<1>1. WaitInv => NoneHangsAfterClose
  BY DEF WaitInv
<1> QED
  BY <1>1, RxWaitInvHolds, PTL

\* Whatever the interleaving of netif_rx, rx_loop and the handlers of any number of
\* clients, read() returns the bytes of the messages in order, whole and none twice, and
\* goes past no message that the ring did not drop; the exceptions of ReadsInOrder aside.
THEOREM RxReadsInOrder == RxSpec => []ReadsInOrder
<1>1. RxSpec => []TypeOK
  BY RxImplementsQueue, QueueTypeCorrect, PTL
<1>2. RxSpec => []HoldsNewest
  BY RxImplementsQueue, QueueHoldsNewest, PTL
<1>3. /\ TypeOK /\ TypeOK' /\ HoldsNewest /\ HoldsNewest' /\ WaitInv /\ ReadInv
      /\ [RxNext]_rxVars
      => ReadInv'
  BY CountingHolds, ReadInvKept
<1>4. RxInit => ReadInv
  BY CountingHolds, ReadInit
<1>5. RxSpec => []ReadInv
  BY <1>1, <1>2, <1>3, <1>4, RxWaitInvHolds, PTL DEF RxSpec
<1> QED
  BY <1>5, ReadInvMeans, PTL
=============================================================================
