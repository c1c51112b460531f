---------------------------- MODULE RxInvariants ----------------------------
(***************************************************************************)
(* The inductive invariants behind the theorems on an open file of an rx   *)
(* channel.                                                                *)
(***************************************************************************)
EXTENDS RxClient

-----------------------------------------------------------------------------
(* Who waits for a reply is found again.                                    *)

LoopPcs == {"top", "wait", "test", "peek", "pick", "null", "send", "reply", "exit"}
HandlerStates == {"peek", "copy", "drop", "take", "list", "done"}

RxType ==
  /\ blocked \in Seq(Clients)
  /\ client \in [Clients -> Requests \cup {Ready}]
  /\ loop \in [pc : LoopPcs, rcvid : Clients \cup {"none"}]
  /\ handler = NoHandler \/ handler \in [client : Clients, st : HandlerStates, again : BOOLEAN]

\* The handler has a request of its client, which rx_loop passed on or the client sent.
HandlerInv ==
  /\ handler # NoHandler => client[handler.client] # Ready /\ close = "open"
  /\ handler.again <=> loop.pc = "reply"
  /\ handler.again => handler.client = loop.rcvid
  /\ loop.pc \in {"send", "reply"} => loop.rcvid \in Clients

\* While no client was interrupted the list holds the clients that wait, and a new
\* request is one of a client that is not in it.
ListInv ==
  /\ \A c \in Clients : Listed(blocked, c) => client[c] # Ready /\ client[c].op # "noblock"
  /\ loop.pc = "test" => blocked # <<>> \/ shutdown \/ ~rx_queue
  /\ loop.pc \in {"peek", "pick"} => blocked # <<>>
  /\ loop.pc \in {"send", "reply"} => Listed(blocked, loop.rcvid)
  /\ handler # NoHandler /\ ~handler.again => ~Listed(blocked, handler.client)

\* The inductive invariant.
WaitInv ==
  /\ RxType /\ HandlerInv /\ BlockedIsListed /\ NoneHangsAfterClose
  /\ ~interrupted => ListInv

-----------------------------------------------------------------------------
(* What read() returns.                                                     *)

Byte == Nat \X Nat

\* s are bytes of the messages up to top as ReadsInOrder wants them.
InOrder(s, top) ==
  /\ s \in Seq(Byte)
  /\ \A i \in 1 .. Len(s) : s[i][1] \in 1 .. top
  /\ \A i \in 2 .. Len(s) : Follows(s[i - 1], s[i])
  /\ s # <<>> => s[1][2] = 1
  /\ \A i, j \in 1 .. Len(s) : i < j => s[i][1] <= s[j][1]

\* So many messages have left the ring: it holds the ones after them.
Gone == stored - Count

\* The messages up to top that are not among the bytes s.
Unreturned(s, top) == {m \in 1 .. top : MsgLen[m] > 0 /\ \A i \in 1 .. Len(s) : s[i][1] # m}

\* The bytes returned and the bytes in the buffer.
Got == read \o buffer
LastGot == Got[Len(Got)]

\* All of the oldest message is copied, and the message is not removed yet.
Held == handler.st = "drop" /\ pc["handler"] # "use"

GotInv ==
  /\ stored <= MaxStored
  /\ read \in Seq(Byte) /\ buffer \in Seq(Byte)
  /\ InOrder(Got, stored)
  /\ Cardinality(Skipped) <= Lost

\* Where the bytes end: inside the oldest message held, with its last byte, or with the
\* last byte of a message that has left the ring.  Every message that has left it is
\* among the bytes, is empty or was lost.
PlaceInv ==
  /\ offset \in Nat
  /\ \A i \in 1 .. Len(Got) : Got[i][1] <= (IF offset # 0 \/ Held THEN Gone + 1 ELSE Gone)
  /\ offset # 0 \/ Held \/ handler.st = "copy" => Count > 0
  /\ offset # 0 => ~Held /\ offset < MsgLen[Gone + 1] /\ Got # <<>> /\ LastGot = <<Gone + 1, offset>>
  /\ offset = 0 /\ Got # <<>> => LastGot[2] = MsgLen[LastGot[1]]
  /\ Held /\ MsgLen[Gone + 1] > 0 => Got # <<>> /\ LastGot[1] = Gone + 1
  /\ handler.st = "copy" => ptr["handler"].slot = begin /\ Len(buffer) < nbytes
  /\ Cardinality(Unreturned(Got, Gone)) <= Lost

ReadInv == ~spoiled => GotInv /\ (close = "open" => PlaceInv)
=============================================================================
