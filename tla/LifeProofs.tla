------------------------------ MODULE LifeProofs ------------------------------
(***************************************************************************)
(* Proofs about the threads of Life, for any set of clients and any number *)
(* of SIGINTs: the session mutex, the lists of client sessions and what a  *)
(* shutdown may free.                                                      *)
(***************************************************************************)
EXTENDS Life, TLAPS

-----------------------------------------------------------------------------
(* The session mutex and the devices.                                        *)

\* A client holds a position in a list.
Listed == {"create", "open", "unlock", "remove"}

\* Shapes of the state the proof needs.
Shape ==
  /\ cur \in Devs
  /\ sess \in [Devs -> {"live", "unlinked", "freed"}]
  /\ dev \in [Devs -> {"live", "freed"}]
  /\ cs \in [Clients -> {"live", "freed"}]
  /\ on \in [Clients -> Devs]
  /\ cl \in [Clients -> {"closed", "lock", "nosession", "stale"} \cup Listed]
  /\ irq = [pc |-> irq.pc, it |-> irq.it]
  /\ timer = [pc |-> timer.pc, cancelled |-> timer.cancelled]
  /\ tx = [pc |-> tx.pc, it |-> tx.it]

\* Who is in a section under device_session_create_mutex holds it; a session or a device
\* is freed only by main, which then has the mutex and never gives it back.
MutexInv ==
  /\ irq.pc = "walk" => mutex = "irq"
  /\ \A c \in Clients : cl[c] \in {"create", "remove"} <=> mutex = c
  /\ main \in {"down", "drain", "free"} => mutex = "main"
  /\ mutex = "irq" => irq.pc = "walk"
  /\ main = "thread" => irq.pc = "off"
  /\ \A d \in Devs : sess[d] = "freed" \/ dev[d] = "freed" => mutex = "main"

\* The list of a device holds the client sessions allocated for it, each once.
ListInv ==
  /\ list \in [Devs -> Seq(Clients)]
  /\ \A d \in Devs : \A i, j \in DOMAIN list[d] : list[d][i] = list[d][j] => i = j
  /\ \A d \in Devs : \A i \in DOMAIN list[d] :
       on[list[d][i]] = d /\ cs[list[d][i]] = "live" /\ cl[list[d][i]] \in Listed
  /\ \A c \in Clients : cl[c] \in Listed => \E i \in DOMAIN list[on[c]] : list[on[c]][i] = c
  /\ irq.pc = "walk" /\ irq.it # NIL => \E i \in DOMAIN list["hw"] : list["hw"][i] = irq.it

\* What is at work when the shutdown passes it is recorded.
FlyingInv ==
  /\ main \in {"stop", "lock", "down", "drain", "free", "exit"} => shutdown
  /\ shutdown /\ IrqBusy => "irq" \in flying
  /\ dev["hw"] = "freed" => cur = "vcan"
  /\ \A d \in Devs : sess[d] = "freed" => main \in {"stop", "lock", "down", "drain", "free", "exit"}
  /\ (cur = "vcan" \/ main \in {"lock", "down", "drain", "free"}) =>
       /\ main \in {"stop", "lock", "down", "drain", "free", "exit"}
       /\ timer.pc = "exited" \/ flying \cap {"timer", "irq"} # {}
  /\ sess["vcan"] = "freed" => tx.pc # "deq" /\ (tx.pc = "walk" => "tx" \in flying)

IInv == Shape /\ MutexInv /\ ListInv /\ FlyingInv

-----------------------------------------------------------------------------

LEMMA InitIInv == ASSUME Init PROVE IInv
<1> USE LifeAssumption DEF Init
<1>1. Shape
  BY DEF Shape, Devs
<1>2. MutexInv
  BY DEF MutexInv
<1>3. ListInv
  BY DEF ListInv, Listed
<1>4. FlyingInv
  BY DEF FlyingInv, IrqBusy, Devs
<1> QED
  BY <1>1, <1>2, <1>3, <1>4 DEF IInv

LEMMA ShapePreserved == ASSUME Shape, [Next]_vars PROVE Shape'
<1> USE DEF Shape, Devs, Listed, sessions, threads
<1>1. Sigint \/ SigintTellsMain => Shape'
  BY DEF Sigint, SigintTellsMain
<1>2. StartIrqThread \/ CreateChannel \/ MainReceives => Shape'
  BY DEF StartIrqThread, CreateChannel, MainReceives
<1>3. NdoStop => Shape'
  <2> SUFFICES ASSUME NdoStop PROVE Shape'
    OBVIOUS
  <2>1. timer' = [pc |-> timer'.pc, cancelled |-> timer'.cancelled]
    <3>1. CASE cur = "vcan"
      BY <3>1 DEF NdoStop
    <3>2. CASE cur # "vcan"
      <4>1. timer' = [pc |-> IF TimerBusy THEN timer.pc ELSE "exited", cancelled |-> TRUE]
        BY <3>2 DEF NdoStop
      <4> QED
        BY <4>1
    <3> QED
      BY <3>1, <3>2
  <2> QED
    BY <2>1 DEF NdoStop
<1>4. LockToDestroy => Shape'
  BY DEF LockToDestroy
<1>5. UnlinkSession => Shape'
  BY DEF UnlinkSession
<1>6. FreeSession => Shape'
  BY DEF FreeSession
<1>7. FreeDevice => Shape'
  BY DEF FreeDevice
<1>8. Interrupt \/ IrqReceives => Shape'
  BY DEF Interrupt, IrqReceives
<1>9. IrqHandles => Shape'
  BY DEF IrqHandles
<1>10. IrqLocks => Shape'
  BY DEF IrqLocks
<1>11. IrqWalks => Shape'
  BY DEF IrqWalks
<1>12. IrqUnmasks => Shape'
  BY DEF IrqUnmasks
<1>13. TimerFires \/ TimerFlushes \/ TimerRestarts => Shape'
  BY DEF TimerFires, TimerFlushes, TimerRestarts
<1>14. TxDequeues \/ TxWalks => Shape'
  BY DEF TxDequeues, TxWalks
<1>15. \A c \in Clients, d \in Devs : OpenFinds(c, d) => Shape'
  BY DEF OpenFinds
<1>16. \A c \in Clients : OpenLocks(c) => Shape'
  BY DEF OpenLocks
<1>17. \A c \in Clients : OpenEnds(c) => Shape'
  BY DEF OpenEnds, Unlink
<1>18. \A c \in Clients : Close(c) => Shape'
  BY DEF Close
<1>19. \A c \in Clients : CloseLocks(c) => Shape'
  BY DEF CloseLocks
<1>20. \A c \in Clients : CloseEnds(c) => Shape'
  BY DEF CloseEnds, Unlink
<1>21. UNCHANGED vars => Shape'
  BY DEF vars
<1> QED
  BY <1>1, <1>2, <1>3, <1>4, <1>5, <1>6, <1>7, <1>8, <1>9, <1>10, <1>11, <1>12, <1>13,
     <1>14, <1>15, <1>16, <1>17, <1>18, <1>19, <1>20, <1>21 DEF Next

LEMMA MutexPreserved == ASSUME Shape, MutexInv, [Next]_vars PROVE MutexInv'
<1> USE LifeAssumption DEF Shape, MutexInv, Devs, Listed, sessions, threads
<1>1. Sigint \/ SigintTellsMain => MutexInv'
  BY DEF Sigint, SigintTellsMain
<1>2. StartIrqThread \/ CreateChannel \/ MainReceives => MutexInv'
  BY DEF StartIrqThread, CreateChannel, MainReceives
<1>3. NdoStop => MutexInv'
  BY DEF NdoStop
<1>4. LockToDestroy => MutexInv'
  BY DEF LockToDestroy
<1>5. UnlinkSession => MutexInv'
  BY DEF UnlinkSession
<1>6. FreeSession => MutexInv'
  BY DEF FreeSession
<1>7. FreeDevice => MutexInv'
  BY DEF FreeDevice
<1>8. Interrupt \/ IrqReceives => MutexInv'
  BY DEF Interrupt, IrqReceives
<1>9. IrqHandles => MutexInv'
  BY DEF IrqHandles
<1>10. IrqLocks => MutexInv'
  BY DEF IrqLocks
<1>11. IrqWalks => MutexInv'
  BY DEF IrqWalks
<1>12. IrqUnmasks => MutexInv'
  BY DEF IrqUnmasks
<1>13. TimerFires \/ TimerFlushes \/ TimerRestarts => MutexInv'
  BY DEF TimerFires, TimerFlushes, TimerRestarts
<1>14. TxDequeues \/ TxWalks => MutexInv'
  BY DEF TxDequeues, TxWalks
<1>15. \A c \in Clients, d \in Devs : OpenFinds(c, d) => MutexInv'
  BY DEF OpenFinds
<1>16. \A c \in Clients : OpenLocks(c) => MutexInv'
  BY DEF OpenLocks
<1>17. \A c \in Clients : OpenEnds(c) => MutexInv'
  BY DEF OpenEnds, Unlink
<1>18. \A c \in Clients : Close(c) => MutexInv'
  BY DEF Close
<1>19. \A c \in Clients : CloseLocks(c) => MutexInv'
  BY DEF CloseLocks
<1>20. \A c \in Clients : CloseEnds(c) => MutexInv'
  BY DEF CloseEnds, Unlink
<1>21. UNCHANGED vars => MutexInv'
  BY DEF vars
<1> HIDE DEF Shape, MutexInv, Devs, Listed, sessions, threads
<1> QED
  BY <1>1, <1>2, <1>3, <1>4, <1>5, <1>6, <1>7, <1>8, <1>9, <1>10, <1>11, <1>12, <1>13,
     <1>14, <1>15, <1>16, <1>17, <1>18, <1>19, <1>20, <1>21 DEF Next

LEMMA FlyingPreserved == ASSUME Shape, FlyingInv, [Next]_vars PROVE FlyingInv'
<1> USE LifeAssumption DEF Shape, FlyingInv, Devs, IrqBusy, TimerBusy, sessions, threads, signals
<1>1. Sigint \/ SigintTellsMain => FlyingInv'
  BY DEF Sigint, SigintTellsMain
<1>2. StartIrqThread \/ CreateChannel \/ MainReceives => FlyingInv'
  BY DEF StartIrqThread, CreateChannel, MainReceives
<1>3. NdoStop => FlyingInv'
  BY DEF NdoStop
<1>4. LockToDestroy => FlyingInv'
  BY DEF LockToDestroy
<1>5. UnlinkSession => FlyingInv'
  BY DEF UnlinkSession
<1>6. FreeSession => FlyingInv'
  BY DEF FreeSession
<1>7. FreeDevice => FlyingInv'
  BY DEF FreeDevice
<1>8. Interrupt \/ IrqReceives => FlyingInv'
  BY DEF Interrupt, IrqReceives
<1>9. IrqHandles => FlyingInv'
  BY DEF IrqHandles
<1>10. IrqLocks => FlyingInv'
  BY DEF IrqLocks
<1>11. IrqWalks => FlyingInv'
  BY DEF IrqWalks
<1>12. IrqUnmasks => FlyingInv'
  BY DEF IrqUnmasks
<1>13. TimerFires \/ TimerFlushes \/ TimerRestarts => FlyingInv'
  BY DEF TimerFires, TimerFlushes, TimerRestarts
<1>14. TxDequeues \/ TxWalks => FlyingInv'
  <2>1. CASE TxDequeues
    BY <2>1 DEF TxDequeues
  <2>2. CASE TxWalks
    <3>1. sess' = sess /\ flying' = flying /\ tx.pc = "walk"
      BY <2>2 DEF TxWalks
    <3>2. sess["vcan"] = "freed" => tx'.pc = "undefined"
      BY <2>2 DEF TxWalks
    <3> QED
      BY <2>2, <3>1, <3>2 DEF TxWalks
  <2> QED
    BY <2>1, <2>2
<1>15. \A c \in Clients, d \in Devs : OpenFinds(c, d) => FlyingInv'
  BY DEF OpenFinds
<1>16. \A c \in Clients : OpenLocks(c) => FlyingInv'
  BY DEF OpenLocks
<1>17. \A c \in Clients : OpenEnds(c) => FlyingInv'
  BY DEF OpenEnds, Unlink
<1>18. \A c \in Clients : Close(c) => FlyingInv'
  BY DEF Close
<1>19. \A c \in Clients : CloseLocks(c) => FlyingInv'
  BY DEF CloseLocks
<1>20. \A c \in Clients : CloseEnds(c) => FlyingInv'
  BY DEF CloseEnds, Unlink
<1>21. UNCHANGED vars => FlyingInv'
  BY DEF vars
<1> HIDE DEF Shape, FlyingInv, Devs, IrqBusy, TimerBusy, sessions, threads, signals
<1> QED
  BY <1>1, <1>2, <1>3, <1>4, <1>5, <1>6, <1>7, <1>8, <1>9, <1>10, <1>11, <1>12, <1>13,
     <1>14, <1>15, <1>16, <1>17, <1>18, <1>19, <1>20, <1>21 DEF Next

-----------------------------------------------------------------------------
(* The lists of client sessions.                                             *)

\* The position of an element of a list.
LEMMA AtPosition ==
  ASSUME NEW S, NEW s \in Seq(S), NEW c, \E i \in DOMAIN s : s[i] = c
  PROVE  At(s, c) \in 1 .. Len(s) /\ s[At(s, c)] = c
BY DEF At

\* The next node of a list is one of its nodes, or the end.
LEMMA AfterIsListed ==
  ASSUME NEW S, NEW s \in Seq(S), NEW c, \E i \in DOMAIN s : s[i] = c,
         After(s, c) # NIL
  PROVE  \E i \in DOMAIN s : s[i] = After(s, c)
BY AtPosition DEF After

\* What a list is when one of its nodes is taken out.
LEMMA RemovedNode ==
  ASSUME NEW S, NEW s \in Seq(S), NEW p \in 1 .. Len(s)
  PROVE  /\ RemoveAt(s, p) \in Seq(S)
         /\ DOMAIN RemoveAt(s, p) = 1 .. Len(s) - 1
         /\ \A i \in 1 .. Len(s) - 1 : RemoveAt(s, p)[i] = IF i < p THEN s[i] ELSE s[i + 1]
<1>1. /\ SubSeq(s, 1, p - 1) \in Seq(S)
      /\ Len(SubSeq(s, 1, p - 1)) = p - 1
      /\ \A i \in 1 .. p - 1 : SubSeq(s, 1, p - 1)[i] = s[i]
  OBVIOUS
<1>2. /\ SubSeq(s, p + 1, Len(s)) \in Seq(S)
      /\ Len(SubSeq(s, p + 1, Len(s))) = Len(s) - p
      /\ \A i \in 1 .. Len(s) - p : SubSeq(s, p + 1, Len(s))[i] = s[p + i]
  OBVIOUS
<1>3. ASSUME NEW a \in Seq(S), NEW b \in Seq(S),
             Len(a) = p - 1, \A i \in 1 .. p - 1 : a[i] = s[i],
             Len(b) = Len(s) - p, \A i \in 1 .. Len(s) - p : b[i] = s[p + i]
      PROVE  /\ a \o b \in Seq(S)
             /\ DOMAIN (a \o b) = 1 .. Len(s) - 1
             /\ \A i \in 1 .. Len(s) - 1 : (a \o b)[i] = IF i < p THEN s[i] ELSE s[i + 1]
  <2>1. a \o b \in Seq(S) /\ DOMAIN (a \o b) = 1 .. Len(s) - 1
    <3>1. a \o b \in Seq(S) /\ Len(a \o b) = Len(a) + Len(b)
      OBVIOUS
    <3>2. DOMAIN (a \o b) = 1 .. Len(a \o b)
      BY <3>1
    <3>3. Len(a) + Len(b) = Len(s) - 1
      BY <1>3
    <3> QED
      BY <3>1, <3>2, <3>3
  <2>2. ASSUME NEW i \in 1 .. Len(s) - 1
        PROVE  (a \o b)[i] = IF i < p THEN s[i] ELSE s[i + 1]
    <3>1. CASE i < p
      BY <1>3, <3>1
    <3>2. CASE ~(i < p)
      <4>1. i - (p - 1) \in 1 .. Len(s) - p /\ p + (i - (p - 1)) = i + 1
        BY <3>2
      <4>2. (a \o b)[i] = b[i - (p - 1)]
        BY <1>3, <3>2
      <4> QED
        BY <1>3, <3>2, <4>1, <4>2
    <3> QED
      BY <3>1, <3>2
  <2> QED
    BY <2>1, <2>2
<1> QED
  BY <1>1, <1>2, <1>3 DEF RemoveAt

\* A list without repetitions loses exactly the node taken out.
LEMMA RemovedList ==
  ASSUME NEW S, NEW s \in Seq(S), NEW c, \E i \in DOMAIN s : s[i] = c,
         \A i, j \in DOMAIN s : s[i] = s[j] => i = j,
         NEW r, r = RemoveAt(s, At(s, c))
  PROVE  /\ r \in Seq(S)
         /\ \A i, j \in DOMAIN r : r[i] = r[j] => i = j
         /\ \A i \in DOMAIN r : r[i] # c /\ \E j \in DOMAIN s : s[j] = r[i]
         /\ \A j \in DOMAIN s : s[j] # c => \E i \in DOMAIN r : r[i] = s[j]
<1> DEFINE p == At(s, c)
<1>1. p \in 1 .. Len(s) /\ s[p] = c
  BY AtPosition
<1>2. /\ r \in Seq(S)
      /\ DOMAIN r = 1 .. Len(s) - 1
      /\ \A i \in 1 .. Len(s) - 1 : r[i] = IF i < p THEN s[i] ELSE s[i + 1]
  BY <1>1, RemovedNode
<1> HIDE DEF p
<1>3. DOMAIN s = 1 .. Len(s)
  OBVIOUS
<1> DEFINE k(i) == IF i < p THEN i ELSE i + 1
<1>4. \A i \in DOMAIN r : k(i) \in DOMAIN s /\ k(i) # p /\ r[i] = s[k(i)]
  BY <1>1, <1>2, <1>3
<1>5. \A i, j \in DOMAIN r : k(i) = k(j) => i = j
  BY <1>1, <1>2
<1> HIDE DEF k
<1>6. \A i, j \in DOMAIN r : r[i] = r[j] => i = j
  BY <1>4, <1>5
<1>7. \A i \in DOMAIN r : r[i] # c /\ \E j \in DOMAIN s : s[j] = r[i]
  BY <1>1, <1>3, <1>4
<1>8. ASSUME NEW j \in DOMAIN s, s[j] # c PROVE \E i \in DOMAIN r : r[i] = s[j]
  <2>1. CASE j < p
    BY <1>1, <1>2, <1>3, <2>1
  <2>2. CASE j > p
    <3>1. j - 1 \in DOMAIN r /\ r[j - 1] = s[j]
      BY <1>1, <1>2, <1>3, <2>2
    <3> QED
      BY <3>1
  <2> QED
    BY <1>1, <1>3, <1>8, <2>1, <2>2
<1> QED
  BY <1>2, <1>6, <1>7, <1>8

\* A step that leaves lists, sessions and broadcast alone.
LEMMA ListUnchanged ==
  ASSUME ListInv, UNCHANGED <<list, cs, cl, on, irq>>
  PROVE  ListInv'
BY DEF ListInv

\* A client leaves the list of its device, in a section under the mutex.
LEMMA UnlinkKeepsListInv ==
  ASSUME Shape, MutexInv, ListInv, NEW c \in Clients,
         Unlink(c), mutex = c, UNCHANGED <<on, irq>>,
         cl[c] \in Listed, NEW l \in {"closed", "nosession"}, cl' = [cl EXCEPT ![c] = l]
  PROVE  ListInv'
<1> DEFINE d0 == on[c]
           s == list[d0]
           r == RemoveAt(s, At(s, c))
<1>1. d0 \in Devs /\ s \in Seq(Clients)
  BY DEF Shape, ListInv
<1>2. \E i \in DOMAIN s : s[i] = c
  BY DEF ListInv
<1>3. \A i, j \in DOMAIN s : s[i] = s[j] => i = j
  BY <1>1 DEF ListInv
<1>4. /\ r \in Seq(Clients)
      /\ \A i, j \in DOMAIN r : r[i] = r[j] => i = j
      /\ \A i \in DOMAIN r : r[i] # c /\ \E j \in DOMAIN s : s[j] = r[i]
      /\ \A j \in DOMAIN s : s[j] # c => \E i \in DOMAIN r : r[i] = s[j]
  BY <1>1, <1>2, <1>3, RemovedList
<1>5. list' = [list EXCEPT ![d0] = r] /\ cs' = [cs EXCEPT ![c] = "freed"]
  BY DEF Unlink
<1>6. irq.pc # "walk"
  BY LifeAssumption DEF MutexInv
<1> HIDE DEF d0, s, r
<1>7. s = list[d0] /\ d0 = on[c]
  BY DEF s, d0
<1>8. list'[d0] = r /\ \A d \in Devs : d # d0 => list'[d] = list[d]
  BY <1>1, <1>5 DEF ListInv
<1>9. list' \in [Devs -> Seq(Clients)]
  BY <1>1, <1>4, <1>5 DEF ListInv
<1>10. \A d \in Devs : \A i, j \in DOMAIN list'[d] : list'[d][i] = list'[d][j] => i = j
  BY <1>4, <1>8 DEF ListInv
<1>11. \A d \in Devs : \A i \in DOMAIN list'[d] :
         \E j \in DOMAIN list[d] : list'[d][i] = list[d][j] /\ list[d][j] # c
  <2> TAKE d \in Devs
  <2>1. CASE d = d0
    BY <1>4, <1>7, <1>8, <2>1
  <2>2. CASE d # d0
    <3>1. \A i \in DOMAIN list[d] : on[list[d][i]] = d
      BY DEF ListInv
    <3>2. \A i \in DOMAIN list[d] : list[d][i] # c
      BY <1>7, <2>2, <3>1
    <3> QED
      BY <1>8, <2>2, <3>2
  <2> QED
    BY <2>1, <2>2
<1>12. \A e \in Clients : e # c => cl'[e] = cl[e] /\ cs'[e] = cs[e]
  BY <1>5 DEF Shape
<1>13. \A d \in Devs : \A i \in DOMAIN list[d] : list[d][i] \in Clients
  BY DEF ListInv
<1>14. ASSUME NEW d \in Devs, NEW i \in DOMAIN list'[d]
       PROVE  /\ on[list'[d][i]] = d /\ cs'[list'[d][i]] = "live"
              /\ cl'[list'[d][i]] \in Listed
  BY <1>11, <1>12, <1>13 DEF ListInv
<1>15. ASSUME NEW e \in Clients, cl'[e] \in Listed
       PROVE  \E i \in DOMAIN list'[on[e]] : list'[on[e]][i] = e
  <2>1. e # c
    BY <1>15 DEF Shape, Listed
  <2>2. PICK j \in DOMAIN list[on[e]] : list[on[e]][j] = e
    BY <1>12, <1>15, <2>1 DEF ListInv
  <2>3. on[e] \in Devs
    BY DEF Shape
  <2> QED
    BY <1>4, <1>7, <1>8, <2>1, <2>2, <2>3
<1> QED
  BY <1>6, <1>9, <1>10, <1>14, <1>15 DEF ListInv

\* A client enters the list of its device, at the end.
LEMMA OpenKeepsListInv ==
  ASSUME Shape, MutexInv, ListInv, NEW c \in Clients, OpenLocks(c)
  PROVE  ListInv'
<1> DEFINE d0 == on[c]
           s == list[d0]
           r == Append(s, c)
<1>1. d0 \in Devs /\ s \in Seq(Clients)
  BY DEF Shape, ListInv
<1>2. /\ list' = [list EXCEPT ![d0] = r]
      /\ cs' = [cs EXCEPT ![c] = "live"] /\ cl' = [cl EXCEPT ![c] = "create"]
      /\ cl[c] = "lock" /\ mutex = "none" /\ UNCHANGED <<on, irq>>
  BY DEF OpenLocks, threads
<1>3. \A i \in DOMAIN s : s[i] # c
  <2>1. \A i \in DOMAIN s : cl[s[i]] \in Listed
    BY <1>1 DEF ListInv
  <2> QED
    BY <1>2, <2>1 DEF Listed
<1>4. /\ r \in Seq(Clients) /\ DOMAIN r = 1 .. Len(s) + 1 /\ DOMAIN s = 1 .. Len(s)
      /\ \A i \in 1 .. Len(s) : r[i] = s[i]
      /\ r[Len(s) + 1] = c
      /\ Len(s) \in Nat
  BY <1>1
<1>5. irq.pc # "walk"
  BY <1>2, LifeAssumption DEF MutexInv
<1> HIDE DEF d0, s, r
<1>6. s = list[d0] /\ d0 = on[c]
  BY DEF s, d0
<1>7. list'[d0] = r /\ \A d \in Devs : d # d0 => list'[d] = list[d]
  BY <1>1, <1>2 DEF ListInv
<1>8. list' \in [Devs -> Seq(Clients)]
  BY <1>1, <1>2, <1>4 DEF ListInv
<1>9. \A i, j \in DOMAIN r : r[i] = r[j] => i = j
  <2>1. \A i, j \in 1 .. Len(s) : s[i] = s[j] => i = j
    BY <1>1, <1>4, <1>6 DEF ListInv
  <2> QED
    BY <1>3, <1>4, <2>1
<1>10. \A d \in Devs : \A i, j \in DOMAIN list'[d] : list'[d][i] = list'[d][j] => i = j
  BY <1>7, <1>9 DEF ListInv
<1>11. \A d \in Devs : \A i \in DOMAIN list'[d] :
         \/ d = on[c] /\ list'[d][i] = c
         \/ \E j \in DOMAIN list[d] : list'[d][i] = list[d][j]
  <2> TAKE d \in Devs
  <2> TAKE i \in DOMAIN list'[d]
  <2>1. CASE d # d0
    BY <1>7, <2>1
  <2>2. CASE d = d0 /\ i = Len(s) + 1
    BY ONLY <1>4, <1>6, <1>7, <2>2
  <2>3. CASE d = d0 /\ i # Len(s) + 1
    <3>1. i \in 1 .. Len(s)
      BY ONLY <1>4, <1>7, <2>3, i \in DOMAIN list'[d]
    <3> QED
      BY ONLY <1>4, <1>6, <1>7, <2>3, <3>1
  <2> QED
    BY ONLY <2>1, <2>2, <2>3
<1>12. /\ \A e \in Clients : e # c => cl'[e] = cl[e] /\ cs'[e] = cs[e]
       /\ cl'[c] \in Listed /\ cs'[c] = "live"
  BY <1>2 DEF Shape, Listed
<1>13. \A d \in Devs : \A i \in DOMAIN list[d] : list[d][i] \in Clients
  BY DEF ListInv
<1>14. ASSUME NEW d \in Devs, NEW i \in DOMAIN list'[d]
       PROVE  /\ on[list'[d][i]] = d /\ cs'[list'[d][i]] = "live"
              /\ cl'[list'[d][i]] \in Listed
  <2>1. CASE d = on[c] /\ list'[d][i] = c
    BY <1>12, <2>1
  <2>2. CASE list'[d][i] # c /\ \E j \in DOMAIN list[d] : list'[d][i] = list[d][j]
    <3>1. PICK j \in DOMAIN list[d] : list'[d][i] = list[d][j]
      BY <2>2
    <3>2. on[list[d][j]] = d /\ cs[list[d][j]] = "live" /\ cl[list[d][j]] \in Listed
      BY DEF ListInv
    <3> QED
      BY <1>12, <1>13, <2>2, <3>1, <3>2
  <2>3. CASE list'[d][i] = c /\ \E j \in DOMAIN list[d] : list'[d][i] = list[d][j]
    <3>1. PICK j \in DOMAIN list[d] : list[d][j] = c
      BY <2>3
    <3> QED
      BY <1>12, <2>3, <3>1 DEF ListInv
  <2> QED
    BY <1>11, <2>1, <2>2, <2>3
<1>15. ASSUME NEW e \in Clients, cl'[e] \in Listed
       PROVE  \E i \in DOMAIN list'[on[e]] : list'[on[e]][i] = e
  <2>1. CASE e = c
    BY <1>4, <1>6, <1>7, <2>1
  <2>2. CASE e # c
    <3>1. PICK j \in DOMAIN list[on[e]] : list[on[e]][j] = e
      BY <1>12, <1>15, <2>2 DEF ListInv
    <3>2. on[e] \in Devs
      BY DEF Shape
    <3>3. CASE on[e] = d0
      <4>1. j \in 1 .. Len(s) /\ s[j] = e
        BY <1>4, <1>6, <3>1, <3>3
      <4>2. j \in DOMAIN r /\ r[j] = e
        BY <1>4, <4>1
      <4> QED
        BY <1>7, <3>3, <4>2
    <3>4. CASE on[e] # d0
      BY <1>7, <3>1, <3>2, <3>4
    <3> QED
      BY <3>3, <3>4
  <2> QED
    BY <2>1, <2>2
<1> QED
  BY <1>2, <1>5, <1>8, <1>10, <1>14, <1>15 DEF ListInv

LEMMA ListPreserved == ASSUME Shape, MutexInv, ListInv, [Next]_vars PROVE ListInv'
<1> USE DEF sessions, threads
<1>1. Sigint \/ SigintTellsMain => ListInv'
  BY ListUnchanged DEF Sigint, SigintTellsMain
<1>2. CreateChannel \/ MainReceives => ListInv'
  BY ListUnchanged DEF CreateChannel, MainReceives
<1>3. NdoStop \/ LockToDestroy \/ UnlinkSession \/ FreeSession \/ FreeDevice => ListInv'
  BY ListUnchanged DEF NdoStop, LockToDestroy, UnlinkSession, FreeSession, FreeDevice
<1>4. Interrupt => ListInv'
  BY ListUnchanged DEF Interrupt
<1>5. StartIrqThread \/ IrqReceives \/ IrqHandles \/ IrqUnmasks => ListInv'
  <2> SUFFICES ASSUME StartIrqThread \/ IrqReceives \/ IrqHandles \/ IrqUnmasks
               PROVE  ListInv'
    OBVIOUS
  <2>1. irq'.pc # "walk"
    BY DEF StartIrqThread, IrqReceives, IrqHandles, IrqUnmasks, Shape
  <2>2. UNCHANGED <<list, cs, cl, on>>
    BY DEF StartIrqThread, IrqReceives, IrqHandles, IrqUnmasks
  <2> QED
    BY ONLY <2>1, <2>2, ListInv DEF ListInv
<1>6. IrqLocks => ListInv'
  <2> SUFFICES ASSUME IrqLocks PROVE ListInv'
    OBVIOUS
  <2>1. UNCHANGED <<list, cs, cl, on>> /\ irq'.it = First(list["hw"])
    BY DEF IrqLocks
  <2>2. list["hw"] \in Seq(Clients)
    BY DEF ListInv, Devs
  <2>3. irq'.it # NIL => \E i \in DOMAIN list["hw"] : list["hw"][i] = irq'.it
    BY <2>1, <2>2 DEF First
  <2> QED
    BY ONLY <2>1, <2>3, ListInv DEF ListInv
<1>7. IrqWalks => ListInv'
  <2> SUFFICES ASSUME IrqWalks PROVE ListInv'
    OBVIOUS
  <2>1. UNCHANGED <<list, cs, cl, on>>
    BY DEF IrqWalks
  <2>2. CASE irq.it = NIL
    <3>1. irq'.pc # "walk"
      BY <2>2 DEF IrqWalks, Shape
    <3> QED
      BY ONLY <2>1, <3>1, ListInv DEF ListInv
  <2>3. CASE irq.it # NIL
    <3>1. irq'.it = After(list["hw"], irq.it)
      BY <2>3 DEF IrqWalks, Shape
    <3>2. list["hw"] \in Seq(Clients)
      BY DEF ListInv, Devs
    <3>3. \E i \in DOMAIN list["hw"] : list["hw"][i] = irq.it
      BY <2>3 DEF ListInv, IrqWalks
    <3>4. irq'.it # NIL => \E i \in DOMAIN list["hw"] : list["hw"][i] = irq'.it
      BY <3>1, <3>2, <3>3, AfterIsListed
    <3> QED
      BY ONLY <2>1, <3>4, ListInv DEF ListInv
  <2> QED
    BY <2>2, <2>3
<1>8. TimerFires \/ TimerFlushes \/ TimerRestarts => ListInv'
  BY ListUnchanged DEF TimerFires, TimerFlushes, TimerRestarts
<1>9. TxDequeues \/ TxWalks => ListInv'
  BY ListUnchanged DEF TxDequeues, TxWalks
<1>10. ASSUME NEW c \in Clients, NEW d \in Devs, OpenFinds(c, d) PROVE ListInv'
  <2>1. /\ UNCHANGED <<list, cs, irq>> /\ cl[c] = "closed"
        /\ on' = [on EXCEPT ![c] = d]
        /\ \A e \in Clients : e # c => cl'[e] = cl[e]
        /\ cl'[c] \notin Listed
    BY <1>10 DEF OpenFinds, Listed, Shape
  <2>2. \A x \in Devs : \A i \in DOMAIN list[x] : list[x][i] \in Clients \ {c}
    BY <2>1 DEF ListInv, Listed
  <2>3. \A e \in Clients : e # c => on'[e] = on[e]
    BY <2>1 DEF Shape
  <2>4. ASSUME NEW x \in Devs, NEW i \in DOMAIN list[x]
        PROVE  on'[list[x][i]] = x /\ cs[list[x][i]] = "live" /\ cl'[list[x][i]] \in Listed
    <3>1. list[x][i] \in Clients /\ list[x][i] # c
      BY <2>2
    <3>2. on[list[x][i]] = x /\ cs[list[x][i]] = "live" /\ cl[list[x][i]] \in Listed
      BY DEF ListInv
    <3>3. on'[list[x][i]] = x
      BY ONLY <2>3, <3>1, <3>2
    <3>4. cl'[list[x][i]] \in Listed
      BY ONLY <2>1, <3>1, <3>2
    <3> QED
      BY ONLY <3>2, <3>3, <3>4
  <2>5. \A e \in Clients : cl'[e] \in Listed =>
          \E i \in DOMAIN list[on'[e]] : list[on'[e]][i] = e
    BY <2>1, <2>3 DEF ListInv
  <2>6. /\ list \in [Devs -> Seq(Clients)]
        /\ \A x \in Devs : \A i, j \in DOMAIN list[x] : list[x][i] = list[x][j] => i = j
        /\ irq.pc = "walk" /\ irq.it # NIL => \E i \in DOMAIN list["hw"] : list["hw"][i] = irq.it
    BY DEF ListInv
  <2>7. list' = list /\ cs' = cs /\ irq' = irq
    BY <2>1
  <2> QED
    BY ONLY <2>4, <2>5, <2>6, <2>7 DEF ListInv
<1>11. ASSUME NEW c \in Clients, OpenLocks(c) PROVE ListInv'
  BY <1>11, OpenKeepsListInv
<1>12. ASSUME NEW c \in Clients, Close(c) \/ CloseLocks(c) \/ (OpenEnds(c) /\ cl'[c] = "open")
       PROVE  ListInv'
  <2>1. UNCHANGED <<list, cs, on, irq>> /\ cl'[c] \in Listed /\ cl[c] \in Listed
    BY <1>12 DEF Close, CloseLocks, OpenEnds, Listed, Shape
  <2>2. \A e \in Clients : e # c => cl'[e] = cl[e]
    BY <1>12 DEF Close, CloseLocks, OpenEnds, Shape
  <2>3. \A e \in Clients : cl'[e] \in Listed <=> cl[e] \in Listed
    BY <2>1, <2>2
  <2>4. \A x \in Devs : \A i \in DOMAIN list[x] : list[x][i] \in Clients
    BY DEF ListInv
  <2> QED
    BY ONLY <2>1, <2>3, <2>4, ListInv DEF ListInv
<1>13. ASSUME NEW c \in Clients, CloseEnds(c) \/ (OpenEnds(c) /\ cl'[c] # "open")
       PROVE  ListInv'
  <2>1. Unlink(c) /\ UNCHANGED <<on, irq>> /\ cl[c] \in {"create", "remove"}
    BY <1>13 DEF CloseEnds, OpenEnds, Shape
  <2>2. \E l \in {"closed", "nosession"} : cl' = [cl EXCEPT ![c] = l]
    BY <1>13 DEF CloseEnds, OpenEnds, Shape
  <2>3. mutex = c /\ cl[c] \in Listed
    BY <2>1 DEF MutexInv, Listed
  <2> QED
    BY <2>1, <2>2, <2>3, UnlinkKeepsListInv
<1>14. UNCHANGED vars => ListInv'
  BY ListUnchanged DEF vars
<1> HIDE DEF sessions, threads
<1> QED
  BY <1>1, <1>2, <1>3, <1>4, <1>5, <1>6, <1>7, <1>8, <1>9, <1>10, <1>11, <1>12, <1>13,
     <1>14 DEF Next

-----------------------------------------------------------------------------

\* The inductive invariant.
THEOREM LifeInvariant == Spec => []IInv
<1>1. IInv /\ [Next]_vars => IInv'
  BY ShapePreserved, MutexPreserved, ListPreserved, FlyingPreserved DEF IInv
<1> QED
  BY <1>1, InitIInv, PTL DEF Spec

\* netif_rx in the IRQ thread stands at an allocated client session, for any number of
\* clients that open and close meanwhile.
THEOREM LifeBroadcastLive == Spec => []BroadcastLive
<1>1. IInv => BroadcastLive
  BY DEF IInv, ListInv, BroadcastLive, Devs
<1> QED
  BY <1>1, LifeInvariant, PTL

\* create_client_session, destroy_client_session and netif_rx find the device session
\* they use allocated once they hold the mutex.
THEOREM LifeSessionLive == Spec => []SessionLiveUnderMutex
<1>1. IInv => SessionLiveUnderMutex
  BY LifeAssumption DEF IInv, Shape, MutexInv, SessionLiveUnderMutex, Devs
<1> QED
  BY <1>1, LifeInvariant, PTL

\* The shutdown frees a device or a session only under a thread that was at work when
\* the shutdown passed it.
THEOREM LifeFreedOnlyInFlight == Spec => []FreedOnlyInFlight
<1>1. IInv => FreedOnlyInFlight
  BY DEF IInv, FlyingInv, FreedOnlyInFlight, UsesFreed, IrqBusy
<1> QED
  BY <1>1, LifeInvariant, PTL
=============================================================================
