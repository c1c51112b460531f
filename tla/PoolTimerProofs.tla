---------------------------- MODULE PoolTimerProofs ---------------------------
(***************************************************************************)
(* The pool of blocks, for any number of blocks and threads, and the restart *)
(* timer, for any number of threads and any delays.  Counting threads is the *)
(* hard part of the second: TimerInv adds the types and that the channel   *)
(* exists only while the timer does, and each step is shown to add at most *)
(* the one thread that the bound allows it.                                *)
(***************************************************************************)
EXTENDS FixedPool, Timer, FiniteSetTheorems, TLAPS

-----------------------------------------------------------------------------
(* The pool                                                                *)

PoolType ==
  /\ array \in [Blocks -> Blocks]
  /\ index \in 0 .. MaxBlocks
  /\ hold \in [Threads -> {Nothing} \cup [pc : {"alloc", "free"}, block : Blocks]]
  /\ skbs \subseteq [skb : Blocks, head : Blocks]
  /\ lost \subseteq Blocks

\* The inductive invariant: soundness with the types, which give that Out is finite.
PoolInv == PoolType /\ PoolSound

\* Blocks handed out are blocks, so they are finitely many.
LEMMA OutFinite == PoolType => Out \subseteq Blocks /\ IsFiniteSet(Out)
<1> SUFFICES ASSUME PoolType PROVE Out \subseteq Blocks /\ IsFiniteSet(Out)
  OBVIOUS
<1>1. Out \subseteq Blocks
  <2>1. \A t \in Halves : hold[t].block \in Blocks
    BY DEF PoolType, Halves, Nothing
  <2> QED BY <2>1 DEF PoolType, Out
<1>2. IsFiniteSet(Blocks)
  BY PoolAssumption, FS_Interval DEF Blocks
<1> QED BY <1>1, <1>2, FS_Subset

\* At the start every block is free.
LEMMA InitSound == PoolInit => PoolInv
<1> SUFFICES ASSUME PoolInit PROVE PoolInv
  OBVIOUS
<1>1. PoolType
  BY PoolAssumption DEF PoolInit, PoolType, Blocks
<1>2. Halves = {}
  BY DEF PoolInit, Halves, Nothing
<1>3. Out = {}
  BY <1>2 DEF PoolInit, Out
<1>4. Cardinality(Out) = 0
  BY <1>3, FS_EmptySet
<1>5. \A i, j \in index .. MaxBlocks - 1 : array[i] = array[j] => i = j
  BY PoolAssumption DEF PoolInit, Blocks
<1> QED
  BY <1>1, <1>2, <1>3, <1>4, <1>5, PoolAssumption DEF PoolInit, PoolInv, PoolSound

\* What fixed_malloc hands out was free and is not any more.
LEMMA MallocTakes ==
  ASSUME PoolInv, NEW b \in Blocks, fixed_malloc(b)
  PROVE  /\ b \in Blocks \ Out
         /\ array' \in [Blocks -> Blocks] /\ index' \in 0 .. MaxBlocks
         /\ Free' = Free \ {b}
         /\ \A i, j \in index' .. MaxBlocks - 1 : array'[i] = array'[j] => i = j
         /\ Cardinality(Out \cup {b}) = index'
<1>1. index \in index .. MaxBlocks - 1 /\ array[index] = b /\ index' = index + 1 /\ array' = array
  BY PoolAssumption DEF PoolInv, PoolType, fixed_malloc
<1>2. b \in Free /\ b \notin Out
  BY <1>1 DEF PoolInv, PoolSound, Free
<1>3. index' \in 0 .. MaxBlocks
  BY <1>1, PoolAssumption DEF PoolInv, PoolType
<1>4. \A i, j \in index' .. MaxBlocks - 1 : array'[i] = array'[j] => i = j
  BY <1>1, PoolAssumption DEF PoolInv, PoolSound, PoolType
<1>5. Free' = Free \ {b}
  <2>1. \A i \in index .. MaxBlocks - 1 : i # index => i \in index' .. MaxBlocks - 1
    BY <1>1, PoolAssumption DEF PoolInv, PoolType
  <2>2. \A i \in index' .. MaxBlocks - 1 : i \in index .. MaxBlocks - 1 /\ i # index
    BY <1>1, PoolAssumption DEF PoolInv, PoolType
  <2>3. \A i \in index .. MaxBlocks - 1 : array[i] = b => i = index
    BY <1>1 DEF PoolInv, PoolSound
  <2> QED BY <1>1, <2>1, <2>2, <2>3 DEF Free
<1>6. Cardinality(Out \cup {b}) = index'
  BY <1>1, <1>2, OutFinite, FS_AddElement DEF PoolInv, PoolSound
<1> QED BY <1>1, <1>2, <1>3, <1>4, <1>5, <1>6 DEF PoolInv, PoolType

\* A block that is out can be given back, and is then free.
LEMMA FreeGives ==
  ASSUME PoolInv, NEW b \in Out, fixed_free(b)
  PROVE  /\ array' \in [Blocks -> Blocks] /\ index' \in 0 .. MaxBlocks
         /\ Free' = Free \cup {b}
         /\ \A i, j \in index' .. MaxBlocks - 1 : array'[i] = array'[j] => i = j
         /\ Cardinality(Out \ {b}) = index'
<1>1. IsFiniteSet(Out) /\ b \in Blocks
  BY OutFinite DEF PoolInv
<1>2. Cardinality(Out \ {b}) = index - 1 /\ Cardinality(Out \ {b}) \in Nat
  <2>1. Cardinality(Out \ {b}) = Cardinality(Out) - 1
    BY <1>1, FS_RemoveElement
  <2>2. IsFiniteSet(Out \ {b})
    BY <1>1, FS_RemoveElement
  <2> QED BY <2>1, <2>2, FS_CardinalityType DEF PoolInv, PoolSound
<1>3. index \in 1 .. MaxBlocks /\ index - 1 \in Blocks
  BY <1>2, PoolAssumption DEF PoolInv, PoolType, Blocks
<1>4. /\ index' = index - 1 /\ array' = [array EXCEPT ![index - 1] = b]
  BY DEF fixed_free
<1>5. array' \in [Blocks -> Blocks] /\ index' \in 0 .. MaxBlocks
  BY <1>1, <1>3, <1>4, PoolAssumption DEF PoolInv, PoolType
<1>6. array'[index'] = b /\ \A i \in index .. MaxBlocks - 1 : array'[i] = array[i]
  <2>1. \A i \in index .. MaxBlocks - 1 : i \in Blocks /\ i # index - 1
    BY <1>3, PoolAssumption DEF Blocks
  <2> QED BY <2>1, <1>3, <1>4 DEF PoolInv, PoolType
<1>7. \A i \in index' .. MaxBlocks - 1 : i = index' \/ i \in index .. MaxBlocks - 1
  BY <1>3, <1>4, PoolAssumption
<1>8. index' \in index' .. MaxBlocks - 1 /\ \A i \in index .. MaxBlocks - 1 : i \in index' .. MaxBlocks - 1
  BY <1>3, <1>4, PoolAssumption
<1>9. \A i \in index .. MaxBlocks - 1 : array[i] # b
  BY DEF PoolInv, PoolSound, Free
<1>10. \A i, j \in index' .. MaxBlocks - 1 : array'[i] = array'[j] => i = j
  BY <1>6, <1>7, <1>9 DEF PoolInv, PoolSound
<1>11. Free' = Free \cup {b}
  BY <1>6, <1>7, <1>8 DEF Free
<1> QED BY <1>2, <1>4, <1>5, <1>10, <1>11

\* What a thread holds and what sk_buffs use is out.
LEMMA OutMembers ==
  /\ \A s \in skbs : s.skb \in Out /\ s.head \in Out
  /\ \A t \in Halves : hold[t].block \in Out
  /\ lost \subseteq Out
BY DEF Out

\* One half of alloc_can_skb or kfree_skb.
LEMMA StepSound ==
  ASSUME PoolInv, NEW t \in Threads,
         \/ AllocSkb(t) \/ AllocHead(t) \/ AllocHeadFails(t)
         \/ \E s \in skbs : FreeHead(t, s)
         \/ FreeSkb(t)
  PROVE  PoolInv'
<1> USE DEF PoolInv
<1>0. Nothing.pc = "idle" /\ \A u \in Threads : hold[u].pc = "idle" => hold[u] = Nothing
  BY DEF Nothing, PoolType
<1>1. CASE AllocSkb(t)
  <2>1. PICK b \in Blocks : /\ fixed_malloc(b)
                           /\ hold' = [hold EXCEPT ![t] = [pc |-> "alloc", block |-> b]]
    BY <1>1 DEF AllocSkb
  <2>2. hold[t].pc = "idle" /\ skbs' = skbs /\ lost' = lost
    BY <1>1 DEF AllocSkb
  <2>3. Halves' = Halves \cup {t} /\ t \notin Halves
    BY <2>1, <2>2 DEF Halves, PoolType
  <2>4. hold'[t].block = b /\ \A u \in Halves : hold'[u] = hold[u]
    BY <2>1, <2>3 DEF PoolType, Halves
  <2>5. Out' = Out \cup {b}
    BY <2>2, <2>3, <2>4 DEF Out
  <2>6. PoolType'
    BY <2>1, <2>2, MallocTakes DEF PoolType
  <2>7. b \notin Out /\ Free' \cap Out' = {}
    BY <2>1, <2>5, MallocTakes DEF PoolSound
  <2>8. /\ \A u \in Halves' : /\ \A s \in skbs' : hold'[u].block \notin {s.skb, s.head}
                              /\ hold'[u].block \notin lost'
                              /\ \A v \in Halves' : hold'[u].block = hold'[v].block => u = v
    BY <2>2, <2>3, <2>4, <2>7, OutMembers DEF PoolSound
  <2>9. index' = Cardinality(Out')
    BY <2>1, <2>5, MallocTakes
  <2>10. \A i, j \in index' .. MaxBlocks - 1 : array'[i] = array'[j] => i = j
    BY <2>1, MallocTakes
  <2> QED BY <2>2, <2>6, <2>7, <2>8, <2>9, <2>10 DEF PoolSound, PoolType
<1>2. CASE AllocHead(t)
  <2>1. PICK b \in Blocks : /\ fixed_malloc(b)
                           /\ skbs' = skbs \cup {[skb |-> hold[t].block, head |-> b]}
    BY <1>2 DEF AllocHead
  <2> DEFINE a == hold[t].block
             n == [skb |-> a, head |-> b]
  <2>2. hold[t].pc = "alloc" /\ hold' = [hold EXCEPT ![t] = Nothing] /\ lost' = lost
    BY <1>2 DEF AllocHead
  <2>3. Halves = Halves' \cup {t} /\ t \notin Halves' /\ a \in Blocks
    BY <1>0, <2>2 DEF Halves, PoolType, Nothing
  <2>4. \A u \in Halves' : hold'[u] = hold[u]
    BY <2>2, <2>3 DEF PoolType, Halves
  <2>5. a \in Out /\ b \notin Out /\ n.skb = a /\ n.head = b
    BY <2>1, <2>3, MallocTakes, OutMembers
  <2>6. Out' = Out \cup {b}
    <3>1. n \in skbs' /\ a \in Out' /\ b \in Out'
      BY <2>1, <2>5 DEF Out
    <3>2. \A x \in Out : x # a => x \in Out'
      BY <2>1, <2>2, <2>3, <2>4 DEF Out
    <3>3. \A x \in Out' : \/ \E r \in skbs' : x = r.skb \/ x = r.head
                          \/ \E u \in Halves' : x = hold'[u].block
                          \/ x \in lost'
      BY DEF Out
    <3>4. \A r \in skbs' : r = n \/ r \in skbs
      BY <2>1
    <3>5. \A x \in Out' : x \in Out \/ x = b
      BY <3>3, <3>4, <2>2, <2>3, <2>4, <2>5, OutMembers
    <3> QED BY <3>1, <3>2, <3>5
  <2>7. PoolType'
    <3>1. n \in [skb : Blocks, head : Blocks]
      BY <2>3
    <3>2. skbs' \subseteq [skb : Blocks, head : Blocks]
      BY <2>1, <3>1 DEF PoolType
    <3>3. hold' \in [Threads -> {Nothing} \cup [pc : {"alloc", "free"}, block : Blocks]]
      BY <2>2 DEF PoolType
    <3>4. array' \in [Blocks -> Blocks] /\ index' \in 0 .. MaxBlocks
      BY <2>1, MallocTakes
    <3> QED BY <2>2, <3>2, <3>3, <3>4 DEF PoolType
  <2>8. Free' \cap Out' = {}
    BY <2>1, <2>6, MallocTakes DEF PoolSound
  <2>9. \A s \in skbs : a \notin {s.skb, s.head} /\ b \notin {s.skb, s.head}
    BY <2>3, <2>5, OutMembers DEF PoolSound
  <2>10. a \notin lost /\ b \notin lost
    BY <2>3, <2>5, OutMembers DEF PoolSound
  <2>11. \A s \in skbs' : s = n \/ s \in skbs
    BY <2>1
  <2>12. /\ \A s \in skbs' : s.skb # s.head
         /\ \A s \in skbs' : {s.skb, s.head} \cap lost' = {}
    BY <2>2, <2>5, <2>10, <2>11 DEF PoolSound
  <2>13. \A s, r \in skbs' : s # r => {s.skb, s.head} \cap {r.skb, r.head} = {}
    BY <2>5, <2>9, <2>11 DEF PoolSound
  <2>14. \A u \in Halves' : hold[u].block # a /\ hold[u].block # b
    BY <2>3, <2>5, OutMembers DEF PoolSound
  <2>15. /\ \A u \in Halves' : /\ \A s \in skbs' : hold'[u].block \notin {s.skb, s.head}
                               /\ hold'[u].block \notin lost'
                               /\ \A v \in Halves' : hold'[u].block = hold'[v].block => u = v
    BY <2>2, <2>3, <2>4, <2>5, <2>11, <2>14 DEF PoolSound
  <2>16. index' = Cardinality(Out')
    BY <2>1, <2>6, MallocTakes
  <2>17. \A i, j \in index' .. MaxBlocks - 1 : array'[i] = array'[j] => i = j
    BY <2>1, MallocTakes
  <2> QED BY <2>7, <2>8, <2>12, <2>13, <2>15, <2>16, <2>17 DEF PoolSound, PoolType
<1>3. CASE AllocHeadFails(t)
  <2> DEFINE a == hold[t].block
  <2>2. /\ hold[t].pc = "alloc" /\ hold' = [hold EXCEPT ![t] = Nothing]
        /\ lost' = lost \cup {a} /\ skbs' = skbs /\ array' = array /\ index' = index
    BY <1>3 DEF AllocHeadFails, pool
  <2>3. Halves = Halves' \cup {t} /\ t \notin Halves' /\ a \in Blocks
    BY <1>0, <2>2 DEF Halves, PoolType, Nothing
  <2>4. \A u \in Halves' : hold'[u] = hold[u]
    BY <2>2, <2>3 DEF PoolType, Halves
  <2>5. Out' = Out
    BY <2>2, <2>3, <2>4 DEF Out
  <2>6. Free' = Free
    BY <2>2 DEF Free
  <2>7. PoolType'
    BY <2>2, <2>3 DEF PoolType
  <2>8. \A s \in skbs : {s.skb, s.head} \cap lost' = {}
    BY <2>2, <2>3 DEF PoolSound
  <2>9. \A u \in Halves' : hold'[u].block \notin lost'
    BY <2>2, <2>3, <2>4 DEF PoolSound
  <2> QED BY <2>2, <2>3, <2>4, <2>5, <2>6, <2>7, <2>8, <2>9 DEF PoolSound
<1>4. ASSUME NEW s \in skbs, FreeHead(t, s) PROVE PoolInv'
  <2>1. /\ hold[t].pc = "idle" /\ fixed_free(s.head) /\ skbs' = skbs \ {s}
        /\ hold' = [hold EXCEPT ![t] = [pc |-> "free", block |-> s.skb]] /\ lost' = lost
    BY <1>4 DEF FreeHead
  <2>2. s.head \in Out /\ s.skb \in Out /\ s.skb # s.head /\ s.skb \in Blocks
    BY OutMembers DEF PoolSound, PoolType
  <2>3. Halves' = Halves \cup {t} /\ t \notin Halves
    BY <2>1 DEF Halves, PoolType
  <2>4. hold'[t].block = s.skb /\ \A u \in Halves : hold'[u] = hold[u]
    BY <2>1, <2>3 DEF PoolType, Halves
  <2>5. /\ \A r \in skbs' : r.skb # s.head /\ r.head # s.head /\ r.skb # s.skb /\ r.head # s.skb
        /\ \A u \in Halves : hold[u].block # s.head /\ hold[u].block # s.skb
        /\ s.head \notin lost /\ s.skb \notin lost
    BY <2>1 DEF PoolSound
  <2>6. Out' = Out \ {s.head}
    <3>1. \A x \in Out : \/ \E r \in skbs : x = r.skb \/ x = r.head
                         \/ \E u \in Halves : x = hold[u].block
                         \/ x \in lost
      BY DEF Out
    <3>2. \A x \in Out' : \/ \E r \in skbs' : x = r.skb \/ x = r.head
                          \/ \E u \in Halves' : x = hold'[u].block
                          \/ x \in lost'
      BY DEF Out
    <3>3. \A x \in Out : x # s.head => x \in Out'
      BY <3>1, <2>1, <2>3, <2>4 DEF Out
    <3>4. \A x \in Out' : x \in Out /\ x # s.head
      BY <3>2, <2>1, <2>2, <2>3, <2>4, <2>5 DEF Out
    <3> QED BY <3>3, <3>4
  <2>7. PoolType'
    BY <2>1, <2>2, FreeGives DEF PoolType
  <2>8. Free' \cap Out' = {}
    BY <2>1, <2>2, <2>6, FreeGives DEF PoolSound
  <2>9. /\ \A u \in Halves' : /\ \A r \in skbs' : hold'[u].block \notin {r.skb, r.head}
                              /\ hold'[u].block \notin lost'
                              /\ \A v \in Halves' : hold'[u].block = hold'[v].block => u = v
    <3>1. \A u \in Halves : /\ \A r \in skbs' : hold[u].block \notin {r.skb, r.head}
                           /\ hold[u].block \notin lost'
                           /\ \A v \in Halves : hold[u].block = hold[v].block => u = v
      BY <2>1 DEF PoolSound
    <3>2. /\ \A r \in skbs' : s.skb \notin {r.skb, r.head}
          /\ s.skb \notin lost' /\ \A v \in Halves : hold[v].block # s.skb
      BY <2>1, <2>5
    <3> QED BY ONLY <2>3, <2>4, <3>1, <3>2
  <2>10. index' = Cardinality(Out')
    BY <2>1, <2>2, <2>6, FreeGives
  <2>11. \A i, j \in index' .. MaxBlocks - 1 : array'[i] = array'[j] => i = j
    BY <2>1, <2>2, FreeGives
  <2>12. /\ \A r \in skbs' : r.skb # r.head /\ {r.skb, r.head} \cap lost' = {}
         /\ \A q, r \in skbs' : q # r => {q.skb, q.head} \cap {r.skb, r.head} = {}
    BY <2>1 DEF PoolSound
  <2> QED BY <2>7, <2>8, <2>9, <2>10, <2>11, <2>12 DEF PoolSound, PoolType
<1>5. CASE FreeSkb(t)
  <2> DEFINE a == hold[t].block
  <2>1. /\ hold[t].pc = "free" /\ fixed_free(a) /\ skbs' = skbs /\ lost' = lost
        /\ hold' = [hold EXCEPT ![t] = Nothing]
    BY <1>5 DEF FreeSkb
  <2>2. Halves = Halves' \cup {t} /\ t \notin Halves' /\ t \in Halves
    BY <1>0, <2>1 DEF Halves, PoolType, Nothing
  <2>3. \A u \in Halves' : hold'[u] = hold[u]
    BY <2>1, <2>2 DEF PoolType, Halves
  <2>4. a \in Out
    BY <2>2, OutMembers
  <2>5. /\ \A r \in skbs : r.skb # a /\ r.head # a
        /\ \A u \in Halves' : hold[u].block # a
        /\ a \notin lost
    BY <2>2 DEF PoolSound
  <2>6. Out' = Out \ {a}
    <3>1. \A x \in Out : x # a => x \in Out'
      BY <2>1, <2>2, <2>3 DEF Out
    <3>2. \A x \in Out' : x \in Out /\ x # a
      BY <2>1, <2>2, <2>3, <2>5 DEF Out
    <3> QED BY <3>1, <3>2
  <2>7. PoolType'
    BY <2>1, <2>4, FreeGives DEF PoolType
  <2>8. Free' \cap Out' = {}
    BY <2>1, <2>4, <2>6, FreeGives DEF PoolSound
  <2>9. index' = Cardinality(Out')
    BY <2>1, <2>4, <2>6, FreeGives
  <2>10. \A i, j \in index' .. MaxBlocks - 1 : array'[i] = array'[j] => i = j
    BY <2>1, <2>4, FreeGives
  <2>11. /\ \A u \in Halves' : /\ \A r \in skbs' : hold'[u].block \notin {r.skb, r.head}
                               /\ hold'[u].block \notin lost'
                               /\ \A v \in Halves' : hold'[u].block = hold'[v].block => u = v
    <3>1. \A u \in Halves : /\ \A r \in skbs : hold[u].block \notin {r.skb, r.head}
                           /\ hold[u].block \notin lost
                           /\ \A v \in Halves : hold[u].block = hold[v].block => u = v
      BY DEF PoolSound
    <3> QED BY ONLY <2>1, <2>2, <2>3, <3>1
  <2> QED BY <2>1, <2>7, <2>8, <2>9, <2>10, <2>11 DEF PoolSound, PoolType
<1> QED BY <1>1, <1>2, <1>3, <1>4, <1>5

\* In every behaviour of any number of threads on a pool of any size, fixed_malloc never
\* hands out a block that is in use, and fixed_free never runs below the array.
THEOREM PoolAlwaysSound == PoolSpec => []PoolSound
<1>1. PoolInv /\ [PoolNext]_poolVars => PoolInv'
  <2> SUFFICES ASSUME PoolInv, [PoolNext]_poolVars PROVE PoolInv'
    OBVIOUS
  <2>1. CASE PoolNext
    BY <2>1, StepSound DEF PoolNext
  <2>2. CASE UNCHANGED poolVars
    <3>1. PoolType'
      BY <2>2 DEF poolVars, PoolInv, PoolType
    <3>2. Free' = Free /\ Halves' = Halves /\ Out' = Out
      BY <2>2 DEF poolVars, Free, Halves, Out
    <3>3. PoolSound'
      BY <2>2, <3>2 DEF poolVars, PoolInv, PoolSound
    <3> QED BY <3>1, <3>3 DEF PoolInv
  <2> QED BY <2>1, <2>2
<1> QED BY <1>1, InitSound, PTL DEF PoolSpec, PoolInv

-----------------------------------------------------------------------------
(* The restart timer                                                       *)

Pcs == {"none", "turn", "blocked", "callback", "returning", "ended"}

TimerType ==
  /\ created \in BOOLEAN /\ chan \in BOOLEAN /\ armed \in BOOLEAN
  /\ pulses \in Seq({"trigger"})
  /\ loops \in [Loops -> Pcs]
  /\ off \in Nat /\ caught \in Nat

\* The inductive invariant.
TimerInv == TimerType /\ TimerSound

\* The threads alive are finitely many, now and in the next state.
LEMMA AliveFinite == IsFiniteSet(Alive) /\ IsFiniteSet(Alive')
<1>1. Alive \subseteq Loops /\ Alive' \subseteq Loops
  BY DEF Alive, In
<1>2. IsFiniteSet(Loops)
  BY TimerAssumption
<1> QED
  BY <1>1, <1>2, FS_Subset

\* A destroyed or a new channel has no pulses.
LEMMA NoPulses == <<>> \in Seq({"trigger"})
OBVIOUS

\* setup_timer makes the one thread.
LEMMA TimerInitSound == TimerInit => TimerInv
<1> SUFFICES ASSUME TimerInit PROVE TimerInv
  OBVIOUS
<1>1. /\ FirstLoop \in Loops
      /\ loops = [t \in Loops |-> IF t = FirstLoop THEN "turn" ELSE "none"]
  BY TimerAssumption DEF TimerInit, FirstLoop
<1>2. Alive = {FirstLoop}
  BY <1>1 DEF Alive, In
<1>3. Cardinality(Alive) = 1
  BY <1>2, FS_Singleton
<1>4. TimerType
  <2>1. loops \in [Loops -> Pcs]
    BY <1>1 DEF Pcs
  <2>2. pulses \in Seq({"trigger"})
    BY NoPulses DEF TimerInit
  <2> QED
    BY <2>1, <2>2 DEF TimerInit, TimerType
<1>5. TimerSound
  BY <1>1, <1>2, <1>3 DEF TimerInit, TimerSound, Pending, In
<1> QED
  BY <1>4, <1>5 DEF TimerInv

\* A delay below a second is taken as it is, and is not zero.
LEMMA ShortDelay ==
  ASSUME NEW ms \in 1 .. 999
  PROVE  Nanoseconds(ms) \in Int /\ 0 < Nanoseconds(ms) /\ Nanoseconds(ms) < 1000000000
BY SMT DEF Nanoseconds

\* can_bus_off: a thread is added only with the timer.
LEMMA BusOffSound ==
  ASSUME TimerInv, NEW ms \in Delays, BusOff(ms)
  PROVE  TimerInv'
<1> USE DEF TimerInv, BusOff, schedule_delayed_work
<1>1. ms \in Nat \ {0} /\ (ms < 1000 => ms \in 1 .. 999)
  <2>1. ms \in Nat \ {0}
    BY TimerAssumption
  <2> QED
    BY <2>1, SMT
<1>2. armed' \in BOOLEAN
  BY DEF TimerType
<1>3. ms < 1000 => armed'
  <2>1. armed' = (IF Taken(Nanoseconds(ms)) THEN Nanoseconds(ms) # 0 ELSE armed)
    OBVIOUS
  <2>2. ms < 1000 => Taken(Nanoseconds(ms)) /\ Nanoseconds(ms) # 0
    <3> SUFFICES ASSUME ms < 1000 PROVE Taken(Nanoseconds(ms)) /\ Nanoseconds(ms) # 0
      OBVIOUS
    <3>1. ms \in 1 .. 999
      BY ONLY <1>1, ms < 1000, SMT
    <3>2. Nanoseconds(ms) \in Int /\ 0 < Nanoseconds(ms) /\ Nanoseconds(ms) < 1000000000
      BY ONLY <3>1, ShortDelay, SMT
    <3> QED
      BY ONLY <3>2, SMT DEF Taken
  <2> HIDE DEF TimerInv, BusOff, schedule_delayed_work
  <2> QED
    BY ONLY <2>1, <2>2, Zenon
<1>4. CASE created
  <2>1. loops' = loops /\ pulses' = pulses /\ chan' = chan /\ created' = created
    BY <1>4 DEF create
  <2>2. TimerType'
    BY <1>1, <1>2, <2>1 DEF TimerType
  <2>3. Alive' = Alive /\ In("blocked")' = In("blocked") /\ In("callback")' = In("callback")
    BY <2>1 DEF Alive, In
  <2>4. TimerSound'
    BY <1>1, <1>3, <1>4, <2>1, <2>3 DEF TimerSound, Pending
  <2> QED
    BY <2>2, <2>4
<1>5. CASE ~created
  <2>1. PICK t \in In("none") : loops' = [loops EXCEPT ![t] = "turn"]
    BY <1>5 DEF create
  <2>2. chan' = TRUE /\ pulses' = <<>> /\ created' = TRUE
    BY <1>5 DEF create
  <2>3. TimerType'
    <3>1. loops' \in [Loops -> Pcs]
      BY <2>1 DEF TimerType, Pcs, In
    <3>2. pulses' \in Seq({"trigger"})
      BY <2>2, NoPulses
    <3> QED
      BY <1>1, <1>2, <2>2, <3>1, <3>2 DEF TimerType
  <2>4. Alive' = Alive \cup {t} /\ t \notin Alive
    BY <2>1 DEF Alive, In, TimerType
  <2>5. Cardinality(Alive') = Cardinality(Alive) + 1
    BY <2>4, AliveFinite, FS_AddElement
  <2>6. Cardinality(Alive') <= caught' + 1
    BY <1>5, <2>5, AliveFinite, FS_CardinalityType DEF TimerSound, TimerType
  <2>7. TimerSound'
    BY <1>1, <1>3, <2>2, <2>4, <2>6 DEF TimerSound, Pending
  <2> QED
    BY <2>3, <2>7
<1> QED
  BY <1>4, <1>5

\* destroy ends a thread that is blocked, or is counted.
LEMMA DestroySound ==
  ASSUME TimerInv, cancel_delayed_work_sync
  PROVE  TimerInv'
<1> USE DEF TimerInv, cancel_delayed_work_sync, destroy
<1>1. CASE \E t \in In("blocked") :
             loops' = [u \in Loops |-> IF u = t THEN "ended"
                                       ELSE IF loops[u] = "blocked" THEN "turn" ELSE loops[u]]
           /\ UNCHANGED caught
  <2>1. PICK t \in In("blocked") :
          loops' = [u \in Loops |-> IF u = t THEN "ended"
                                    ELSE IF loops[u] = "blocked" THEN "turn" ELSE loops[u]]
    BY <1>1
  <2>2. TimerType'
    <3>1. loops' \in [Loops -> Pcs]
      BY <2>1 DEF TimerType, Pcs
    <3>2. pulses' \in Seq({"trigger"})
      BY NoPulses
    <3> QED
      BY <1>1, <3>1, <3>2 DEF TimerType
  <2>3. Alive' = Alive \ {t} /\ t \in Alive
    BY <2>1 DEF Alive, In, TimerType
  <2>4. Cardinality(Alive') = Cardinality(Alive) - 1
    BY <2>3, AliveFinite, FS_RemoveElement
  <2>5. Cardinality(Alive') <= caught'
    BY <1>1, <2>4, AliveFinite, FS_CardinalityType DEF TimerSound, TimerType
  <2>6. In("blocked")' = {}
    BY <2>1 DEF In
  <2>7. TimerSound'
    BY <2>5, <2>6, AliveFinite, FS_CardinalityType DEF TimerSound, Pending, TimerType
  <2> QED
    BY <2>2, <2>7
<1>2. CASE In("blocked") = {} /\ caught' = caught + 1 /\ UNCHANGED loops
  <2>1. TimerType'
    <3>1. pulses' \in Seq({"trigger"})
      BY NoPulses
    <3>2. caught' \in Nat
      BY <1>2 DEF TimerType
    <3> QED
      BY <1>2, <3>1, <3>2 DEF TimerType
  <2>2. Alive' = Alive /\ In("blocked")' = {}
    BY <1>2 DEF Alive, In
  <2>3. Cardinality(Alive') <= caught'
    BY <1>2, <2>2, AliveFinite, FS_CardinalityType DEF TimerSound, TimerType
  <2>4. TimerSound'
    BY <2>2, <2>3, AliveFinite, FS_CardinalityType DEF TimerSound, Pending, TimerType
  <2> QED
    BY <2>1, <2>4
<1> QED
  BY <1>1, <1>2

\* A thread that goes on stays alive.
LEMMA AliveSame ==
  ASSUME TimerType, NEW t \in Alive, NEW pc \in {"turn", "blocked", "callback", "returning"},
         loops' = [loops EXCEPT ![t] = pc]
  PROVE  Alive' = Alive /\ loops' \in [Loops -> Pcs]
BY DEF TimerType, Alive, In, Pcs

\* The timer expires: its pulse is queued or taken.
LEMMA ExpireSound ==
  ASSUME TimerInv, Expire
  PROVE  TimerInv'
<1> USE DEF TimerInv, Expire
<1>1. CASE \E t \in In("blocked") : loops' = [loops EXCEPT ![t] = "callback"] /\ UNCHANGED pulses
  <2>1. PICK t \in In("blocked") : loops' = [loops EXCEPT ![t] = "callback"] /\ UNCHANGED pulses
    BY <1>1
  <2>2. t \in Alive
    BY DEF Alive
  <2>3. Alive' = Alive /\ loops' \in [Loops -> Pcs]
    BY <2>1, <2>2, AliveSame
  <2>4. TimerType'
    BY <2>1, <2>3 DEF TimerType
  <2>5. In("callback")' # {} /\ In("blocked")' \subseteq In("blocked")
    BY <2>1 DEF In, TimerType
  <2>6. TimerSound'
    BY <2>1, <2>3, <2>5 DEF TimerSound, Pending
  <2> QED
    BY <2>4, <2>6
<1>2. CASE In("blocked") = {} /\ pulses' = Append(pulses, "trigger") /\ UNCHANGED loops
  <2>1. pulses' \in Seq({"trigger"}) /\ pulses' # <<>>
    BY <1>2 DEF TimerType
  <2>2. TimerType'
    BY <1>2, <2>1 DEF TimerType
  <2>3. Alive' = Alive /\ In("blocked")' = In("blocked")
    BY <1>2 DEF Alive, In
  <2>4. TimerSound'
    BY <1>2, <2>1, <2>3 DEF TimerSound, Pending
  <2> QED
    BY <2>2, <2>4
<1> QED
  BY <1>1, <1>2

\* A turn of timer_loop.
LEMMA ReceiveSound ==
  ASSUME TimerInv, NEW t \in Loops, Receive(t)
  PROVE  TimerInv'
<1> USE DEF TimerInv, Receive
<1>1. t \in Alive
  BY DEF Alive, In
<1>2. CASE pulses = <<>> /\ loops' = [loops EXCEPT ![t] = "blocked"] /\ UNCHANGED pulses
  <2>1. Alive' = Alive /\ loops' \in [Loops -> Pcs]
    BY <1>1, <1>2, AliveSame
  <2>2. TimerType'
    BY <1>2, <2>1 DEF TimerType
  <2>3. In("callback")' = In("callback")
    BY <1>2 DEF In, TimerType
  <2>4. TimerSound'
    BY <1>2, <2>1, <2>3 DEF TimerSound, Pending
  <2> QED
    BY <2>2, <2>4
<1>3. CASE pulses # <<>> /\ pulses' = Tail(pulses) /\ loops' = [loops EXCEPT ![t] = "callback"]
  <2>1. Alive' = Alive /\ loops' \in [Loops -> Pcs]
    BY <1>1, <1>3, AliveSame
  <2>2. pulses' \in Seq({"trigger"})
    BY <1>3 DEF TimerType
  <2>3. TimerType'
    BY <1>3, <2>1, <2>2 DEF TimerType
  <2>4. In("callback")' # {}
    BY <1>3 DEF In, TimerType
  <2>5. In("blocked") = {}
    BY <1>3 DEF TimerSound
  <2>6. In("blocked")' = {}
    BY <1>3, <2>5 DEF In, TimerType
  <2>7. TimerSound'
    BY <1>3, <2>1, <2>4, <2>6 DEF TimerSound, Pending
  <2> QED
    BY <2>3, <2>7
<1> QED
  BY <1>2, <1>3

\* The callback restarts the device and returns.
LEMMA CallbackSound ==
  ASSUME TimerInv, NEW t \in Loops, Restart(t) \/ CallbackReturns(t)
  PROVE  TimerInv'
<1> USE DEF TimerInv
<1>1. t \in Alive
  BY DEF Alive, In, Restart, CallbackReturns
<1>2. Alive' = Alive /\ loops' \in [Loops -> Pcs]
  BY <1>1, AliveSame DEF Restart, CallbackReturns
<1>3. TimerType'
  BY <1>2 DEF TimerType, Restart, CallbackReturns
<1>4. In("blocked")' = In("blocked")
  BY DEF In, TimerType, Restart, CallbackReturns
<1>5. CASE Restart(t)
  BY <1>2, <1>3, <1>4, <1>5 DEF TimerSound, Pending, Restart
<1>6. CASE CallbackReturns(t)
  <2>1. In("callback")' = In("callback")
    BY <1>6 DEF In, TimerType, CallbackReturns
  <2> QED
    BY <1>2, <1>3, <1>4, <1>6, <2>1 DEF TimerSound, Pending, CallbackReturns
<1> QED
  BY <1>5, <1>6

\* A stuttering step.
LEMMA TimerStutters ==
  ASSUME TimerInv, UNCHANGED timerVars
  PROVE  TimerInv'
BY DEF TimerInv, TimerType, TimerSound, Pending, Alive, In, timerVars

\* However often the restart timer of timer.c is scheduled, expires and is destroyed, and
\* whatever its threads do in between: no restart with a delay below a second is lost, none
\* is left pending by a cancel, and at most one thread is left over for each destroy that
\* met no thread in MsgReceive.
THEOREM TimerAlwaysSound == TimerSpec => []TimerSound
<1>1. TimerInit => TimerInv
  BY TimerInitSound
<1>2. TimerInv /\ [TimerNext]_timerVars => TimerInv'
  BY BusOffSound, DestroySound, ExpireSound, ReceiveSound, CallbackSound, TimerStutters
  DEF TimerNext
<1>3. TimerInv => TimerSound
  BY DEF TimerInv
<1> QED
  BY <1>1, <1>2, <1>3, PTL DEF TimerSpec
=============================================================================
