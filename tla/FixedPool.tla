------------------------------ MODULE FixedPool -------------------------------
(***************************************************************************)
(* The pool of memory blocks (fixed.c) and the sk_buffs made of two blocks *)
(* each (skb.c, skbuff.h).  Every thread allocates and frees sk_buffs, and *)
(* may free one that another allocated: an echo is allocated by the        *)
(* transmit thread and freed by the IRQ or the timer thread.  Each call of *)
(* fixed_malloc and fixed_free is one step, under FixedArrayMutex.         *)
(***************************************************************************)
EXTENDS Integers, FiniteSets

CONSTANTS MaxBlocks,   \* FIXED_MAX_NUM_BLOCKS
          Threads

ASSUME PoolAssumption == MaxBlocks \in Nat \ {0}

VARIABLES
  array,   \* FixedArray
  index,   \* FixedArrayIndex: the entries from here on are free
  hold,    \* thread -> [pc, block]: between the two halves of alloc_can_skb or kfree_skb
  skbs,    \* the sk_buffs in use: [skb, head], the block of each and the one behind head
  lost     \* history: blocks that were allocated and are held by nobody

pool == <<array, index>>
poolVars == <<array, index, hold, skbs, lost>>

\* The blocks, numbered as fixed_memory_init gets them from malloc.
Blocks == 0 .. MaxBlocks - 1
Nothing == [pc |-> "idle", block |-> -1]

\* fixed_memory_init
PoolInit ==
  /\ array = [i \in Blocks |-> i] /\ index = 0
  /\ hold = [t \in Threads |-> Nothing] /\ skbs = {} /\ lost = {}

Exhausted == index = MaxBlocks

fixed_malloc(b) ==
  /\ index < MaxBlocks /\ b = array[index]
  /\ index' = index + 1 /\ UNCHANGED array

\* Mutant: the index is decremented after it was used.
fixed_free_late(b) ==
  /\ array' = [array EXCEPT ![IF index < MaxBlocks THEN index ELSE 0] = b]
  /\ index' = index - 1

fixed_free(b) ==
  /\ array' = [array EXCEPT ![index - 1] = b]
  /\ index' = index - 1

-----------------------------------------------------------------------------

\* alloc_can_skb: the block of the sk_buff; NULL is returned if there is none.
AllocSkb(t) ==
  /\ hold[t].pc = "idle"
  /\ \E b \in Blocks : /\ fixed_malloc(b)
                       /\ hold' = [hold EXCEPT ![t] = [pc |-> "alloc", block |-> b]]
  /\ UNCHANGED <<skbs, lost>>

\* alloc_can_skb: the block of the data.
AllocHead(t) ==
  /\ hold[t].pc = "alloc"
  /\ \E b \in Blocks : /\ fixed_malloc(b)
                       /\ skbs' = skbs \cup {[skb |-> hold[t].block, head |-> b]}
  /\ hold' = [hold EXCEPT ![t] = Nothing]
  /\ UNCHANGED lost

\* There is none: NULL is returned, and the first block is not given back.
AllocHeadFails(t) ==
  /\ hold[t].pc = "alloc" /\ Exhausted
  /\ lost' = lost \cup {hold[t].block}
  /\ hold' = [hold EXCEPT ![t] = Nothing]
  /\ UNCHANGED <<pool, skbs>>

\* kfree_skb: the data first.
FreeHead(t, s) ==
  /\ hold[t].pc = "idle" /\ s \in skbs
  /\ fixed_free(s.head)
  /\ skbs' = skbs \ {s}
  /\ hold' = [hold EXCEPT ![t] = [pc |-> "free", block |-> s.skb]]
  /\ UNCHANGED lost

FreeSkb(t) ==
  /\ hold[t].pc = "free"
  /\ fixed_free(hold[t].block)
  /\ hold' = [hold EXCEPT ![t] = Nothing]
  /\ UNCHANGED <<skbs, lost>>

PoolNext ==
  \E t \in Threads :
    \/ AllocSkb(t) \/ AllocHead(t) \/ AllocHeadFails(t)
    \/ \E s \in skbs : FreeHead(t, s)
    \/ FreeSkb(t)

PoolSpec == PoolInit /\ [][PoolNext]_poolVars

-----------------------------------------------------------------------------

Free == {array[i] : i \in index .. MaxBlocks - 1}
Halves == {t \in Threads : hold[t].pc # "idle"}

\* The blocks that were handed out and not given back.
Out == {s.skb : s \in skbs} \cup {s.head : s \in skbs} \cup {hold[t].block : t \in Halves} \cup lost

\* No block is in use twice, by two sk_buffs, by two threads or by a thread and the
\* pool: the free entries of FixedArray are different blocks that nobody uses, and what
\* is in use or was lost is disjoint.  FixedArrayIndex is the number of blocks handed out,
\* so no free runs below the array.  It rests on every sk_buff being freed once, and on
\* the order of index and entry in fixed_malloc and fixed_free.
PoolSound ==
  /\ index \in 0 .. MaxBlocks /\ index = Cardinality(Out)
  /\ \A i, j \in index .. MaxBlocks - 1 : array[i] = array[j] => i = j
  /\ Free \cap Out = {}
  /\ \A s \in skbs : s.skb # s.head
  /\ \A s, r \in skbs : s # r => {s.skb, s.head} \cap {r.skb, r.head} = {}
  /\ \A t \in Halves : /\ \A s \in skbs : hold[t].block \notin {s.skb, s.head}
                       /\ hold[t].block \notin lost
                       /\ \A u \in Halves : hold[t].block = hold[u].block => t = u
  /\ \A s \in skbs : {s.skb, s.head} \cap lost = {}
=============================================================================
