------------------------------- MODULE CanQueue -------------------------------
(***************************************************************************)
(* One queue_t and the threads that share it (queue.c, queue.h).           *)
(*                                                                         *)
(*   producers  enqueue: resource-manager threads on the tx_queue of a     *)
(*              device, the IRQ thread on the rx_queue of a client         *)
(*   "reader"   the one thread that blocks: netif_tx in dequeue on a       *)
(*              tx_queue, rx_loop in dequeue_peek on an rx_queue           *)
(*   pollers    dequeue_noblock and dequeue_peek_noblock: resource-manager *)
(*              threads serving reads                                      *)
(*   "owner"    destroy_queue                                              *)
(*                                                                         *)
(* A section under Q->mutex is one step.  The test of session_up that      *)
(* precedes every lock is a step of its own, and so is the use of the      *)
(* message after the unlock: the dequeues return a pointer into the ring.  *)
(***************************************************************************)
EXTENDS CanRing

CONSTANTS Producers,
          Pollers,
          ReaderOp,      \* "dequeue" or "dequeue_peek"
          LatencyLimit,  \* whether the callers pass a latency limit
          MayDestroy     \* whether the queue is destroyed while in use

Threads == Producers \cup Pollers \cup {"reader", "owner"}

ASSUME ThreadsAssumption ==
  /\ {"reader", "owner"} \cap (Producers \cup Pollers) = {}
  /\ Producers \cap Pollers = {}
  /\ ReaderOp \in {"dequeue", "dequeue_peek"}
  /\ LatencyLimit \in BOOLEAN
  /\ MayDestroy \in BOOLEAN

VARIABLES session_up, dequeue_waiting, stopped,
          destroyed,  \* the mutex, the condition and the data are gone
          cond,       \* the threads asleep in pthread_cond_wait
          pc,
          ptr         \* the slot a returned pointer points to, and the
                      \* message it was returned for

syncVars == <<session_up, dequeue_waiting, stopped, destroyed, cond>>
vars == <<ringVars, syncVars, pc, ptr>>

NoPtr == [slot |-> 0, msg |-> 0]

Init ==
  /\ RingInit
  /\ session_up = TRUE
  /\ dequeue_waiting = FALSE
  /\ stopped = FALSE
  /\ destroyed = FALSE
  /\ cond = {}
  /\ pc = [t \in Threads |-> "idle"]
  /\ ptr = [t \in Threads |-> NoPtr]

-----------------------------------------------------------------------------

Goto(t, label) == pc' = [pc EXCEPT ![t] = label]

\* pthread_cond_signal: one sleeper, if there is one, goes on to reacquire
\* the mutex.
Signal ==
  \/ cond = {} /\ UNCHANGED cond
  \/ \E t \in cond : cond' = cond \ {t}

\* POSIX lets pthread_cond_wait return without a signal.
SpuriousWakeup ==
  /\ \E t \in cond : cond' = cond \ {t}
  /\ UNCHANGED <<ringVars, session_up, dequeue_waiting, stopped, destroyed, pc, ptr>>

\* The test at the top of enqueue and of the dequeues, made without the lock.
\* A reader that finds the session down leaves its loop for good.
CheckSession(t) ==
  /\ t # "owner"
  /\ pc[t] = "idle"
  /\ Goto(t, IF session_up THEN "lock" ELSE IF t = "reader" THEN "done" ELSE "idle")
  /\ UNCHANGED <<ringVars, syncVars, ptr>>

\* The memory behind Q is no longer a queue when the lock is taken.
LockDestroyed(t) ==
  /\ t # "owner"
  /\ pc[t] = "lock" \/ (pc[t] = "wait" /\ t \notin cond)
  /\ destroyed
  /\ Goto(t, "fault")
  /\ UNCHANGED <<ringVars, syncVars, ptr>>

\* Mutant: enqueue does not signal.
EnqueueWithoutSignal(t) ==
  /\ t \in Producers
  /\ pc[t] = "lock" /\ ~destroyed
  /\ Store
  /\ Goto(t, "idle")
  /\ UNCHANGED <<cond, session_up, dequeue_waiting, stopped, destroyed, ptr>>

\* enqueue on a queue that can store.
Enqueue(t) ==
  /\ t \in Producers
  /\ pc[t] = "lock" /\ ~destroyed
  /\ Store
  /\ Signal
  /\ Goto(t, "idle")
  /\ UNCHANGED <<session_up, dequeue_waiting, stopped, destroyed, ptr>>

\* enqueue on a queue of size 0: EDOM, and the reader is forced awake.
EnqueueZeroSize(t) ==
  /\ t \in Producers
  /\ pc[t] = "lock" /\ ~destroyed
  /\ size = 0
  /\ dequeue_waiting' = FALSE
  /\ Signal
  /\ Goto(t, "idle")
  /\ UNCHANGED <<ringVars, session_up, stopped, destroyed, ptr>>

\* The caller gets a pointer to the oldest message.
ReturnHead(t) ==
  /\ ptr' = [ptr EXCEPT ![t] = [slot |-> begin, msg |-> data[begin]]]
  /\ Goto(t, "use")

\* The caller is done with the message.
Use(t) ==
  /\ pc[t] = "use"
  /\ Goto(t, "idle")
  /\ ptr' = [ptr EXCEPT ![t] = NoPtr]
  /\ IF t = "reader" /\ ReaderOp = "dequeue"
     THEN stopped' \in {stopped, TRUE}   \* start_xmit calls netif_stop_queue
     ELSE UNCHANGED stopped
  /\ UNCHANGED <<ringVars, session_up, dequeue_waiting, destroyed, cond>>

\* The message is older than the latency limit: it is removed, not returned,
\* and the loop locks again.
Expire(t) ==
  /\ LatencyLimit
  /\ Take
  /\ Goto(t, "lock")
  /\ UNCHANGED ptr

-----------------------------------------------------------------------------
(* dequeue and dequeue_peek: the reader                                     *)

ReaderMustWait(waiting) ==
  /\ waiting
  /\ session_up
  /\ RingEmpty \/ (ReaderOp = "dequeue" /\ stopped)

\* Mutant: a reader that finds the session down does not tell the owner.
ReaderReturnsWithoutSignal ==
  /\ dequeue_waiting' = FALSE
  /\ \/ /\ ~session_up \/ size = 0
        /\ Goto("reader", "done")
        /\ UNCHANGED <<ringVars, ptr>>
     \/ /\ session_up /\ size # 0 /\ ReaderOp = "dequeue"
        /\ (Take /\ ReturnHead("reader")) \/ Expire("reader")
     \/ /\ session_up /\ size # 0 /\ ReaderOp = "dequeue_peek"
        /\ ReturnHead("reader")
        /\ UNCHANGED ringVars
  /\ UNCHANGED <<cond, session_up, stopped, destroyed>>

\* The reader holds the mutex and leaves the waiting loop.
ReaderReturns ==
  /\ dequeue_waiting' = FALSE
  /\ \/ /\ ~session_up
        /\ Signal
        /\ Goto("reader", "done")
        /\ UNCHANGED <<ringVars, ptr>>
     \/ /\ session_up /\ size = 0
        /\ Goto("reader", "done")
        /\ UNCHANGED <<ringVars, ptr, cond>>
     \/ /\ session_up /\ size # 0 /\ ReaderOp = "dequeue"
        /\ \/ Take /\ ReturnHead("reader")
           \/ Expire("reader")
        /\ UNCHANGED cond
     \/ /\ session_up /\ size # 0 /\ ReaderOp = "dequeue_peek"
        /\ ReturnHead("reader")
        /\ UNCHANGED <<ringVars, cond>>
  /\ UNCHANGED <<session_up, stopped, destroyed>>

ReaderSleeps ==
  /\ cond' = cond \cup {"reader"}
  /\ Goto("reader", "wait")
  /\ UNCHANGED <<ringVars, session_up, stopped, destroyed, ptr>>

ReaderLocks ==
  /\ pc["reader"] = "lock" /\ ~destroyed
  /\ \/ ReaderMustWait(TRUE) /\ dequeue_waiting' = TRUE /\ ReaderSleeps
     \/ ~ReaderMustWait(TRUE) /\ ReaderReturns

ReaderWakes ==
  /\ pc["reader"] = "wait" /\ "reader" \notin cond /\ ~destroyed
  /\ \/ ReaderMustWait(dequeue_waiting) /\ UNCHANGED dequeue_waiting /\ ReaderSleeps
     \/ ~ReaderMustWait(dequeue_waiting) /\ ReaderReturns

-----------------------------------------------------------------------------
(* dequeue_noblock and dequeue_peek_noblock: the pollers                    *)

PollerLocks(t) ==
  /\ t \in Pollers
  /\ pc[t] = "lock" /\ ~destroyed
  /\ \/ (size = 0 \/ RingEmpty) /\ Goto(t, "idle") /\ UNCHANGED <<ringVars, ptr>>
     \/ Take /\ ReturnHead(t)
     \/ Expire(t)
     \/ size # 0 /\ ~RingEmpty /\ ReturnHead(t) /\ UNCHANGED ringVars
  /\ UNCHANGED syncVars

-----------------------------------------------------------------------------
(* queue_start_signal, by the IRQ thread, and destroy_queue                 *)

StartSignal ==
  /\ stopped /\ ~destroyed
  /\ stopped' = FALSE
  /\ Signal
  /\ UNCHANGED <<ringVars, session_up, dequeue_waiting, destroyed, pc, ptr>>

ShutdownSignal ==
  /\ MayDestroy
  /\ pc["owner"] = "idle"
  /\ session_up' = FALSE
  /\ Signal
  /\ Goto("owner", "lock")
  /\ UNCHANGED <<ringVars, dequeue_waiting, stopped, destroyed, ptr>>

OwnerRuns ==
  pc["owner"] = "lock" \/ (pc["owner"] = "wait" /\ "owner" \notin cond)

OwnerSleeps ==
  /\ OwnerRuns
  /\ dequeue_waiting
  /\ cond' = cond \cup {"owner"}
  /\ Goto("owner", "wait")
  /\ UNCHANGED <<ringVars, session_up, dequeue_waiting, stopped, destroyed, ptr>>

\* Mutant: the owner does not wait for the reader to leave its loop.
DestroyAtOnce ==
  /\ OwnerRuns
  /\ Reset
  /\ destroyed' = TRUE
  /\ Goto("owner", "done")
  /\ UNCHANGED <<session_up, dequeue_waiting, stopped, cond, ptr>>

Destroy ==
  /\ OwnerRuns
  /\ ~dequeue_waiting
  /\ Reset
  /\ destroyed' = TRUE
  /\ Goto("owner", "done")
  /\ UNCHANGED <<session_up, dequeue_waiting, stopped, cond, ptr>>

-----------------------------------------------------------------------------

ReaderStep ==
  \/ CheckSession("reader")
  \/ ReaderLocks
  \/ ReaderWakes
  \/ Use("reader")

OwnerStep == OwnerSleeps \/ Destroy

Next ==
  \/ \E t \in Threads : CheckSession(t) \/ LockDestroyed(t) \/ Use(t)
  \/ \E t \in Producers : Enqueue(t) \/ EnqueueZeroSize(t)
  \/ ReaderLocks
  \/ ReaderWakes
  \/ \E t \in Pollers : PollerLocks(t)
  \/ StartSignal
  \/ ShutdownSignal
  \/ OwnerStep
  \/ SpuriousWakeup

Spec == Init /\ [][Next]_vars

\* The reader and the destroying thread are scheduled; nothing makes a producer
\* store, the transmitter interrupt or a sleeper wake by itself.
FairSpec == Spec /\ WF_vars(ReaderStep) /\ WF_vars(OwnerStep)
-----------------------------------------------------------------------------

(***************************************************************************)
(* Properties.                                                             *)
(***************************************************************************)

Labels == {"idle", "lock", "use", "wait", "done", "fault"}

\* The indices stay inside the ring however the threads interleave, and only
\* the reader and the owner ever sleep on the condition variable.
TypeOK ==
  /\ RingTypeOK
  /\ session_up \in BOOLEAN /\ dequeue_waiting \in BOOLEAN
  /\ stopped \in BOOLEAN /\ destroyed \in BOOLEAN
  /\ cond \subseteq {"reader", "owner"}
  /\ pc \in [Threads -> Labels]
  /\ ptr \in [Threads -> [slot : Nat, msg : Nat]]

\* No wake-up is lost: the reader is asleep only while the condition of its
\* waiting loop still tells it to sleep, although enqueue, queue_start_signal
\* and destroy_queue change that condition from other threads and each signals
\* a single sleeper of a condition variable that the owner sleeps on as well.
NoLostWakeup == "reader" \in cond => ReaderMustWait(dequeue_waiting)

\* destroy_queue never waits for a thread that is not there to answer, and
\* never frees the ring under a sleeper: dequeue_waiting is raised only while
\* the reader is in its waiting loop, the owner sleeps only while it is raised,
\* and nobody is asleep on the condition variable once it is destroyed.
OwnerWaitsForReader ==
  /\ dequeue_waiting => pc["reader"] = "wait"
  /\ "owner" \in cond => dequeue_waiting /\ ~session_up /\ "reader" \notin cond
  /\ destroyed => cond = {}

\* destroy_queue returns: "implements nice shutdown on destroy_queue() call".
DestroyTerminates == (pc["owner"] = "lock") ~> (pc["owner"] = "done")

\* A message that can be handed over is: while the ring holds a message and
\* the queue is not stopped, the blocked thread does not sleep for ever.
ReaderServed ==
  pc["reader"] = "wait" /\ ~RingEmpty /\ ~stopped ~> pc["reader"] # "wait" \/ RingEmpty

\* Every removal, insertion and reset of the ring by whatever thread is one
\* step of the ring of CanRing.
ImplementsRing == RingSpec

\* "Multi-thread safe": the message behind a pointer that a dequeue returned
\* is the message that was dequeued, until the caller is done with it.
PointerStable ==
  \A t \in Threads : pc[t] = "use" /\ ~destroyed => data[ptr[t].slot] = ptr[t].msg

\* "Multi-thread safe [...] nice shutdown on destroy_queue() call": no thread
\* locks the mutex of a queue that destroy_queue has destroyed.
NoUseAfterDestroy == \A t \in Threads : pc[t] # "fault"
=============================================================================
