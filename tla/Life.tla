--------------------------------- MODULE Life ---------------------------------
(***************************************************************************)
(* The threads of the running program and how it ends: main (main.c), the  *)
(* IRQ thread (interrupt.c) that broadcasts to the clients (netif.c), the  *)
(* restart timer (timer.c), the transmit thread of a virtual device, and   *)
(* the resource manager threads that open and close clients (session.c,    *)
(* resmgr.c).  SIGINT may come at any time.  There are two devices: "hw",  *)
(* which has an interrupt, and "vcan"; both are registered before Init,    *)
(* and main removes them in that order.                                    *)
(*                                                                         *)
(* The session mutex is an error checking mutex: locking it again by its   *)
(* owner fails and is ignored.  destroy_device_session never unlocks it.   *)
(* Queues and clients' reads are in CanQueue and RxClient, frames and      *)
(* registers in TxPath: here a queue is only in use or destroyed.          *)
(***************************************************************************)
EXTENDS Naturals, Sequences, SequencesExt

CONSTANTS Clients,     \* the clients that open and close
          MaxSigints   \* bound: how often SIGINT comes

ASSUME LifeAssumption ==
  /\ Clients \cap {"none", "main", "irq", "nil", "gone"} = {}
  /\ MaxSigints \in Nat

VARIABLES
  main,     \* main: "thread", "channel", "wait", "stop", "lock", "down", "drain", "free", "exit"
  cur,      \* the device main is removing
  shutdown, \* shutdown_program
  handler,  \* sigint_signal_handler: "idle", or "flagged" before it tests main_chid
  sigints,  \* how often SIGINT came
  pulses,   \* pulses not received: "main", and "int" and "term" on irq_chid
  chip,     \* the chip of "hw" is in normal mode: it can interrupt
  masked,   \* the interrupt is masked
  irq,      \* the IRQ thread: [pc, it]
  timer,    \* the timer thread of "hw": [pc, cancelled]
  tx,       \* the transmit thread of "vcan": [pc, it]
  mutex,    \* the holder of device_session_create_mutex, or "none"
  sess,     \* device -> "live", "unlinked" (no longer in the list) or "freed"
  dev,      \* device -> "live" or "freed"
  list,     \* device -> its client sessions, in order
  cs,       \* client -> its client session: "live", or "freed" (or not yet allocated)
  cl,       \* client -> "closed", "lock", "create", "open", "unlock", "remove", "nosession", "stale"
  on,       \* client -> the device it opened
  flying    \* history: the threads that were at work when the shutdown passed them

vars == <<main, cur, shutdown, handler, sigints, pulses, chip, masked, irq, timer, tx,
          mutex, sess, dev, list, cs, cl, on, flying>>
threads == <<irq, timer, tx>>
sessions == <<sess, dev, list, cs, cl, on>>
hardware == <<chip, masked>>
signals == <<shutdown, handler, sigints>>

Devs == {"hw", "vcan"}
NIL == "nil"
GONE == "gone"

Init ==
  /\ main = "thread" /\ cur = "hw" /\ shutdown = FALSE /\ handler = "idle" /\ sigints = 0
  /\ pulses = {} /\ chip = TRUE /\ masked = FALSE
  /\ irq = [pc |-> "off", it |-> NIL]
  /\ timer = [pc |-> "idle", cancelled |-> FALSE]
  /\ tx = [pc |-> "deq", it |-> NIL]
  /\ mutex = "none" /\ sess = [d \in Devs |-> "live"] /\ dev = [d \in Devs |-> "live"]
  /\ list = [d \in Devs |-> <<>>] /\ cs = [c \in Clients |-> "freed"]
  /\ cl = [c \in Clients |-> "closed"] /\ on = [c \in Clients |-> "hw"] /\ flying = {}

Running == main # "exit"

-----------------------------------------------------------------------------
(* SIGINT                                                                    *)

IrqBusy == irq.pc \in {"handle", "lock", "walk", "unmask"}
TimerBusy == timer.pc \in {"callback", "restart"}

\* terminate_irq_loop
Sigint ==
  /\ Running /\ handler = "idle" /\ sigints < MaxSigints
  /\ sigints' = sigints + 1 /\ shutdown' = TRUE /\ handler' = "flagged"
  /\ pulses' = pulses \cup {"term"}
  /\ flying' = IF ~shutdown /\ IrqBusy THEN flying \cup {"irq"} ELSE flying
  /\ UNCHANGED <<main, cur, hardware, threads, mutex, sessions>>

\* The pulse to main, if main_chid is set.
SigintTellsMain ==
  /\ Running /\ handler = "flagged"
  /\ handler' = "idle"
  /\ pulses' = IF main \in {"thread", "channel"} THEN pulses ELSE pulses \cup {"main"}
  /\ UNCHANGED <<main, cur, shutdown, sigints, hardware, threads, mutex, sessions, flying>>

-----------------------------------------------------------------------------
(* main                                                                      *)

StartIrqThread ==
  /\ main = "thread" /\ main' = "channel"
  /\ irq' = [irq EXCEPT !.pc = "wait"]
  /\ UNCHANGED <<cur, signals, pulses, hardware, timer, tx, mutex, sessions, flying>>

CreateChannel ==
  /\ main = "channel" /\ main' = "wait"
  /\ UNCHANGED <<cur, signals, pulses, hardware, threads, mutex, sessions, flying>>

MainReceives ==
  /\ main = "wait" /\ "main" \in pulses
  /\ pulses' = pulses \ {"main"}
  /\ main' = IF shutdown THEN "stop" ELSE "wait"
  /\ UNCHANGED <<cur, signals, hardware, threads, mutex, sessions, flying>>

\* ndo_stop: the chip is reset, and the timer destroyed.  Its thread exits if it waits
\* for a pulse; if it is in the callback it will find its channel gone.
NdoStop ==
  /\ main = "stop" /\ main' = "lock"
  /\ timer' = IF cur = "vcan" THEN timer
              ELSE [pc |-> IF TimerBusy THEN timer.pc ELSE "exited", cancelled |-> TRUE]
  /\ chip' = (chip /\ cur # "hw")
  /\ flying' = IF cur = "hw" /\ TimerBusy THEN flying \cup {"timer"} ELSE flying
  /\ UNCHANGED <<cur, signals, pulses, masked, irq, tx, mutex, sessions>>

LockToDestroy ==
  /\ main = "lock" /\ mutex \in {"none", "main"}
  /\ main' = "down" /\ mutex' = "main"
  /\ UNCHANGED <<cur, signals, pulses, hardware, threads, sessions, flying>>

UnlinkSession ==
  /\ main = "down" /\ main' = "drain"
  /\ sess' = [sess EXCEPT ![cur] = "unlinked"]
  /\ UNCHANGED <<cur, signals, pulses, hardware, threads, mutex, dev, list, cs, cl, on, flying>>

\* Mutant: the mutex is unlocked when the session is freed.
FreeSessionUnlocks ==
  /\ main = "drain" /\ (cur = "vcan" => tx.pc # "deq")
  /\ main' = "free" /\ mutex' = "none"
  /\ sess' = [sess EXCEPT ![cur] = "freed"]
  /\ flying' = IF cur = "vcan" /\ tx.pc = "walk" THEN flying \cup {"tx"} ELSE flying
  /\ UNCHANGED <<cur, signals, pulses, hardware, threads, dev, list, cs, cl, on>>

\* destroy_queue waits until the transmit thread does not wait for a message.
FreeSession ==
  /\ main = "drain" /\ (cur = "vcan" => tx.pc # "deq")
  /\ main' = "free"
  /\ sess' = [sess EXCEPT ![cur] = "freed"]
  /\ flying' = IF cur = "vcan" /\ tx.pc = "walk" THEN flying \cup {"tx"} ELSE flying
  /\ UNCHANGED <<cur, signals, pulses, hardware, threads, mutex, dev, list, cs, cl, on>>

\* free_sja1000dev, and the next device.
FreeDevice ==
  /\ main = "free"
  /\ dev' = [dev EXCEPT ![cur] = "freed"]
  /\ main' = IF cur = "hw" THEN "stop" ELSE "exit"
  /\ cur' = "vcan"
  /\ UNCHANGED <<signals, pulses, hardware, threads, mutex, sess, list, cs, cl, on, flying>>

-----------------------------------------------------------------------------
(* Broadcasts.  it is the client session to be served; NIL ends the loop.  *)
(* GONE is a session that was freed while the transmit thread stood at it.   *)

First(s) == IF s = <<>> THEN NIL ELSE Head(s)
At(s, c) == CHOOSE i \in DOMAIN s : s[i] = c
After(s, c) == IF At(s, c) = Len(s) THEN NIL ELSE s[At(s, c) + 1]

\* The chip signals, and the line is masked.
Interrupt ==
  /\ Running /\ chip /\ ~masked
  /\ pulses' = pulses \cup {"int"} /\ masked' = TRUE
  /\ UNCHANGED <<main, cur, signals, chip, threads, mutex, sessions, flying>>

\* Mutant: shutdown_program is not tested.
IrqReceivesAlways ==
  /\ Running /\ irq.pc = "wait" /\ pulses \cap {"int", "term"} # {}
  /\ \E p \in pulses \cap {"int", "term"} :
       /\ pulses' = pulses \ {p}
       /\ irq' = [irq EXCEPT !.pc = IF p = "term" THEN "ended" ELSE "handle"]
  /\ UNCHANGED <<main, cur, signals, hardware, timer, tx, mutex, sessions, flying>>

IrqReceives ==
  /\ Running /\ irq.pc = "wait"
  /\ \E p \in pulses \cap {"int", "term"} :
       /\ pulses' = pulses \ {p}
       /\ irq' = [irq EXCEPT !.pc = IF shutdown THEN "ended" ELSE "handle"]
  /\ UNCHANGED <<main, cur, signals, hardware, timer, tx, mutex, sessions, flying>>

\* sja1000_interrupt: a frame for the clients, bus-off (the timer is created again if it
\* was destroyed), or neither.
IrqHandles ==
  /\ Running /\ irq.pc = "handle"
  /\ \/ irq' = [irq EXCEPT !.pc = "lock"] /\ timer' = timer
     \/ irq' = [irq EXCEPT !.pc = "unmask"] /\ timer' = timer
     \/ /\ irq' = [irq EXCEPT !.pc = "unmask"]
        /\ timer.pc \in {"idle", "spin", "exited"}
        /\ timer' = [timer EXCEPT !.pc = "armed", !.cancelled = FALSE]
  /\ UNCHANGED <<main, cur, signals, pulses, hardware, tx, mutex, sessions, flying>>

\* netif_rx in the IRQ thread.
IrqLocks ==
  /\ Running /\ irq.pc = "lock" /\ mutex = "none"
  /\ mutex' = "irq" /\ irq' = [pc |-> "walk", it |-> First(list["hw"])]
  /\ UNCHANGED <<main, cur, signals, pulses, hardware, timer, tx, sessions, flying>>

\* Mutant: a broadcast that served nobody returns with the mutex locked.
IrqWalksKeeps ==
  /\ Running /\ irq.pc = "walk"
  /\ irq' = IF irq.it = NIL THEN [irq EXCEPT !.pc = "unmask"]
            ELSE [irq EXCEPT !.it = After(list["hw"], irq.it)]
  /\ mutex' = IF irq.it = NIL /\ list["hw"] # <<>> THEN "none" ELSE mutex
  /\ UNCHANGED <<main, cur, signals, pulses, hardware, timer, tx, sessions, flying>>

IrqWalks ==
  /\ Running /\ irq.pc = "walk"
  /\ irq' = IF irq.it = NIL THEN [irq EXCEPT !.pc = "unmask"]
            ELSE [irq EXCEPT !.it = After(list["hw"], irq.it)]
  /\ mutex' = IF irq.it = NIL THEN "none" ELSE mutex
  /\ UNCHANGED <<main, cur, signals, pulses, hardware, timer, tx, sessions, flying>>

\* The line is unmasked, then the device's queue woken.
IrqUnmasks ==
  /\ Running /\ irq.pc = "unmask"
  /\ masked' = FALSE /\ irq' = [irq EXCEPT !.pc = "wait"]
  /\ UNCHANGED <<main, cur, signals, pulses, chip, timer, tx, mutex, sessions, flying>>

\* The timer thread: can_restart_work.  Its error frame is not broadcast: netif_rx logs
\* and frees it.
TimerFires ==
  /\ Running /\ timer.pc = "armed"
  /\ timer' = [timer EXCEPT !.pc = "callback"]
  /\ UNCHANGED <<main, cur, signals, pulses, hardware, irq, tx, mutex, sessions, flying>>

TimerFlushes ==
  /\ Running /\ timer.pc = "callback"
  /\ timer' = [timer EXCEPT !.pc = "restart"]
  /\ UNCHANGED <<main, cur, signals, pulses, hardware, irq, tx, mutex, sessions, flying>>

\* The chip is started, even one that main has stopped, and the thread receives again;
\* on a channel that was destroyed MsgReceive fails, for ever.
TimerRestarts ==
  /\ Running /\ timer.pc = "restart"
  /\ timer' = [timer EXCEPT !.pc = IF timer.cancelled THEN "spin" ELSE "idle"]
  /\ chip' = TRUE
  /\ UNCHANGED <<main, cur, signals, pulses, masked, irq, tx, mutex, sessions, flying>>

\* netif_tx of the virtual device: a message to send, or the end of the session.
TxDequeues ==
  /\ Running /\ tx.pc = "deq"
  /\ IF sess["vcan"] = "live" THEN tx' = [pc |-> "walk", it |-> First(list["vcan"])]
     ELSE tx' = [tx EXCEPT !.pc = "ended"]
  /\ UNCHANGED <<main, cur, signals, pulses, hardware, irq, timer, mutex, sessions, flying>>

\* The broadcast without the mutex: the session it stands at may have been freed.
TxWalks ==
  /\ Running /\ tx.pc = "walk"
  /\ tx' = IF tx.it = GONE \/ sess["vcan"] = "freed" THEN [tx EXCEPT !.pc = "undefined"]
           ELSE IF tx.it = NIL THEN [tx EXCEPT !.pc = "deq"]
           ELSE [tx EXCEPT !.it = After(list["vcan"], tx.it)]
  /\ UNCHANGED <<main, cur, signals, pulses, hardware, irq, timer, mutex, sessions, flying>>

-----------------------------------------------------------------------------
(* Clients                                                                   *)

\* destroy_client_session under the mutex.
Unlink(c) ==
  /\ list' = [list EXCEPT ![on[c]] = RemoveAt(@, At(@, c))]
  /\ cs' = [cs EXCEPT ![c] = "freed"]
  /\ tx' = IF tx.it = c THEN [tx EXCEPT !.it = GONE] ELSE tx

\* can_ocb_calloc up to the mutex: get_device_session searches the list unlocked.  A
\* file that is still there when the session is freed leads to the freed session.
OpenFinds(c, d) ==
  /\ Running /\ cl[c] = "closed"
  /\ on' = [on EXCEPT ![c] = d]
  /\ cl' = [cl EXCEPT ![c] = CASE sess[d] = "live"     -> "lock"
                               [] sess[d] = "unlinked" -> "nosession"
                               [] OTHER                -> "stale"]
  /\ UNCHANGED <<main, cur, signals, pulses, hardware, threads, mutex, sess, dev, list, cs, flying>>

OpenLocks(c) ==
  /\ Running /\ cl[c] = "lock" /\ mutex = "none"
  /\ mutex' = c
  /\ cs' = [cs EXCEPT ![c] = "live"] /\ list' = [list EXCEPT ![on[c]] = Append(@, c)]
  /\ cl' = [cl EXCEPT ![c] = "create"]
  /\ UNCHANGED <<main, cur, signals, pulses, hardware, threads, sess, dev, on, flying>>

\* Mutant: the error return of create_client_session keeps the mutex.
OpenEndsLocked(c) ==
  /\ Running /\ cl[c] = "create"
  /\ \/ cl' = [cl EXCEPT ![c] = "open"] /\ mutex' = "none" /\ UNCHANGED <<cs, list, tx>>
     \/ /\ cl' = [cl EXCEPT ![c] = "nosession"]
        /\ Unlink(c) /\ mutex' = mutex
  /\ UNCHANGED <<main, cur, signals, pulses, hardware, irq, timer, sess, dev, on, flying>>

\* create_queue succeeds, or fails: then destroy_client_session, called with the mutex
\* held, frees the session and unlocks, and a second unlock fails.
OpenEnds(c) ==
  /\ Running /\ cl[c] = "create"
  /\ \/ cl' = [cl EXCEPT ![c] = "open"] /\ UNCHANGED <<cs, list, tx>>
     \/ /\ cl' = [cl EXCEPT ![c] = "nosession"]
        /\ Unlink(c)
  /\ mutex' = "none"
  /\ UNCHANGED <<main, cur, signals, pulses, hardware, irq, timer, sess, dev, on, flying>>

\* can_ocb_free, up to the mutex.
Close(c) ==
  /\ Running /\ cl[c] = "open"
  /\ cl' = [cl EXCEPT ![c] = "unlock"]
  /\ UNCHANGED <<main, cur, signals, pulses, hardware, threads, mutex, sess, dev, list, cs, on,
                 flying>>

\* Mutant: destroy_client_session does not wait for the mutex.
CloseLocksNot(c) ==
  /\ Running /\ cl[c] = "unlock"
  /\ cl' = [cl EXCEPT ![c] = "remove"]
  /\ UNCHANGED <<main, cur, signals, pulses, hardware, threads, mutex, sess, dev, list, cs, on,
                 flying>>

CloseLocks(c) ==
  /\ Running /\ cl[c] = "unlock" /\ mutex = "none"
  /\ mutex' = c /\ cl' = [cl EXCEPT ![c] = "remove"]
  /\ UNCHANGED <<main, cur, signals, pulses, hardware, threads, sess, dev, list, cs, on, flying>>

\* The session is unlinked, its queue destroyed, its memory freed; another client may
\* be opened.
CloseEnds(c) ==
  /\ Running /\ cl[c] = "remove"
  /\ Unlink(c)
  /\ cl' = [cl EXCEPT ![c] = "closed"] /\ mutex' = IF mutex = c THEN "none" ELSE mutex
  /\ UNCHANGED <<main, cur, signals, pulses, hardware, irq, timer, sess, dev, on, flying>>

Next ==
  \/ Sigint \/ SigintTellsMain
  \/ StartIrqThread \/ CreateChannel \/ MainReceives \/ NdoStop
  \/ LockToDestroy \/ UnlinkSession \/ FreeSession \/ FreeDevice
  \/ Interrupt \/ IrqReceives \/ IrqHandles \/ IrqLocks \/ IrqWalks \/ IrqUnmasks
  \/ TimerFires \/ TimerFlushes \/ TimerRestarts
  \/ TxDequeues \/ TxWalks
  \/ \E c \in Clients, d \in Devs : OpenFinds(c, d)
  \/ \E c \in Clients : OpenLocks(c)
  \/ \E c \in Clients : OpenEnds(c)
  \/ \E c \in Clients : Close(c)
  \/ \E c \in Clients : CloseLocks(c)
  \/ \E c \in Clients : CloseEnds(c)

MainSteps == \/ StartIrqThread \/ CreateChannel \/ MainReceives \/ NdoStop
             \/ UnlinkSession \/ FreeSession \/ FreeDevice
IrqSteps == IrqReceives \/ IrqHandles \/ IrqLocks \/ IrqWalks \/ IrqUnmasks
TimerSteps == TimerFires \/ TimerFlushes \/ TimerRestarts
TxSteps == (sess["vcan"] # "live" /\ TxDequeues) \/ TxWalks

\* Every thread that can run runs.  main, an open and a close that wait for the session
\* mutex get it (strong fairness): QNX hands a mutex to the thread that waits longest at
\* the highest priority, and a thread that unlocks it does other work before it asks
\* again.  A client need not close, the chip need not interrupt, no message need come.
Fairness ==
  /\ WF_vars(SigintTellsMain) /\ WF_vars(MainSteps) /\ SF_vars(LockToDestroy)
  /\ WF_vars(IrqSteps) /\ WF_vars(TimerSteps) /\ WF_vars(TxSteps)
  /\ \A c \in Clients : /\ SF_vars(OpenLocks(c) \/ CloseLocks(c))
                        /\ WF_vars(OpenEnds(c) \/ CloseEnds(c))

Spec == Init /\ [][Next]_vars /\ Fairness

-----------------------------------------------------------------------------

\* A broadcast by the IRQ thread, under the mutex, stands at a client session that is
\* allocated, however clients open and close meanwhile (session.c: "must ensure session
\* create, destroy and handling are atomic").  The transmit thread of a virtual device
\* does not take the mutex and has no such promise.
BroadcastLive ==
  irq.pc = "walk" /\ irq.it # NIL => cs[irq.it] = "live"

\* create_client_session finds the device session before it takes the mutex and uses it
\* after; so does a broadcast with the session of its device.  Whoever holds the mutex
\* finds the session allocated: only because destroy_device_session, which frees it,
\* keeps the mutex for ever.
SessionLiveUnderMutex ==
  /\ \A c \in Clients : mutex = c => sess[on[c]] # "freed"
  /\ mutex = "irq" => sess["hw"] # "freed" /\ dev["hw"] # "freed"

\* Where a thread uses the device, its session, or the timer kept in it.
UsesFreed(t) ==
  CASE t = "irq"   -> irq.pc \in {"handle", "unmask"} /\ dev["hw"] = "freed"
    [] t = "timer" -> timer.pc \in {"callback", "restart", "spin"} /\ dev["hw"] = "freed"
    [] t = "tx"    -> tx.pc = "walk" /\ sess["vcan"] = "freed"

\* free_irq detaches nothing, the threads are not joined and cancel_delayed_work_sync
\* does not wait, so a device can be freed under a thread that uses it; but only under
\* one that was already at work: the IRQ thread in an interrupt it received before
\* SIGINT, the timer in a callback that ran when it was cancelled (or in one that such
\* an interrupt scheduled), the transmit thread in the message it was sending.
FreedOnlyInFlight ==
  /\ UsesFreed("irq") => "irq" \in flying
  /\ UsesFreed("timer") => flying \cap {"timer", "irq"} # {}
  /\ UsesFreed("tx") => "tx" \in flying

\* SIGINT ends the program once main has its channel, with clients open, opening and
\* closing, interrupts pending and a restart under way; a SIGINT that comes earlier
\* sets the flag but tells main nothing.  (Unless the unlocked broadcast of a virtual
\* device read a freed session.)
SigintExits ==
  handler = "flagged" /\ main \notin {"thread", "channel"} ~> main = "exit" \/ tx.pc = "undefined"

\* An open or a close is answered, or the program ends: no path keeps the session
\* mutex but that of a device being destroyed, which goes on to the exit.
ClientsAnswered ==
  \A c \in Clients : cl[c] \in {"lock", "create", "unlock", "remove"} ~>
    cl[c] \in {"open", "closed", "nosession"} \/ main = "exit" \/ tx.pc = "undefined"
=============================================================================
