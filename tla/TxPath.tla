-------------------------------- MODULE TxPath --------------------------------
(***************************************************************************)
(* The transmit path of one SJA1000 device, from tx_queue to the bus.      *)
(*                                                                         *)
(*   tx     netif_tx: dequeue, sja1000_start_xmit                          *)
(*   irq    irq_loop: sja1000_interrupt, then the queue is started again   *)
(*   timer  can_restart_work, restart_ms after a bus-off                   *)
(*                                                                         *)
(* The three share the flags of tx_queue, the one echo_skb, priv->can and  *)
(* the registers of the controller without a lock: netif_tx_lock is empty. *)
(* Every access to one of these is a step of its own.  A message is its    *)
(* number in the order of writing; so is the sk_buff made for it.          *)
(***************************************************************************)
EXTENDS Integers

CONSTANTS MaxMsgs,            \* bound on the messages written
          MaxBusOffs,         \* bound on the bus-offs
          MaxErrors,          \* bound on the other errors
          ErrorKinds,         \* which of them happen: EI, EPI, BEI
          RxBurst,            \* bound on the receive interrupts raised during
                              \* one run of the interrupt handler
          SJA1000_MAX_IRQ,
          restart_ms,         \* option -r, 0 when disabled
          DelayOutlastsIrq,   \* interrupts are served within restart_ms
          AllocMayFail,       \* alloc_can_skb may find the pool exhausted
          OptR                \* values of option -R, 0 when disabled

ASSUME BoundsAssumption ==
  /\ MaxMsgs \in Nat /\ MaxBusOffs \in Nat /\ MaxErrors \in Nat /\ RxBurst \in Nat
  /\ SJA1000_MAX_IRQ \in Nat \ {0}
  /\ ErrorKinds \subseteq {"EI", "EPI", "BEI"}

\* From 1000 ms on timer_settime rejects the delay; from 256 on can_restart and
\* netif_rx call each other without end.
ASSUME OptionsAssumption ==
  /\ restart_ms \in 0 .. 999
  /\ OptR \subseteq 0 .. 255
  /\ DelayOutlastsIrq \in BOOLEAN /\ AllocMayFail \in BOOLEAN

VARIABLES
  written,                    \* messages enqueued
  dequeued,                   \* messages dequeued
  stopped, wake_pending,      \* tx_queue
  echo,                       \* priv->can.echo_skb[0]; 0: NULL
  live,                       \* sk_buffs allocated and not freed
  occupied,                   \* "BUG! echo_skb is occupied!" was logged
  state,                      \* priv->can.state
  carrier,
  armed,                      \* restart_work is scheduled
  chip,                       \* the controller
  sent,                       \* messages put on the bus
  lost,                       \* messages given up: dropped, flushed
  busoffs, errors,            \* how many there were
  optR_error_count,           \* option -R, set by main before the threads start
  tx,                         \* pc of netif_tx; its message is dequeued
  irq,                        \* pc, isrc, status, n and skb of irq_loop
  timer                       \* pc of timer_loop

queueVars == <<written, dequeued, stopped, wake_pending>>
skbVars == <<echo, live, occupied, lost>>
canVars == <<state, carrier, armed>>
busVars == <<chip, sent, busoffs, errors>>
vars == <<queueVars, skbVars, canVars, busVars, tx, irq, timer, optR_error_count>>

NoStatus == [bs |-> FALSE, es |-> FALSE]

Init ==
  /\ written = 0 /\ dequeued = 0 /\ stopped = FALSE /\ wake_pending = FALSE
  /\ echo = 0 /\ live = {} /\ occupied = FALSE /\ lost = {}
  /\ state = "ERROR_ACTIVE" /\ carrier = TRUE /\ armed = FALSE
  /\ chip = [reset |-> FALSE, ier |-> TRUE, ir |-> {}, status |-> NoStatus,
             buf |-> 0, sending |-> FALSE]
  /\ sent = {} /\ busoffs = 0 /\ errors = 0
  /\ optR_error_count \in OptR
  /\ tx = "dequeue"
  /\ irq = [pc |-> "receive", isrc |-> {}, status |-> NoStatus, n |-> 0, skb |-> 0]
  /\ timer = "idle"

-----------------------------------------------------------------------------
(* The controller, as the driver uses it.                                   *)

\* A transmission request completes.
ChipSends ==
  /\ chip.sending
  /\ chip' = [chip EXCEPT !.sending = FALSE, !.ir = @ \cup {"TI"}]
  /\ sent' = sent \cup {chip.buf}
  /\ UNCHANGED <<queueVars, skbVars, canVars, busoffs, errors, tx, irq, timer,
                 optR_error_count>>

\* Transmission errors add up to a bus-off: the controller enters reset mode
\* and the request is gone.  The error frame can_restart sends may start a second
\* restart inside the first when option -R meets a bus-off: the two are not
\* combined here, so with option -R the behaviours without a bus-off are modelled.
ChipBusOff ==
  /\ chip.sending /\ busoffs < MaxBusOffs
  /\ optR_error_count = 0
  /\ chip' = [chip EXCEPT !.sending = FALSE, !.reset = TRUE,
                          !.ir = @ \cup {"EI"}, !.status.bs = TRUE]
  /\ busoffs' = busoffs + 1
  /\ UNCHANGED <<queueVars, skbVars, canVars, sent, errors, tx, irq, timer,
                 optR_error_count>>

\* An error that is no bus-off: the warning limit is crossed either way (EI),
\* the passive limit is (EPI), or one error is reported (BEI; ALI and DOI are
\* handled alike).
ChipError ==
  /\ ~chip.reset /\ errors < MaxErrors
  /\ \/ /\ "EI" \in ErrorKinds
        /\ chip' = [chip EXCEPT !.ir = @ \cup {"EI"}, !.status.es = ~@]
     \/ \E isrc \in ErrorKinds \ {"EI"} : chip' = [chip EXCEPT !.ir = @ \cup {isrc}]
  /\ errors' = errors + 1
  /\ UNCHANGED <<queueVars, skbVars, canVars, sent, busoffs, tx, irq, timer,
                 optR_error_count>>

\* A frame of another node is received.
ChipReceives ==
  /\ ~chip.reset /\ "RI" \notin chip.ir
  /\ irq.pc # "receive" => irq.n < RxBurst
  /\ chip' = [chip EXCEPT !.ir = @ \cup {"RI"}]
  /\ UNCHANGED <<queueVars, skbVars, canVars, sent, busoffs, errors, tx, irq, timer,
                 optR_error_count>>

-----------------------------------------------------------------------------
(* netif_tx and sja1000_start_xmit                                          *)

\* A client's write ends in enqueue.
Write ==
  /\ written < MaxMsgs
  /\ written' = written + 1
  /\ UNCHANGED <<dequeued, stopped, wake_pending, skbVars, canVars, busVars,
                 tx, irq, timer, optR_error_count>>

\* dequeue and alloc_can_skb.
Dequeue ==
  /\ tx = "dequeue"
  /\ dequeued < written /\ ~stopped
  /\ dequeued' = dequeued + 1
  /\ live' = live \cup {dequeued + 1}
  /\ tx' = "xmit"
  /\ UNCHANGED <<written, stopped, wake_pending, echo, occupied, lost,
                 canVars, busVars, irq, timer, optR_error_count>>

\* alloc_can_skb fails: the message is gone and netif_tx returns.
DequeueAllocFails ==
  /\ AllocMayFail
  /\ tx = "dequeue"
  /\ dequeued < written /\ ~stopped
  /\ dequeued' = dequeued + 1
  /\ lost' = lost \cup {dequeued + 1}
  /\ tx' = "exit"
  /\ UNCHANGED <<written, stopped, wake_pending, echo, live, occupied,
                 canVars, busVars, irq, timer, optR_error_count>>

\* can_dev_dropped_skb: a listen-only device or an invalid frame.
DroppedSkb ==
  /\ tx = "xmit"
  /\ live' = live \ {dequeued}
  /\ lost' = lost \cup {dequeued}
  /\ tx' = "dequeue"
  /\ UNCHANGED <<queueVars, echo, occupied, canVars, busVars, irq, timer,
                 optR_error_count>>

\* Mutant: netif_stop_queue is not called.
StopQueueForgotten ==
  /\ tx = "xmit"
  /\ tx' = "load"
  /\ UNCHANGED <<queueVars, skbVars, canVars, busVars, irq, timer,
                 optR_error_count>>

StopQueue ==
  /\ tx = "xmit"
  /\ stopped' = TRUE
  /\ tx' = "load"
  /\ UNCHANGED <<written, dequeued, wake_pending, skbVars, canVars, busVars, irq, timer,
                 optR_error_count>>

\* The frame is written to the transmit buffer.
LoadBuffer ==
  /\ tx = "load"
  /\ chip' = [chip EXCEPT !.buf = dequeued]
  /\ tx' = "echo"
  /\ UNCHANGED <<queueVars, skbVars, canVars, sent, busoffs, errors, irq, timer,
                 optR_error_count>>

can_put_echo_skb ==
  /\ tx = "echo"
  /\ \/ /\ echo = 0
        /\ echo' = dequeued
        /\ UNCHANGED <<live, occupied, lost>>
     \/ /\ echo # 0
        /\ occupied' = TRUE
        /\ live' = live \ {dequeued}
        /\ lost' = lost \cup {dequeued}
        /\ UNCHANGED echo
  /\ tx' = "command"
  /\ UNCHANGED <<queueVars, canVars, busVars, irq, timer, optR_error_count>>

\* The transmission request; a controller in reset mode ignores it.
write_cmdreg ==
  /\ tx = "command"
  /\ chip' = [chip EXCEPT !.sending = ~chip.reset]
  /\ tx' = "dequeue"
  /\ UNCHANGED <<queueVars, skbVars, canVars, sent, busoffs, errors, irq, timer,
                 optR_error_count>>

-----------------------------------------------------------------------------
(* can_restart, by the timer thread after a bus-off or, with option -R, by   *)
(* the IRQ thread                                                            *)

At(r, label) == IF r = "irq" THEN irq.pc = label ELSE timer = label

Goto(r, label) ==
  IF r = "irq" THEN irq' = [irq EXCEPT !.pc = label] /\ UNCHANGED timer
               ELSE timer' = label /\ UNCHANGED irq

\* Back to the loop of sja1000_interrupt, or to that of timer_loop.
LeaveRestart(r) ==
  IF r = "irq" THEN irq' = [irq EXCEPT !.pc = "read", !.n = @ + 1] /\ UNCHANGED timer
               ELSE timer' = "idle" /\ UNCHANGED irq

\* Mutant: the sk_buff is not freed.
FlushLeaks(r) ==
  /\ At(r, "flush")
  /\ lost' = IF echo # 0 THEN lost \cup {echo} ELSE lost
  /\ Goto(r, IF echo # 0 THEN "clear" ELSE "carrier")
  /\ UNCHANGED <<queueVars, echo, live, occupied, canVars, busVars, tx,
                 optR_error_count>>

\* can_flush_echo_skb frees the sk_buff ...
FlushFree(r) ==
  /\ At(r, "flush")
  /\ live' = live \ {echo}
  /\ lost' = IF echo # 0 THEN lost \cup {echo} ELSE lost
  /\ Goto(r, IF echo # 0 THEN "clear" ELSE "carrier")
  /\ UNCHANGED <<queueVars, echo, occupied, canVars, busVars, tx, optR_error_count>>

\* Mutant: the pointer is not cleared.
FlushKeepsPointer(r) ==
  /\ At(r, "clear")
  /\ Goto(r, "carrier")
  /\ UNCHANGED <<queueVars, skbVars, canVars, busVars, tx, optR_error_count>>

\* ... and clears the pointer.
FlushClear(r) ==
  /\ At(r, "clear")
  /\ echo' = 0
  /\ Goto(r, "carrier")
  /\ UNCHANGED <<queueVars, live, occupied, lost, canVars, busVars, tx,
                 optR_error_count>>

CarrierOn(r) ==
  /\ At(r, "carrier")
  /\ carrier' = TRUE
  /\ Goto(r, "reset")
  /\ UNCHANGED <<queueVars, skbVars, state, armed, busVars, tx, optR_error_count>>

\* sja1000_start: reset mode, unless the device is stopped already.
set_reset_mode(r) ==
  /\ At(r, "reset")
  /\ IF state = "STOPPED"
     THEN UNCHANGED <<state, chip>>
     ELSE /\ state' = "STOPPED"
          /\ chip' = [chip EXCEPT !.reset = TRUE, !.ier = FALSE, !.sending = FALSE]
  /\ Goto(r, "normal")
  /\ UNCHANGED <<queueVars, skbVars, carrier, armed, sent, busoffs, errors, tx,
                 optR_error_count>>

\* sja1000_start: counters and interrupts are cleared, reset mode is left.
set_normal_mode(r) ==
  /\ At(r, "normal")
  /\ state' = "ERROR_ACTIVE"
  /\ chip' = [chip EXCEPT !.reset = FALSE, !.ier = TRUE, !.ir = {}, !.status = NoStatus]
  /\ Goto(r, "stopped?")
  /\ UNCHANGED <<queueVars, skbVars, carrier, armed, sent, busoffs, errors, tx,
                 optR_error_count>>

\* sja1000_set_mode tests whether the queue is stopped ...
TestStopped(r) ==
  /\ At(r, "stopped?")
  /\ IF stopped THEN Goto(r, "wake") ELSE LeaveRestart(r)
  /\ UNCHANGED <<queueVars, skbVars, canVars, busVars, tx, optR_error_count>>

\* Mutant: nobody is asked to start the queue.
WakeQueueForgotten(r) ==
  /\ At(r, "wake")
  /\ LeaveRestart(r)
  /\ UNCHANGED <<queueVars, skbVars, canVars, busVars, tx, optR_error_count>>

\* ... and if so asks the IRQ thread to start it.
WakeQueue(r) ==
  /\ At(r, "wake")
  /\ wake_pending' = TRUE
  /\ LeaveRestart(r)
  /\ UNCHANGED <<written, dequeued, stopped, skbVars, canVars, busVars, tx,
                 optR_error_count>>

Restart(r) ==
  \/ FlushFree(r) \/ FlushClear(r) \/ CarrierOn(r) \/ set_reset_mode(r)
  \/ set_normal_mode(r) \/ TestStopped(r) \/ WakeQueue(r)

\* timer_loop calls can_restart_work.
TimerFires ==
  /\ timer = "idle" /\ armed
  /\ DelayOutlastsIrq => irq.pc = "receive" /\ (chip.ier => chip.ir = {})
  /\ armed' = FALSE
  /\ timer' = "flush"
  /\ UNCHANGED <<queueVars, skbVars, state, carrier, busVars, tx, irq,
                 optR_error_count>>

-----------------------------------------------------------------------------
(* irq_loop and sja1000_interrupt                                           *)

Pulse ==
  /\ irq.pc = "receive"
  /\ chip.ier /\ chip.ir # {}
  /\ irq' = [irq EXCEPT !.pc = "ier", !.n = 0]
  /\ UNCHANGED <<queueVars, skbVars, canVars, busVars, tx, timer, optR_error_count>>

\* "Shared interrupts and IRQ off?"
ReadIER ==
  /\ irq.pc = "ier"
  /\ irq' = [irq EXCEPT !.pc = IF chip.ier THEN "read" ELSE "pending?"]
  /\ UNCHANGED <<queueVars, skbVars, canVars, busVars, tx, timer, optR_error_count>>

\* Reading IR clears it.
ReadIR ==
  /\ irq.pc = "read"
  /\ chip' = [chip EXCEPT !.ir = {}]
  /\ irq' = [irq EXCEPT !.isrc = chip.ir,
                        !.pc = IF chip.ir # {} /\ irq.n < SJA1000_MAX_IRQ
                               THEN "status" ELSE "pending?"]
  /\ UNCHANGED <<queueVars, skbVars, canVars, sent, busoffs, errors, tx, timer,
                 optR_error_count>>

ReadSR ==
  /\ irq.pc = "status"
  /\ irq' = [irq EXCEPT !.status = chip.status,
                        !.pc = IF "TI" \in irq.isrc THEN "ti" ELSE "err"]
  /\ UNCHANGED <<queueVars, skbVars, canVars, busVars, tx, timer, optR_error_count>>

\* The loop that receives reads SR again after every frame.
ReadSRAgain ==
  /\ irq.pc = "err" /\ "RI" \in irq.isrc
  /\ irq' = [irq EXCEPT !.status = chip.status]
  /\ UNCHANGED <<queueVars, skbVars, canVars, busVars, tx, timer, optR_error_count>>

\* can_get_echo_skb takes the sk_buff ...  (can_free_echo_skb, in one-shot mode, frees it
\* first and clears the slot then; start_xmit waits for both.)
TakeEcho ==
  /\ irq.pc = "ti"
  /\ irq' = [irq EXCEPT !.skb = echo, !.pc = "free"]
  /\ echo' = 0
  /\ UNCHANGED <<queueVars, live, occupied, lost, canVars, busVars, tx, timer,
                 optR_error_count>>

\* Mutant: netif_wake_queue is not called.
FreeEchoWithoutWake ==
  /\ irq.pc = "free"
  /\ live' = live \ {irq.skb}
  /\ irq' = [irq EXCEPT !.skb = 0, !.pc = "err"]
  /\ UNCHANGED <<queueVars, echo, occupied, lost, canVars, busVars, tx, timer,
                 optR_error_count>>

\* ... and frees it; the queue is to be started.
FreeEcho ==
  /\ irq.pc = "free"
  /\ live' = live \ {irq.skb}
  /\ wake_pending' = TRUE
  /\ irq' = [irq EXCEPT !.skb = 0, !.pc = "err"]
  /\ UNCHANGED <<written, dequeued, stopped, echo, occupied, lost,
                 canVars, busVars, tx, timer, optR_error_count>>

\* The state sja1000_err derives from the interrupt source and the status.
ErrState ==
  LET warned == IF "EI" \notin irq.isrc THEN state
                ELSE IF irq.status.bs THEN "BUS_OFF"
                ELSE IF irq.status.es THEN "ERROR_WARNING" ELSE "ERROR_ACTIVE"
  IN  IF "EPI" \notin irq.isrc THEN warned
      ELSE IF warned = "ERROR_PASSIVE" THEN "ERROR_WARNING" ELSE "ERROR_PASSIVE"

\* Mutant: can_bus_off does not schedule the restart.
ErrWithoutSchedule ==
  /\ irq.pc = "err"
  /\ IF irq.isrc \cap {"EI", "EPI", "BEI"} = {}
     THEN /\ irq' = [irq EXCEPT !.pc = "read", !.n = @ + 1]
          /\ UNCHANGED <<state, carrier>>
     ELSE /\ irq' = [irq EXCEPT !.pc = "rx"]
          /\ state' = ErrState
          /\ carrier' = (carrier /\ ErrState # "BUS_OFF")
  /\ UNCHANGED <<queueVars, skbVars, armed, busVars, tx, timer, optR_error_count>>

\* Mutant: can_bus_off is called on every change of state.
ErrAlwaysSchedules ==
  /\ irq.pc = "err"
  /\ IF irq.isrc \cap {"EI", "EPI", "BEI"} = {}
     THEN /\ irq' = [irq EXCEPT !.pc = "read", !.n = @ + 1]
          /\ UNCHANGED canVars
     ELSE /\ irq' = [irq EXCEPT !.pc = "rx"]
          /\ state' = ErrState
          /\ IF ErrState # state
             THEN carrier' = FALSE /\ armed' = (armed \/ restart_ms # 0)
             ELSE UNCHANGED <<carrier, armed>>
  /\ UNCHANGED <<queueVars, skbVars, busVars, tx, timer, optR_error_count>>

\* sja1000_err up to netif_rx: can_change_state, and can_bus_off on a bus-off.
\* Without an sk_buff for the error frame the handler's loop is left.
sja1000_err ==
  /\ irq.pc = "err"
  /\ IF irq.isrc \cap {"EI", "EPI", "BEI"} = {}
     THEN /\ irq' = [irq EXCEPT !.pc = "read", !.n = @ + 1]
          /\ UNCHANGED canVars
     ELSE /\ \/ irq' = [irq EXCEPT !.pc = "rx"]
             \/ AllocMayFail /\ irq' = [irq EXCEPT !.pc = "pending?"]
          /\ state' = ErrState
          /\ IF ErrState # state /\ ErrState = "BUS_OFF"
             THEN carrier' = FALSE /\ armed' = (armed \/ restart_ms # 0)
             ELSE UNCHANGED <<carrier, armed>>
  /\ UNCHANGED <<queueVars, skbVars, busVars, tx, timer, optR_error_count>>

\* Option -R: in which states netif_rx restarts the device on an error frame.
RestartTrigger ==
  /\ optR_error_count # 0
  /\ \/ state = "ERROR_ACTIVE" /\ optR_error_count < 96
     \/ state = "ERROR_WARNING" /\ optR_error_count < 128
     \/ state = "ERROR_PASSIVE" /\ optR_error_count < 256
     \/ state = "BUS_OFF" /\ optR_error_count >= 256
     \/ state = "STOPPED"

\* netif_rx of an error frame; can_restart_now accepts only a device that is
\* bus-off, so netif_rx declares it bus-off.
netif_rx ==
  /\ irq.pc = "rx"
  /\ IF RestartTrigger
     THEN /\ state' = "BUS_OFF" /\ armed' = FALSE
          /\ irq' = [irq EXCEPT !.pc = "flush"]
     ELSE /\ irq' = [irq EXCEPT !.pc = "read", !.n = @ + 1]
          /\ UNCHANGED <<state, armed>>
  /\ UNCHANGED <<queueVars, skbVars, carrier, busVars, tx, timer, optR_error_count>>

\* After the handler irq_loop looks whether the queue is to be started.
TestWakePending ==
  /\ irq.pc = "pending?"
  /\ irq' = [irq EXCEPT !.pc = IF wake_pending THEN "start" ELSE "receive"]
  /\ UNCHANGED <<queueVars, skbVars, canVars, busVars, tx, timer, optR_error_count>>

queue_start_signal ==
  /\ irq.pc = "start"
  /\ stopped' = FALSE
  /\ irq' = [irq EXCEPT !.pc = "awake"]
  /\ UNCHANGED <<written, dequeued, wake_pending, skbVars, canVars, busVars, tx, timer,
                 optR_error_count>>

queue_awake ==
  /\ irq.pc = "awake"
  /\ wake_pending' = FALSE
  /\ irq' = [irq EXCEPT !.pc = "receive"]
  /\ UNCHANGED <<written, dequeued, stopped, skbVars, canVars, busVars, tx, timer,
                 optR_error_count>>

-----------------------------------------------------------------------------

TxStep ==
  \/ Dequeue \/ DequeueAllocFails \/ DroppedSkb \/ StopQueue \/ LoadBuffer
  \/ can_put_echo_skb \/ write_cmdreg

IrqStep ==
  \/ Pulse \/ ReadIER \/ ReadIR \/ ReadSR \/ ReadSRAgain \/ TakeEcho \/ FreeEcho
  \/ sja1000_err \/ netif_rx \/ Restart("irq")
  \/ TestWakePending \/ queue_start_signal \/ queue_awake

TimerStep == TimerFires \/ Restart("timer")

ChipStep == ChipSends \/ ChipBusOff \/ ChipError \/ ChipReceives

Next == Write \/ TxStep \/ IrqStep \/ TimerStep \/ ChipStep

Spec == Init /\ [][Next]_vars

\* The three threads are scheduled and the timer expires; a transmission either
\* completes or ends in a bus-off; other nodes keep sending.
FairSpec ==
  /\ Spec
  /\ WF_vars(TxStep) /\ WF_vars(IrqStep) /\ WF_vars(TimerStep)
  /\ WF_vars(ChipSends \/ ChipBusOff)
  /\ WF_vars(ChipReceives)
-----------------------------------------------------------------------------

(***************************************************************************)
(* Properties.                                                             *)
(***************************************************************************)

Messages == 1 .. MaxMsgs

RestartLabels ==
  {"flush", "clear", "carrier", "reset", "normal", "stopped?", "wake"}

\* The flags stopped and wake_pending do the work of a lock: while start_xmit
\* fills the one transmit buffer and the one echo slot, the previous frame has
\* left both and its interrupt has been taken, the controller is not in reset
\* mode, where the buffer's addresses are those of the acceptance filter, and
\* no thread is restarting the device.  (Without option -R.)
BufferIsFree ==
  optR_error_count = 0 /\ tx \in {"load", "echo", "command"} =>
    /\ ~chip.sending /\ "TI" \notin chip.ir /\ ~chip.reset
    /\ echo = (IF tx = "command" THEN dequeued ELSE 0)
    /\ irq.pc \notin {"ti", "free"} \cup RestartLabels
    /\ timer \notin RestartLabels

\* A completed transmission is echoed exactly once and as itself: what the
\* interrupt handler takes from the echo slot is the frame last sent.  (Without
\* option -R.)
EchoIsTheFrameSent ==
  optR_error_count = 0 /\ irq.pc = "free" =>
    irq.skb = dequeued /\ irq.skb \in sent /\ irq.skb \in live

\* No sk_buff is leaked and none is freed twice: those allocated are the one
\* start_xmit holds, the one in the echo slot (unless can_flush_echo_skb has
\* just freed it) and the one the interrupt handler is about to free.
SkbsAccounted ==
  live = ((IF tx \in {"xmit", "load", "echo"} THEN {dequeued} ELSE {})
          \cup (IF timer = "clear" \/ irq.pc = "clear" THEN {} ELSE {echo})
          \cup {irq.skb}) \ {0}

\* Every message written is put on the bus or given up; a queue that was
\* stopped for a transmission does not stay stopped, whether the transmission
\* completes or the controller goes bus-off and is restarted.  (Without option -R.)
TxProgress ==
  \A m \in Messages :
    optR_error_count = 0 /\ written >= m ~> m \in sent \cup lost

\* The queue never stays stopped, with or without option -R: whatever a restart
\* of a device that was in the middle of start_xmit loses, the messages behind it
\* are dequeued.
QueueDrained == \A m \in Messages : written >= m ~> dequeued >= m

\* "the device is bus-off and no messages can come in or go out" whenever
\* can_restart, started by a bus-off, flushes the echo slot.
RestartsOnlyBusOff == timer \in {"flush", "clear"} => chip.reset

\* "when the device goes bus-off [...] If enabled, a timer is started to trigger
\* bus-off recovery": a controller that goes bus-off is restarted.
BusOffRecovered == restart_ms # 0 => (chip.status.bs ~> ~chip.status.bs)

\* "BUG! echo_skb %d is occupied!" is never logged.
EchoNeverOccupied == ~occupied
=============================================================================
