----------------------------- MODULE TxPathProofs -----------------------------
(***************************************************************************)
(* BufferIsFree, EchoIsTheFrameSent, SkbsAccounted and RestartsOnlyBusOff  *)
(* for any number of messages, errors, bus-offs and interrupts, where the  *)
(* interrupts of a bus-off are served within restart_ms.                   *)
(*                                                                         *)
(* The right to use the transmit buffer and the echo slot is passed from   *)
(* the queue to start_xmit, to the controller, to the interrupt handler or *)
(* the restart, and back through wake_pending.  LockInv says where it is,  *)
(* and that whoever does not have it is out of the way.                    *)
(***************************************************************************)
EXTENDS TxPath, TLAPS

Sources == {"TI", "RI", "EI", "EPI", "BEI"}
TxPcs == {"dequeue", "xmit", "load", "echo", "command", "exit"}
IrqPcs == {"receive", "ier", "read", "status", "ti", "free", "err", "rx", "pending?",
           "start", "awake"} \cup RestartLabels
Status == [bs : BOOLEAN, es : BOOLEAN]

ChipRecord ==
  [reset : BOOLEAN, ier : BOOLEAN, ir : SUBSET Sources, status : Status, buf : Nat,
   sending : BOOLEAN]
IrqRecord ==
  [pc : IrqPcs, isrc : SUBSET Sources, status : Status, n : Nat, skb : Nat]

TxType ==
  /\ written \in Nat /\ dequeued \in Nat /\ echo \in Nat /\ optR_error_count \in Nat
  /\ stopped \in BOOLEAN /\ wake_pending \in BOOLEAN /\ armed \in BOOLEAN
  /\ chip \in ChipRecord /\ irq \in IrqRecord
  /\ tx \in TxPcs /\ timer \in {"idle"} \cup RestartLabels

\* The frame was sent, and the interrupt that says so is not handled yet.
Read == irq.pc = "ti" \/ (irq.pc = "status" /\ "TI" \in irq.isrc)
Completed == "TI" \in chip.ir \/ Read

\* A restart is scheduled or done only after a bus-off of the controller, which was in
\* reset mode when the handler read its status, or with option -R.
RestartInv ==
  /\ armed \/ timer # "idle" => optR_error_count = 0
  /\ irq.pc \in RestartLabels => optR_error_count # 0
  /\ chip.sending => ~chip.reset
  /\ chip.status.bs => chip.reset /\ optR_error_count = 0
  /\ irq.pc \in {"ti", "free", "err"} /\ irq.status.bs => chip.reset /\ optR_error_count = 0
  /\ armed => chip.reset /\ timer = "idle"
  /\ timer \in {"flush", "clear", "carrier", "reset", "normal"} =>
       chip.reset /\ irq.pc = "receive" /\ (chip.ier => chip.ir = {})

\* An sk_buff has one owner.
SkbInv ==
  /\ SkbsAccounted
  /\ echo <= dequeued /\ irq.skb <= dequeued
  /\ tx \in {"xmit", "load", "echo"} => echo < dequeued /\ irq.skb < dequeued
  /\ irq.skb # 0 => irq.pc = "free" /\ irq.skb # echo
  /\ timer = "clear" \/ irq.pc = "clear" => echo # 0

\* Neither the controller nor the handler nor a restart has the buffer.
Unused ==
  ~chip.sending /\ ~Completed /\ irq.pc # "free" /\ ~chip.reset /\ timer = "idle"

LockInv ==
  /\ ~stopped =>
       Unused /\ echo = 0 /\ tx \in {"dequeue", "xmit", "exit"} /\ irq.pc # "start"
  /\ tx \in {"xmit", "exit"} => ~stopped
  /\ tx \in {"load", "echo", "command"} =>
       Unused /\ irq.pc # "start" /\ echo = (IF tx = "command" THEN dequeued ELSE 0)
  /\ tx \in {"echo", "command"} => chip.buf = dequeued
  /\ wake_pending /\ irq.pc # "awake" => stopped /\ tx = "dequeue" /\ echo = 0 /\ Unused
  /\ irq.pc \in {"start", "awake"} => wake_pending /\ timer = "idle"
  /\ irq.pc = "awake" => ~armed
  /\ chip.sending =>
       /\ ~Completed /\ irq.pc # "free" /\ timer = "idle"
       /\ chip.buf = dequeued /\ echo = dequeued
  /\ Completed =>
       /\ ~("TI" \in chip.ir /\ Read) /\ irq.pc # "free" /\ ~chip.reset /\ timer = "idle"
       /\ echo = dequeued /\ dequeued \in sent
  /\ irq.pc = "free" =>
       ~chip.reset /\ timer = "idle" /\ echo = 0 /\ irq.skb = dequeued /\ dequeued \in sent
  /\ timer \in {"carrier", "reset", "normal"} => echo = 0
  /\ timer \in {"stopped?", "wake"} => stopped /\ echo = 0 /\ ~chip.reset
  /\ stopped \/ tx = "xmit" => dequeued > 0

\* The inductive invariant.
TxInv == TxType /\ RestartInv /\ SkbInv /\ (optR_error_count = 0 => LockInv)

-----------------------------------------------------------------------------
(* Types.                                                                   *)

LEMMA TxInitSound == Init => TxInv
<1> SUFFICES ASSUME Init PROVE TxInv
  OBVIOUS
<1> USE DEF Init, NoStatus
<1>1. optR_error_count \in Nat
  BY OptionsAssumption
<1>2. chip \in ChipRecord /\ irq \in IrqRecord
  BY DEF ChipRecord, IrqRecord, IrqPcs, Sources, Status
<1>3. TxType
  BY <1>1, <1>2 DEF TxType, TxPcs
<1>4. RestartInv /\ LockInv
  BY DEF RestartInv, LockInv, Unused, Completed, Read, RestartLabels
<1>5. SkbInv
  BY DEF SkbInv, SkbsAccounted
<1> QED
  BY <1>3, <1>4, <1>5 DEF TxInv

\* The program counter moves; the loop of sja1000_interrupt is counted; the sk_buff is freed.
LEMMA IrqMoves ==
  ASSUME irq \in IrqRecord, NEW label \in IrqPcs
  PROVE  /\ [irq EXCEPT !.pc = label] \in IrqRecord
         /\ [irq EXCEPT !.pc = label, !.n = @ + 1] \in IrqRecord
         /\ [irq EXCEPT !.pc = label, !.n = 0] \in IrqRecord
         /\ [irq EXCEPT !.skb = 0, !.pc = label] \in IrqRecord
<1>1. [irq EXCEPT !.pc = label] \in IrqRecord
  BY DEF IrqRecord
<1>2. irq.n + 1 \in Nat
  BY DEF IrqRecord
<1>3. [irq EXCEPT !.pc = label, !.n = irq.n + 1] \in IrqRecord
  BY <1>2 DEF IrqRecord
<1>4. [irq EXCEPT !.pc = label, !.n = 0] \in IrqRecord
  BY DEF IrqRecord
<1>5. [irq EXCEPT !.skb = 0, !.pc = label] \in IrqRecord
  BY DEF IrqRecord
<1> QED
  BY <1>1, <1>3, <1>4, <1>5

LEMMA RestartMoves ==
  ASSUME TxType, NEW r \in {"irq", "timer"}, NEW label \in RestartLabels,
         Goto(r, label) \/ LeaveRestart(r)
  PROVE  irq' \in IrqRecord /\ timer' \in {"idle"} \cup RestartLabels
<1>1. label \in IrqPcs /\ "read" \in IrqPcs
  BY DEF IrqPcs
<1>2. irq \in IrqRecord /\ timer \in {"idle"} \cup RestartLabels
  BY DEF TxType
<1>3. irq' \in IrqRecord
  BY ONLY <1>1, <1>2, IrqMoves, Goto(r, label) \/ LeaveRestart(r) DEF Goto, LeaveRestart
<1>4. timer' \in {"idle"} \cup RestartLabels
  BY ONLY <1>2, Goto(r, label) \/ LeaveRestart(r), label \in RestartLabels
     DEF Goto, LeaveRestart
<1> QED
  BY <1>3, <1>4

LEMMA TxStepType == ASSUME TxType, TxStep \/ Write PROVE TxType'
<1> USE DEF TxType, TxPcs, queueVars, skbVars, canVars, busVars
<1>1. Write => TxType'
  BY DEF Write
<1>2. Dequeue \/ DequeueAllocFails => TxType'
  BY DEF Dequeue, DequeueAllocFails
<1>6. DroppedSkb \/ StopQueue => TxType'
  BY DEF DroppedSkb, StopQueue
<1>3. LoadBuffer => TxType'
  BY DEF LoadBuffer, ChipRecord
<1>4. can_put_echo_skb => TxType'
  BY DEF can_put_echo_skb
<1>5. write_cmdreg => TxType'
  BY DEF write_cmdreg, ChipRecord
<1> QED
  BY <1>1, <1>2, <1>3, <1>4, <1>5, <1>6 DEF TxStep

LEMMA ChipStepType == ASSUME TxType, ChipStep PROVE TxType'
<1>1. UNCHANGED <<queueVars, skbVars, canVars, tx, irq, timer, optR_error_count>>
  BY DEF ChipStep, ChipSends, ChipBusOff, ChipError, ChipReceives
<1>2. chip' \in ChipRecord
  <2> USE DEF TxType, ChipRecord, Sources, Status
  <2>1. ChipSends => chip' \in ChipRecord
    <3>1. chip \in ChipRecord /\ chip.ir \cup {"TI"} \in SUBSET Sources
      OBVIOUS
    <3>2. ChipSends => chip' = [chip EXCEPT !.sending = FALSE, !.ir = chip.ir \cup {"TI"}]
      BY DEF ChipSends
    <3> QED
      BY ONLY <3>1, <3>2 DEF ChipRecord
  <2>2. ChipBusOff => chip' \in ChipRecord
    <3>1. [chip.status EXCEPT !.bs = TRUE] \in Status
      OBVIOUS
    <3>2. ChipBusOff =>
            chip' = [chip EXCEPT !.sending = FALSE, !.reset = TRUE, !.ir = chip.ir \cup {"EI"},
                                 !.status = [chip.status EXCEPT !.bs = TRUE]]
      BY DEF ChipBusOff
    <3>3. chip \in ChipRecord /\ chip.ir \cup {"EI"} \in SUBSET Sources
      OBVIOUS
    <3> QED
      BY ONLY <3>1, <3>2, <3>3 DEF ChipRecord
  <2>3. ChipError => chip' \in ChipRecord
    <3>1. ASSUME NEW isrc \in ErrorKinds PROVE [chip EXCEPT !.ir = @ \cup {isrc}] \in ChipRecord
      BY BoundsAssumption
    <3>2. [chip.status EXCEPT !.es = ~@] \in Status
      OBVIOUS
    <3>3. [chip EXCEPT !.ir = @ \cup {"EI"}, !.status = [chip.status EXCEPT !.es = ~@]] \in ChipRecord
      BY <3>2
    <3>4. ChipError =>
            \/ chip' = [chip EXCEPT !.ir = @ \cup {"EI"}, !.status = [chip.status EXCEPT !.es = ~@]]
            \/ \E isrc \in ErrorKinds : chip' = [chip EXCEPT !.ir = @ \cup {isrc}]
      BY DEF ChipError
    <3> QED
      BY <3>1, <3>3, <3>4
  <2>4. ChipReceives => chip' \in ChipRecord
    BY DEF ChipReceives
  <2> QED
    BY <2>1, <2>2, <2>3, <2>4 DEF ChipStep
<1> QED
  BY <1>1, <1>2 DEF TxType, queueVars, skbVars, canVars

LEMMA RestartType == ASSUME TxType, NEW r \in {"irq", "timer"}, Restart(r) PROVE TxType'
<1>1. irq' \in IrqRecord /\ timer' \in {"idle"} \cup RestartLabels
  <2>1. PICK label \in RestartLabels : Goto(r, label) \/ LeaveRestart(r)
    BY DEF Restart, FlushFree, FlushClear, CarrierOn, set_reset_mode, set_normal_mode,
           TestStopped, WakeQueue, RestartLabels
  <2> QED
    BY <2>1, RestartMoves
<1>2. chip' \in ChipRecord
  <2> USE DEF TxType
  <2>1. set_reset_mode(r) => chip' \in ChipRecord
    BY DEF set_reset_mode, ChipRecord
  <2>2. set_normal_mode(r) => chip' \in ChipRecord
    <3>1. NoStatus \in Status
      BY DEF NoStatus, Status
    <3> QED
      BY <3>1 DEF set_normal_mode, ChipRecord
  <2>3. ~set_reset_mode(r) /\ ~set_normal_mode(r) => chip' = chip
    BY DEF Restart, FlushFree, FlushClear, CarrierOn, TestStopped, WakeQueue, busVars
  <2> QED
    BY <2>1, <2>2, <2>3
<1>3. /\ UNCHANGED <<written, dequeued, stopped, armed, tx, optR_error_count>>
      /\ echo' \in {echo, 0} /\ wake_pending' \in {wake_pending, TRUE}
  BY DEF Restart, FlushFree, FlushClear, CarrierOn, set_reset_mode, set_normal_mode,
         TestStopped, WakeQueue, queueVars, skbVars, canVars
<1>4. echo' \in Nat
  BY <1>3 DEF TxType
<1>5. wake_pending' \in BOOLEAN
  BY <1>3, Zenon DEF TxType
<1> QED
  BY <1>1, <1>2, <1>3, <1>4, <1>5 DEF TxType

\* sja1000_err: restart_work is scheduled only where the status read says bus-off.
LEMMA ErrSchedules ==
  ASSUME TxType, sja1000_err
  PROVE  /\ irq.pc = "err" /\ irq' \in IrqRecord
         /\ irq'.pc \in {"read", "rx", "pending?"} /\ irq'.skb = irq.skb
         /\ armed' \in BOOLEAN /\ (armed' => armed \/ irq.status.bs)
         /\ UNCHANGED <<queueVars, skbVars, busVars, tx, timer, optR_error_count>>
<1>1. irq \in IrqRecord /\ armed \in BOOLEAN
  BY DEF TxType
<1>2. /\ irq.pc = "err"
      /\ UNCHANGED <<queueVars, skbVars, busVars, tx, timer, optR_error_count>>
  BY DEF sja1000_err
<1>3. PICK label \in {"read", "rx", "pending?"} :
        irq' \in {[irq EXCEPT !.pc = label], [irq EXCEPT !.pc = label, !.n = @ + 1]}
  BY DEF sja1000_err
<1>4. irq' \in IrqRecord
  BY <1>1, <1>3, IrqMoves DEF IrqPcs
<1>5. irq'.pc \in {"read", "rx", "pending?"} /\ irq'.skb = irq.skb
  BY <1>1, <1>3 DEF IrqRecord
<1>6. ErrState # state /\ ErrState = "BUS_OFF" => irq.status.bs
  BY DEF ErrState
<1>7. armed' \in BOOLEAN /\ (armed' => armed \/ irq.status.bs)
  BY <1>1, <1>6 DEF sja1000_err, canVars
<1> QED
  BY <1>2, <1>4, <1>5, <1>7

\* netif_rx restarts the device only with option -R.
LEMMA RxRestarts ==
  ASSUME TxType, netif_rx
  PROVE  /\ irq.pc = "rx" /\ irq' \in IrqRecord
         /\ irq'.pc \in {"read", "flush"} /\ irq'.skb = irq.skb
         /\ irq'.pc = "flush" => optR_error_count # 0
         /\ armed' \in {armed, FALSE}
         /\ UNCHANGED <<queueVars, skbVars, busVars, tx, timer, optR_error_count>>
<1>1. irq \in IrqRecord
  BY DEF TxType
<1>2. /\ irq.pc = "rx" /\ armed' \in {armed, FALSE}
      /\ UNCHANGED <<queueVars, skbVars, busVars, tx, timer, optR_error_count>>
  BY DEF netif_rx
<1>3. \/ irq' = [irq EXCEPT !.pc = "flush"] /\ optR_error_count # 0
      \/ irq' = [irq EXCEPT !.pc = "read", !.n = @ + 1]
  BY DEF netif_rx, RestartTrigger
<1>4. irq' \in IrqRecord
  BY <1>1, <1>3, IrqMoves DEF IrqPcs, RestartLabels
<1>5. /\ irq'.pc \in {"read", "flush"} /\ irq'.skb = irq.skb
      /\ irq'.pc = "flush" => optR_error_count # 0
  BY <1>1, <1>3 DEF IrqRecord
<1> QED
  BY <1>2, <1>4, <1>5

LEMMA IrqStepType == ASSUME TxType, IrqStep PROVE TxType'
<1> USE DEF TxType, queueVars, skbVars, canVars, busVars
<1>1. ASSUME NEW label \in IrqPcs, irq' = [irq EXCEPT !.pc = label]
      PROVE  irq' \in IrqRecord
  BY <1>1, IrqMoves
<1>2. Pulse => TxType'
  <2>1. Pulse => irq' \in IrqRecord
    BY IrqMoves DEF Pulse, IrqPcs
  <2> QED
    BY <2>1 DEF Pulse
<1>3. ReadIER => TxType'
  BY <1>1 DEF ReadIER, IrqPcs
<1>4. ReadIR => TxType'
  <2>1. ReadIR => irq' \in IrqRecord /\ chip' \in ChipRecord
    BY DEF ReadIR, IrqRecord, IrqPcs, ChipRecord
  <2> QED
    BY <2>1 DEF ReadIR
<1>5. ReadSR => TxType'
  <2>1. ReadSR => irq' \in IrqRecord
    BY DEF ReadSR, IrqRecord, IrqPcs, ChipRecord
  <2> QED
    BY <2>1 DEF ReadSR
<1>5a. ReadSRAgain => TxType'
  <2>1. ReadSRAgain => irq' \in IrqRecord
    BY DEF ReadSRAgain, IrqRecord, ChipRecord
  <2> QED
    BY <2>1 DEF ReadSRAgain
<1>6. TakeEcho => TxType'
  <2>1. TakeEcho => irq' \in IrqRecord
    BY DEF TakeEcho, IrqRecord, IrqPcs
  <2> QED
    BY <2>1 DEF TakeEcho
<1>7. FreeEcho => TxType'
  <2>1. FreeEcho => irq' \in IrqRecord
    BY IrqMoves DEF FreeEcho, IrqPcs
  <2> QED
    BY <2>1 DEF FreeEcho
<1>8. sja1000_err => TxType'
  BY ErrSchedules
<1>9. netif_rx => TxType'
  BY RxRestarts
<1>10. TestWakePending => TxType'
  BY <1>1 DEF TestWakePending, IrqPcs
<1>11. queue_start_signal => TxType'
  BY <1>1 DEF queue_start_signal, IrqPcs
<1>12. queue_awake => TxType'
  BY <1>1 DEF queue_awake, IrqPcs
<1> HIDE DEF TxType, queueVars, skbVars, canVars, busVars
<1> QED
  BY <1>2, <1>3, <1>4, <1>5, <1>5a, <1>6, <1>7, <1>8, <1>9, <1>10, <1>11, <1>12, RestartType
     DEF IrqStep

LEMMA TypeKept == ASSUME TxType, [Next]_vars PROVE TxType'
<1>1. TimerFires => TxType'
  BY DEF TimerFires, TxType, queueVars, skbVars, busVars, RestartLabels
<1>2. UNCHANGED vars => TxType'
  BY DEF vars, TxType, queueVars, skbVars, canVars, busVars
<1> QED
  BY <1>1, <1>2, TxStepType, ChipStepType, RestartType, IrqStepType DEF Next, TimerStep

-----------------------------------------------------------------------------
(* The invariant is kept.                                                   *)

\* An error that is no bus-off neither completes a transmission nor ends one.
LEMMA ErrorInterrupts ==
  ASSUME TxType, ChipError
  PROVE  /\ ~chip.reset
         /\ chip'.reset = chip.reset /\ chip'.sending = chip.sending /\ chip'.buf = chip.buf
         /\ chip'.status.bs = chip.status.bs /\ ("TI" \in chip'.ir <=> "TI" \in chip.ir)
         /\ UNCHANGED <<queueVars, skbVars, canVars, sent, tx, irq, timer, optR_error_count>>
<1>1. /\ ~chip.reset
      /\ UNCHANGED <<queueVars, skbVars, canVars, sent, tx, irq, timer, optR_error_count>>
  BY DEF ChipError
<1>2. chip \in ChipRecord /\ "TI" \notin ErrorKinds
  BY BoundsAssumption DEF TxType
<1>3. CASE \E isrc \in ErrorKinds \ {"EI"} : chip' = [chip EXCEPT !.ir = @ \cup {isrc}]
  BY <1>1, <1>2, <1>3 DEF ChipRecord
<1>4. CASE chip' = [chip EXCEPT !.ir = @ \cup {"EI"}, !.status.es = ~@]
  BY <1>1, <1>2, <1>4 DEF ChipRecord, Status
<1> QED
  BY <1>3, <1>4 DEF ChipError

\* A restart is started only by a bus-off or with option -R.
LEMMA RestartKept ==
  ASSUME DelayOutlastsIrq, TxType, RestartInv, optR_error_count = 0 => LockInv, [Next]_vars
  PROVE  RestartInv'
<1> USE DEF RestartInv, RestartLabels, TxType, ChipRecord, IrqRecord,
        Status, NoStatus, queueVars, skbVars, canVars, busVars
<1>1. Write => RestartInv'
  BY DEF Write
<1>2. Dequeue => RestartInv'
  BY DEF Dequeue
<1>3. DequeueAllocFails => RestartInv'
  BY DEF DequeueAllocFails
<1>4. DroppedSkb => RestartInv'
  BY DEF DroppedSkb
<1>5. StopQueue => RestartInv'
  BY DEF StopQueue
<1>6. LoadBuffer => RestartInv'
  BY DEF LoadBuffer
<1>7. can_put_echo_skb => RestartInv'
  BY DEF can_put_echo_skb
<1>8. write_cmdreg => RestartInv'
  BY DEF write_cmdreg
<1>9. Pulse => RestartInv'
  BY DEF Pulse
<1>10. ReadIER => RestartInv'
  BY DEF ReadIER
<1>11. ReadIR => RestartInv'
  BY DEF ReadIR
<1>12. ReadSR => RestartInv'
  BY DEF ReadSR
<1>12a. ReadSRAgain => RestartInv'
  BY DEF ReadSRAgain
<1>13. TakeEcho => RestartInv'
  BY DEF TakeEcho
<1>14. FreeEcho => RestartInv'
  BY DEF FreeEcho
<1>15. sja1000_err => RestartInv'
  <2>1. irq.pc = "err" /\ irq.status.bs => timer = "idle"
    BY DEF LockInv
  <2> QED
    BY <2>1, ErrSchedules
<1>16. netif_rx => RestartInv'
  BY RxRestarts
<1>17. TestWakePending => RestartInv'
  BY DEF TestWakePending
<1>18. queue_start_signal => RestartInv'
  BY DEF queue_start_signal
<1>19. queue_awake => RestartInv'
  BY DEF queue_awake
<1>20. ASSUME NEW r \in {"irq", "timer"}, FlushFree(r) PROVE RestartInv'
  BY <1>20 DEF FlushFree, At, Goto, LeaveRestart
<1>21. ASSUME NEW r \in {"irq", "timer"}, FlushClear(r) PROVE RestartInv'
  BY <1>21 DEF FlushClear, At, Goto, LeaveRestart
<1>22. ASSUME NEW r \in {"irq", "timer"}, CarrierOn(r) PROVE RestartInv'
  BY <1>22 DEF CarrierOn, At, Goto, LeaveRestart
<1>23. ASSUME NEW r \in {"irq", "timer"}, set_reset_mode(r) PROVE RestartInv'
  <2>1. UNCHANGED <<armed, optR_error_count>>
    BY <1>23 DEF set_reset_mode
  <2>2. /\ chip'.status = chip.status /\ chip'.ir = chip.ir
        /\ chip.reset => chip'.reset
        /\ chip'.sending => chip.sending /\ ~chip'.reset
        /\ chip'.ier => chip.ier
    BY <1>23 DEF set_reset_mode
  <2>3. CASE r = "irq"
    BY <1>23, <2>1, <2>2, <2>3 DEF set_reset_mode, At, Goto
  <2>4. CASE r = "timer"
    BY <1>23, <2>1, <2>2, <2>4 DEF set_reset_mode, At, Goto
  <2> QED
    BY <2>3, <2>4
<1>24. ASSUME NEW r \in {"irq", "timer"}, set_normal_mode(r) PROVE RestartInv'
  BY <1>24 DEF set_normal_mode, At, Goto, LeaveRestart
<1>25. ASSUME NEW r \in {"irq", "timer"}, TestStopped(r) PROVE RestartInv'
  BY <1>25 DEF TestStopped, At, Goto, LeaveRestart
<1>26. ASSUME NEW r \in {"irq", "timer"}, WakeQueue(r) PROVE RestartInv'
  BY <1>26 DEF WakeQueue, At, Goto, LeaveRestart
<1>27. TimerFires => RestartInv'
  BY DEF TimerFires
<1>28. ChipSends => RestartInv'
  BY DEF ChipSends
<1>29. ChipBusOff => RestartInv'
  <2>1. ChipBusOff => optR_error_count = 0 /\ timer = "idle"
    BY DEF ChipBusOff, LockInv
  <2>2. ChipBusOff =>
          /\ chip'.reset /\ ~chip'.sending
          /\ UNCHANGED <<queueVars, skbVars, canVars, tx, irq, timer, optR_error_count>>
    BY DEF ChipBusOff
  <2> QED
    BY <2>1, <2>2
<1>30. ChipError => RestartInv'
  BY ErrorInterrupts
<1>31. ChipReceives => RestartInv'
  BY DEF ChipReceives
<1>32. UNCHANGED vars => RestartInv'
  BY DEF vars
<1> HIDE DEF RestartInv, RestartLabels, TxType, ChipRecord, IrqRecord,
        Status, NoStatus, queueVars, skbVars, canVars, busVars
<1> QED
  BY <1>1, <1>2, <1>3, <1>4, <1>5, <1>6, <1>7, <1>8, <1>9, <1>10, <1>11, <1>12, <1>12a,
     <1>13, <1>14, <1>15, <1>16, <1>17, <1>18, <1>19, <1>20, <1>21, <1>22, <1>23,
     <1>24, <1>25, <1>26, <1>27, <1>28, <1>29, <1>30, <1>31, <1>32
     DEF Next, TxStep, IrqStep, TimerStep, ChipStep, Restart

\* An sk_buff changes hands, and is freed by the one who has it.
LEMMA SkbKept ==
  ASSUME TxType, RestartInv, SkbInv, [Next]_vars
  PROVE  SkbInv'
<1> USE DEF SkbInv, SkbsAccounted, RestartInv, RestartLabels, TxType, ChipRecord, IrqRecord,
        queueVars, skbVars, canVars, busVars
<1>1. Write => SkbInv'
  BY DEF Write
<1>2. Dequeue => SkbInv'
  BY DEF Dequeue
<1>3. DequeueAllocFails => SkbInv'
  BY DEF DequeueAllocFails
<1>4. DroppedSkb => SkbInv'
  BY DEF DroppedSkb
<1>5. StopQueue => SkbInv'
  BY DEF StopQueue
<1>6. LoadBuffer => SkbInv'
  BY DEF LoadBuffer
<1>7. can_put_echo_skb => SkbInv'
  BY DEF can_put_echo_skb
<1>8. write_cmdreg => SkbInv'
  BY DEF write_cmdreg
<1>9. Pulse => SkbInv'
  BY DEF Pulse
<1>10. ReadIER => SkbInv'
  BY DEF ReadIER
<1>11. ReadIR => SkbInv'
  BY DEF ReadIR
<1>12. ReadSR => SkbInv'
  BY DEF ReadSR
<1>12a. ReadSRAgain => SkbInv'
  BY DEF ReadSRAgain
<1>13. TakeEcho => SkbInv'
  BY DEF TakeEcho
<1>14. FreeEcho => SkbInv'
  BY DEF FreeEcho
<1>15. sja1000_err => SkbInv'
  BY ErrSchedules
<1>16. netif_rx => SkbInv'
  BY RxRestarts
<1>17. TestWakePending => SkbInv'
  BY DEF TestWakePending
<1>18. queue_start_signal => SkbInv'
  BY DEF queue_start_signal
<1>19. queue_awake => SkbInv'
  BY DEF queue_awake
<1>20. ASSUME NEW r \in {"irq", "timer"}, FlushFree(r) PROVE SkbInv'
  BY <1>20 DEF FlushFree, At, Goto, LeaveRestart
<1>21. ASSUME NEW r \in {"irq", "timer"}, FlushClear(r) PROVE SkbInv'
  BY <1>21 DEF FlushClear, At, Goto, LeaveRestart
<1>22. ASSUME NEW r \in {"irq", "timer"}, CarrierOn(r) PROVE SkbInv'
  BY <1>22 DEF CarrierOn, At, Goto, LeaveRestart
<1>23. ASSUME NEW r \in {"irq", "timer"}, set_reset_mode(r) PROVE SkbInv'
  BY <1>23 DEF set_reset_mode, At, Goto, LeaveRestart
<1>24. ASSUME NEW r \in {"irq", "timer"}, set_normal_mode(r) PROVE SkbInv'
  BY <1>24 DEF set_normal_mode, At, Goto, LeaveRestart
<1>25. ASSUME NEW r \in {"irq", "timer"}, TestStopped(r) PROVE SkbInv'
  BY <1>25 DEF TestStopped, At, Goto, LeaveRestart
<1>26. ASSUME NEW r \in {"irq", "timer"}, WakeQueue(r) PROVE SkbInv'
  BY <1>26 DEF WakeQueue, At, Goto, LeaveRestart
<1>27. TimerFires => SkbInv'
  BY DEF TimerFires
<1>28. ChipSends => SkbInv'
  BY DEF ChipSends
<1>29. ChipBusOff => SkbInv'
  BY DEF ChipBusOff
<1>30. ChipError => SkbInv'
  BY ErrorInterrupts
<1>31. ChipReceives => SkbInv'
  BY DEF ChipReceives
<1>32. UNCHANGED vars => SkbInv'
  BY DEF vars
<1> HIDE DEF SkbInv, SkbsAccounted, RestartInv, RestartLabels, TxType, ChipRecord, IrqRecord,
        queueVars, skbVars, canVars, busVars
<1> QED
  BY <1>1, <1>2, <1>3, <1>4, <1>5, <1>6, <1>7, <1>8, <1>9, <1>10, <1>11, <1>12, <1>12a,
     <1>13, <1>14, <1>15, <1>16, <1>17, <1>18, <1>19, <1>20, <1>21, <1>22, <1>23,
     <1>24, <1>25, <1>26, <1>27, <1>28, <1>29, <1>30, <1>31, <1>32
     DEF Next, TxStep, IrqStep, TimerStep, ChipStep, Restart

LEMMA LockSame ==
  ASSUME LockInv,
         UNCHANGED <<dequeued, stopped, wake_pending, echo, chip, armed, sent, tx, irq, timer>>
  PROVE  LockInv'
BY DEF LockInv, Unused, Completed, Read

\* The buffer and the echo slot are handed on.
LEMMA LockKept ==
  ASSUME DelayOutlastsIrq, TxType, RestartInv, SkbInv, LockInv, optR_error_count = 0,
         [Next]_vars
  PROVE  LockInv'
<1> USE DEF LockInv, Unused, Completed, Read, RestartInv, TxType, ChipRecord, IrqRecord,
        queueVars, skbVars, canVars, busVars
<1>1. Write => LockInv'
  <2>1. Write =>
          UNCHANGED <<dequeued, stopped, wake_pending, echo, chip, armed, sent, tx, irq, timer>>
    BY DEF Write
  <2> QED
    BY ONLY <2>1, LockInv, LockSame
<1>2. Dequeue => LockInv'
  <2> SUFFICES ASSUME Dequeue PROVE LockInv'
    OBVIOUS
  <2>1. tx = "dequeue" /\ ~stopped /\ tx' = "xmit" /\ dequeued' > 0
    BY DEF Dequeue
  <2>2. UNCHANGED <<stopped, wake_pending, echo, chip, armed, sent, irq, timer>>
    BY DEF Dequeue
  <2> QED
    BY ONLY <2>1, <2>2, LockInv DEF LockInv, Unused, Completed, Read
<1>3. DequeueAllocFails => LockInv'
  BY DEF DequeueAllocFails
<1>4. DroppedSkb => LockInv'
  BY DEF DroppedSkb
<1>5. StopQueue => LockInv'
  BY DEF StopQueue
<1>6. LoadBuffer => LockInv'
  BY DEF LoadBuffer
<1>7. can_put_echo_skb => LockInv'
  BY DEF can_put_echo_skb
<1>8. write_cmdreg => LockInv'
  BY DEF write_cmdreg
<1>9. Pulse => LockInv'
  BY DEF Pulse
<1>10. ReadIER => LockInv'
  BY DEF ReadIER
<1>11. ReadIR => LockInv'
  BY DEF ReadIR
<1>12. ReadSR => LockInv'
  BY DEF ReadSR
<1>12a. ReadSRAgain => LockInv'
  BY DEF ReadSRAgain
<1>13. TakeEcho => LockInv'
  BY DEF TakeEcho
<1>14. FreeEcho => LockInv'
  <2> SUFFICES ASSUME FreeEcho PROVE LockInv'
    OBVIOUS
  <2>1. irq.pc = "free" /\ irq'.pc = "err" /\ irq'.isrc = irq.isrc
    BY DEF FreeEcho
  <2>2. UNCHANGED <<dequeued, stopped, echo, chip, armed, sent, tx, timer>>
    BY DEF FreeEcho
  <2>3. /\ stopped /\ tx = "dequeue" /\ echo = 0
        /\ ~chip.sending /\ "TI" \notin chip.ir /\ ~chip.reset /\ timer = "idle"
    BY <2>1 DEF TxPcs
  <2> QED
    BY <2>1, <2>2, <2>3
<1>15. sja1000_err => LockInv'
  <2> SUFFICES ASSUME sja1000_err PROVE LockInv'
    OBVIOUS
  <2>1. irq.pc = "err" /\ irq'.pc \in {"read", "rx", "pending?"}
    BY ErrSchedules
  <2>2. UNCHANGED <<dequeued, stopped, wake_pending, echo, chip, sent, tx, timer>>
    BY ErrSchedules
  <2> QED
    BY ONLY <2>1, <2>2, LockInv DEF LockInv, Unused, Completed, Read
<1>16. netif_rx => LockInv'
  <2> SUFFICES ASSUME netif_rx PROVE LockInv'
    OBVIOUS
  <2>1. irq.pc = "rx" /\ irq'.pc = "read" /\ irq'.skb = irq.skb
    BY RxRestarts
  <2>2. UNCHANGED <<dequeued, stopped, wake_pending, echo, chip, sent, tx, timer>>
    BY RxRestarts
  <2> QED
    BY <2>1, <2>2
<1>17. TestWakePending => LockInv'
  BY DEF TestWakePending
<1>18. queue_start_signal => LockInv'
  BY DEF queue_start_signal
<1>19. queue_awake => LockInv'
  BY DEF queue_awake
<1>20. ~Restart("irq")
  BY DEF Restart, FlushFree, FlushClear, CarrierOn, set_reset_mode, set_normal_mode, TestStopped, WakeQueue, At, RestartLabels
<1>21. FlushFree("timer") => LockInv'
  BY DEF FlushFree, At, Goto, LeaveRestart
<1>22. FlushClear("timer") => LockInv'
  BY DEF FlushClear, At, Goto, LeaveRestart
<1>23. CarrierOn("timer") => LockInv'
  BY DEF CarrierOn, At, Goto, LeaveRestart
<1>24. set_reset_mode("timer") => LockInv'
  <2> SUFFICES ASSUME set_reset_mode("timer") PROVE LockInv'
    OBVIOUS
  <2>1. timer = "reset" /\ timer' = "normal" /\ irq' = irq
    BY DEF set_reset_mode, At, Goto
  <2>2. UNCHANGED <<dequeued, stopped, wake_pending, echo, armed, sent, tx>>
    BY DEF set_reset_mode
  <2>3. /\ chip'.reset /\ ~chip'.sending /\ chip'.ir = chip.ir /\ chip'.buf = chip.buf
    BY <2>1 DEF set_reset_mode
  <2> QED
    BY <2>1, <2>2, <2>3
<1>25. set_normal_mode("timer") => LockInv'
  BY DEF set_normal_mode, At, Goto, LeaveRestart
<1>26. TestStopped("timer") => LockInv'
  BY DEF TestStopped, At, Goto, LeaveRestart
<1>27. WakeQueue("timer") => LockInv'
  <2> SUFFICES ASSUME WakeQueue("timer") PROVE LockInv'
    OBVIOUS
  <2>1. timer = "wake" /\ timer' = "idle" /\ irq' = irq
    BY DEF WakeQueue, At, LeaveRestart
  <2>2. UNCHANGED <<dequeued, stopped, echo, chip, armed, sent, tx>>
    BY DEF WakeQueue
  <2>3. /\ stopped /\ tx = "dequeue" /\ echo = 0 /\ irq.pc \notin {"start", "awake", "free"}
        /\ ~chip.sending /\ ~Completed /\ ~chip.reset
    BY <2>1 DEF TxPcs
  <2> QED
    BY <2>1, <2>2, <2>3
<1>28. TimerFires => LockInv'
  <2> SUFFICES ASSUME TimerFires PROVE LockInv'
    OBVIOUS
  <2>1. chip.reset /\ ~chip.sending /\ irq.pc = "receive" /\ timer' = "flush" /\ ~armed'
    BY DEF TimerFires
  <2>2. UNCHANGED <<dequeued, stopped, wake_pending, echo, chip, sent, tx, irq>>
    BY DEF TimerFires
  <2> QED
    BY ONLY <2>1, <2>2, LockInv DEF LockInv, Unused, Completed, Read
<1>29. ChipSends => LockInv'
  BY DEF ChipSends
<1>30. ChipBusOff => LockInv'
  BY DEF ChipBusOff
<1>31. ChipError => LockInv'
  <2> SUFFICES ASSUME ChipError PROVE LockInv'
    OBVIOUS
  <2>1. /\ chip'.reset = chip.reset /\ chip'.sending = chip.sending /\ chip'.buf = chip.buf
        /\ "TI" \in chip'.ir <=> "TI" \in chip.ir
    BY ErrorInterrupts
  <2>2. UNCHANGED <<dequeued, stopped, wake_pending, echo, armed, sent, tx, irq, timer>>
    BY ErrorInterrupts
  <2> QED
    BY ONLY <2>1, <2>2, LockInv DEF LockInv, Unused, Completed, Read
<1>32. ChipReceives => LockInv'
  BY DEF ChipReceives
<1>33. UNCHANGED vars => LockInv'
  BY LockSame DEF vars
<1> HIDE DEF LockInv, Unused, Completed, Read, RestartInv, TxType, ChipRecord, IrqRecord,
        queueVars, skbVars, canVars, busVars
<1> QED
  BY <1>1, <1>2, <1>3, <1>4, <1>5, <1>6, <1>7, <1>8, <1>9, <1>10, <1>11, <1>12, <1>12a,
     <1>13, <1>14, <1>15, <1>16, <1>17, <1>18, <1>19, <1>20, <1>21, <1>22, <1>23,
     <1>24, <1>25, <1>26, <1>27, <1>28, <1>29, <1>30, <1>31, <1>32, <1>33
     DEF Next, TxStep, IrqStep, TimerStep, ChipStep, Restart

LEMMA TxInvKept == ASSUME DelayOutlastsIrq, TxInv, [Next]_vars PROVE TxInv'
<1>1. optR_error_count' = optR_error_count
  BY DEF Next, Write, TxStep, Dequeue, DequeueAllocFails, DroppedSkb, StopQueue, LoadBuffer,
         can_put_echo_skb, write_cmdreg, IrqStep, Pulse, ReadIER, ReadIR, ReadSR, ReadSRAgain, TakeEcho,
         FreeEcho, sja1000_err, netif_rx, TestWakePending, queue_start_signal, queue_awake,
         TimerStep, TimerFires, Restart, FlushFree, FlushClear, CarrierOn, set_reset_mode,
         set_normal_mode, TestStopped, WakeQueue, ChipStep, ChipSends, ChipBusOff,
         ChipError, ChipReceives, vars
<1> QED
  BY <1>1, TypeKept, RestartKept, SkbKept, LockKept DEF TxInv

\* The inductive invariant, where interrupts are served within restart_ms.
THEOREM TxInvHolds == ASSUME DelayOutlastsIrq PROVE Spec => []TxInv
<1>1. Init => TxInv
  BY TxInitSound
<1>2. TxInv /\ [Next]_vars => TxInv'
  BY TxInvKept
<1> QED
  BY <1>1, <1>2, PTL DEF Spec

\* No sk_buff leaks and none is freed twice, whatever start_xmit, the interrupt handler
\* and the restarts do to the echo slot, with and without option -R.
THEOREM SkbsAccountedHolds == ASSUME DelayOutlastsIrq PROVE Spec => []SkbsAccounted
<1>1. TxInv => SkbsAccounted
  BY DEF TxInv, SkbInv
<1> QED
  BY <1>1, TxInvHolds, PTL

\* start_xmit writes to a transmit buffer and an echo slot that nobody else uses.
THEOREM BufferIsFreeHolds == ASSUME DelayOutlastsIrq PROVE Spec => []BufferIsFree
<1>1. TxInv => BufferIsFree
  BY DEF TxInv, BufferIsFree, LockInv, Unused, Completed, Read, RestartInv, RestartLabels
<1> QED
  BY <1>1, TxInvHolds, PTL

\* What the handler of the transmit interrupt echoes is the frame that was sent.
THEOREM EchoIsTheFrameSentHolds == ASSUME DelayOutlastsIrq PROVE Spec => []EchoIsTheFrameSent
<1>1. TxInv => EchoIsTheFrameSent
  <2> SUFFICES ASSUME TxInv, optR_error_count = 0, irq.pc = "free"
               PROVE  irq.skb = dequeued /\ irq.skb \in sent /\ irq.skb \in live
    BY DEF EchoIsTheFrameSent
  <2>1. irq.skb = dequeued /\ dequeued \in sent /\ dequeued > 0
    BY DEF TxInv, LockInv, Unused
  <2>2. irq.skb # 0
    BY <2>1 DEF TxInv, TxType
  <2>3. irq.skb \in live
    BY <2>2 DEF TxInv, SkbInv, SkbsAccounted
  <2> QED
    BY <2>1, <2>3
<1> QED
  BY <1>1, TxInvHolds, PTL

\* can_restart_work flushes the echo slot only of a controller that is bus-off.
THEOREM RestartsOnlyBusOffHolds == ASSUME DelayOutlastsIrq PROVE Spec => []RestartsOnlyBusOff
<1>1. TxInv => RestartsOnlyBusOff
  BY DEF TxInv, RestartInv, RestartsOnlyBusOff
<1> QED
  BY <1>1, TxInvHolds, PTL
=============================================================================
