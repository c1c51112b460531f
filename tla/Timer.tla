-------------------------------- MODULE Timer ---------------------------------
(***************************************************************************)
(* The restart timer of a device (timer.c): a channel, a timer that sends  *)
(* pulses to it and a thread, timer_loop, that receives them.  can_bus_off *)
(* schedules it from the IRQ thread; a restart under option -R (from the   *)
(* IRQ thread, or from the callback itself) and close_candev cancel it,    *)
(* which destroys channel and timer and tells the thread to end.  It is    *)
(* made again when it is scheduled next.                                   *)
(*                                                                         *)
(* A call is one step: calls do not overlap, since a controller that is    *)
(* being restarted raises no bus-off until its last restart.  Failures of  *)
(* ChannelCreate, timer_create and pthread_create are not modelled.        *)
(***************************************************************************)
EXTENDS Integers, Sequences, FiniteSets

CONSTANTS Loops,    \* the threads there can be: bounds how often the timer is made
          Delays    \* restart_ms

ASSUME TimerAssumption == Loops # {} /\ IsFiniteSet(Loops) /\ Delays \subseteq Nat \ {0}

VARIABLES
  created,   \* timer->created
  chan,      \* timer->chid is a channel
  pulses,    \* the pulses queued on it
  armed,     \* the timer runs
  loops,     \* thread -> "none", "turn" (about to receive), "blocked" (in MsgReceive),
             \* "callback", "returning" (the callback has restarted the device) or "ended"
  off,       \* the device is bus-off: the delay its restart was scheduled with, or 0
  caught     \* history: how often the timer was destroyed while no thread was blocked

timerVars == <<created, chan, pulses, armed, loops, off, caught>>

In(pc) == {t \in Loops : loops[t] = pc}

FirstLoop == CHOOSE t \in Loops : TRUE

\* setup_timer
TimerInit ==
  /\ created = TRUE /\ chan = TRUE /\ pulses = <<>> /\ armed = FALSE
  /\ loops = [t \in Loops |-> IF t = FirstLoop THEN "turn" ELSE "none"]
  /\ off = 0 /\ caught = 0

\* TIMER_INTERVAL_NS * ticks: a double, which tv_nsec, a long, holds exactly.
Nanoseconds(ms) == 1000000 * ms

create ==
  \/ created /\ UNCHANGED <<chan, pulses, loops>>
  \/ /\ ~created
     /\ chan' = TRUE /\ pulses' = <<>>
     /\ \E t \in In("none") : loops' = [loops EXCEPT ![t] = "turn"]

\* timer_settime takes less than a second.
Taken(nsec) == nsec >= 0 /\ nsec < 1000000000

\* A delay that is not taken leaves the timer as it was.
schedule_delayed_work(ms) ==
  /\ create
  /\ created' = TRUE
  /\ armed' = IF Taken(Nanoseconds(ms)) THEN Nanoseconds(ms) # 0 ELSE armed
  /\ UNCHANGED caught

\* can_bus_off: a controller that is bus-off stays so until it is restarted.
BusOff(ms) == off = 0 /\ off' = ms /\ schedule_delayed_work(ms)

\* The timer expires: a thread that is blocked in MsgReceive gets the pulse at once.
Expire ==
  /\ armed /\ armed' = FALSE
  /\ \/ /\ \E t \in In("blocked") : loops' = [loops EXCEPT ![t] = "callback"]
        /\ UNCHANGED pulses
     \/ /\ In("blocked") = {}
        /\ pulses' = Append(pulses, "trigger") /\ UNCHANGED loops
  /\ UNCHANGED <<created, chan, off, caught>>

\* timer_loop: on a channel that was destroyed MsgReceive returns an error, which is not
\* looked at, and the thread takes another turn.
Receive(t) ==
  /\ loops[t] = "turn" /\ chan
  /\ \/ /\ pulses = <<>>
        /\ loops' = [loops EXCEPT ![t] = "blocked"] /\ UNCHANGED pulses
     \/ /\ pulses # <<>> /\ pulses' = Tail(pulses)
        /\ loops' = [loops EXCEPT ![t] = "callback"]
  /\ UNCHANGED <<created, chan, armed, off, caught>>

\* can_restart_work
Restart(t) ==
  /\ loops[t] = "callback"
  /\ loops' = [loops EXCEPT ![t] = "returning"] /\ off' = 0
  /\ UNCHANGED <<created, chan, pulses, armed, caught>>

CallbackReturns(t) ==
  /\ loops[t] = "returning"
  /\ loops' = [loops EXCEPT ![t] = "turn"]
  /\ UNCHANGED <<created, chan, pulses, armed, off, caught>>

\* Mutant: the timer is not deleted.
destroyKeeps ==
  /\ created /\ created' = FALSE /\ chan' = FALSE /\ pulses' = <<>>
  /\ \/ /\ \E t \in In("blocked") :
             loops' = [u \in Loops |-> IF u = t THEN "ended"
                                       ELSE IF loops[u] = "blocked" THEN "turn" ELSE loops[u]]
        /\ UNCHANGED caught
     \/ In("blocked") = {} /\ caught' = caught + 1 /\ UNCHANGED loops
  /\ UNCHANGED armed

\* The shutdown pulse ends a thread that is blocked; if none is, the pulse is lost with
\* the channel.  Another thread that was blocked gets an error.
destroy ==
  /\ created /\ created' = FALSE /\ chan' = FALSE /\ pulses' = <<>> /\ armed' = FALSE
  /\ \/ /\ \E t \in In("blocked") :
             loops' = [u \in Loops |-> IF u = t THEN "ended"
                                       ELSE IF loops[u] = "blocked" THEN "turn" ELSE loops[u]]
        /\ UNCHANGED caught
     \/ In("blocked") = {} /\ caught' = caught + 1 /\ UNCHANGED loops

\* can_restart_now and close_candev: the device is restarted, or stopped, afterwards.
cancel_delayed_work_sync == destroy /\ off' = 0

TimerNext ==
  \/ \E ms \in Delays : BusOff(ms)
  \/ Expire
  \/ cancel_delayed_work_sync
  \/ \E t \in Loops : Receive(t) \/ Restart(t) \/ CallbackReturns(t)

TimerSpec == TimerInit /\ [][TimerNext]_timerVars

-----------------------------------------------------------------------------

\* A restart is going to be done.
Pending == armed \/ pulses # <<>>
Alive == In("turn") \cup In("blocked") \cup In("callback") \cup In("returning")

\* A device that is bus-off is going to be restarted, unless its delay was a second or
\* more, which timer_settime refuses.  A restart that is pending has a channel and a
\* thread that receives from it, however often the timer was destroyed and made again
\* before, and cancelling it leaves nothing pending.  A thread outlives its timer,
\* spinning until the next one is made and then sharing its channel, only for a destroy
\* that met no thread in MsgReceive, as when it is called by or during the callback: there
\* is at most one such thread for each.
TimerSound ==
  /\ off # 0 => Pending \/ In("callback") # {} \/ off >= 1000
  /\ Pending => created
  /\ created => chan /\ Alive # {}
  /\ In("blocked") # {} => chan /\ pulses = <<>>
  /\ Cardinality(Alive) <= caught + (IF created THEN 1 ELSE 0)
=============================================================================
