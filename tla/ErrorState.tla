------------------------------ MODULE ErrorState ------------------------------
(***************************************************************************)
(* How the driver follows the error state of a controller: the error       *)
(* interrupts (sja1000_err), the state change and its counters (dev.c),    *)
(* what netif_rx does with the error frame under option -R, the restart,   *)
(* and CAN_DEVCTL_GET_STATS.  An interrupt and a restart are each one step *)
(* here; their interleaving is in TxPath.                                  *)
(*                                                                         *)
(* A level is 0 (error active), 1 (warning), 2 (passive) or 3 (bus-off),   *)
(* as in enum can_state.                                                   *)
(***************************************************************************)
EXTENDS Integers

CONSTANTS ErrorEvents,     \* what may happen at a controller: see below
          RestartDelays,   \* restart_ms, option -r
          ErrorLimits,     \* option -R
          FreeSkbs,        \* the sk_buffs the pool has left
          MaxInterrupts

BUS_OFF == 3
Larger(x, y) == IF x < y THEN y ELSE x

Counters == [error_warning |-> 0, error_passive |-> 0, bus_off |-> 0, bus_error |-> 0,
             arbitration_lost |-> 0, restarts |-> 0, rx_errors |-> 0, tx_errors |-> 0, rx_over |-> 0]

\* frame: the error frame that is made, as the set of what it reports.
Device0(restart_ms) ==
  [state |-> 0, stats |-> Counters, carrier |-> TRUE, armed |-> FALSE, restart_ms |-> restart_ms,
   frame |-> {}, wild |-> FALSE]

-----------------------------------------------------------------------------

can_update_state_error_stats(d, new) ==
  IF new <= d.state THEN d
  ELSE CASE new = 1 -> [d EXCEPT !.stats.error_warning = @ + 1]
         [] new = 2 -> [d EXCEPT !.stats.error_passive = @ + 1]
         [] new = 3 -> [d EXCEPT !.stats.bus_off = @ + 1]

can_tx_state_to_frame(s) == IF s > 2 THEN {} ELSE {<<"active", "tx_warning", "tx_passive">>[s + 1]}
can_rx_state_to_frame(s) == IF s > 2 THEN {} ELSE {<<"active", "rx_warning", "rx_passive">>[s + 1]}

\* skb: there is an error frame.  If there is none, cf was never written and the test
\* for NULL tells nothing: the frame is written through a wild pointer.
can_change_state(d, skb, tx, rx) ==
  LET new == Larger(tx, rx)
      d1 == [can_update_state_error_stats(d, new) EXCEPT !.state = new, !.wild = @ \/ ~skb]
      flags == IF new = BUS_OFF THEN {"BUSOFF"}
               ELSE {"CRTL"} \cup (IF tx >= rx THEN can_tx_state_to_frame(tx) ELSE {})
                             \cup (IF tx <= rx THEN can_rx_state_to_frame(rx) ELSE {})
  IN  IF new = d.state THEN d ELSE [d1 EXCEPT !.frame = @ \cup flags]

netif_carrier_on(d) == [d EXCEPT !.carrier = TRUE]
netif_carrier_off(d) == [d EXCEPT !.carrier = FALSE]
netif_carrier_ok(d) == d.carrier

can_bus_off(d) == [netif_carrier_off(d) EXCEPT !.armed = d.restart_ms # 0]

\* sja1000_err: the state after looking at EI, and after EPI too.
AfterEI(state, isrc, status) ==
  IF "EI" \notin isrc THEN state
  ELSE IF status.bs THEN BUS_OFF ELSE IF status.es THEN 1 ELSE 0

\* Mutant: error passive is not left by a second EPI.
AfterEPISticks(state, isrc) == IF "EPI" \in isrc THEN 2 ELSE state

AfterEPI(state, isrc) ==
  IF "EPI" \notin isrc THEN state ELSE IF state = 2 THEN 1 ELSE 2

\* ecc_tx: the bus error was in a transmission.
CountErrors(s, isrc, ecc_tx) ==
  LET doi == IF "DOI" \in isrc THEN 1 ELSE 0
      bei == IF "BEI" \in isrc THEN 1 ELSE 0
      ali == IF "ALI" \in isrc THEN 1 ELSE 0
  IN  [s EXCEPT !.rx_over = @ + doi, !.bus_error = @ + bei, !.arbitration_lost = @ + ali,
                !.rx_errors = @ + doi + (IF ecc_tx THEN 0 ELSE bei),
                !.tx_errors = @ + (IF ecc_tx THEN bei ELSE 0)]

\* No card has SJA1000_QUIRK_RESET_ON_OVERRUN.  c: the error counters, as levels.
sja1000_err(d, skb, isrc, status, c, ecc_tx) ==
  LET warned == AfterEI(d.state, isrc, status)
      state == AfterEPI(warned, isrc)
      cnt == IF warned = BUS_OFF THEN {} ELSE {"CNT"}
      d1 == [d EXCEPT !.stats = CountErrors(@, isrc, ecc_tx),
                      !.frame = (isrc \cap {"DOI", "BEI", "ALI"}) \cup cnt]
      d2 == can_change_state(d1, skb, IF c.tx >= c.rx THEN state ELSE 0,
                                      IF c.tx <= c.rx THEN state ELSE 0)
  IN  IF state = d.state THEN d1
      ELSE IF state = BUS_OFF THEN can_bus_off(d2) ELSE d2

-----------------------------------------------------------------------------
(* Restarts                                                                 *)

\* netif_rx: whether option -R has a device restarted that is in a state.
restart_trigger(optR, state) ==
  optR # 0 /\ CASE state = 0 -> optR < 96
                [] state = 1 -> optR < 128
                [] state = 2 -> optR < 256
                [] state = 3 -> optR >= 256

\* can_restart with n sk_buffs left: sja1000_set_mode leaves the controller error active.
\* Its own error frame, sent while the state is still bus-off, may trigger option -R: then
\* each restart is inside the one before, until there is no sk_buff for another frame; all
\* of them end alike.
can_restart(d, optR, n) ==
  LET nested == IF restart_trigger(optR, BUS_OFF) THEN n ELSE 0
  IN  [netif_carrier_on(d) EXCEPT !.state = 0, !.stats.restarts = @ + 1 + nested]

\* The timer is cancelled.
can_restart_now(d, optR, n) == can_restart([d EXCEPT !.armed = FALSE], optR, n)

\* The timer has expired.
can_restart_work(d, optR, n) == can_restart([d EXCEPT !.armed = FALSE], optR, n)

\* Option -R: the restart is forced with restart_ms 0 and the state bus-off.
netif_rx_error(d, optR, n) ==
  IF restart_trigger(optR, d.state) THEN can_restart_now(d, optR, n) ELSE d

\* CAN_DEVCTL_GET_STATS
GetStats(d) ==
  [total_frame_errors |-> d.stats.rx_errors + d.stats.tx_errors,
   stuff_errors |-> d.stats.arbitration_lost, hw_receive_overflows |-> d.stats.rx_over,
   error_warning_state_count |-> d.stats.error_warning,
   error_passive_state_count |-> d.stats.error_passive,
   bus_off_state_count |-> d.stats.bus_off, bus_idle_count |-> d.stats.bus_error,
   wake_up_count |-> d.stats.restarts]

-----------------------------------------------------------------------------
(* The controller.  An event moves its error counters to the levels e.tx    *)
(* and e.rx before the interrupt is read, with further errors e.also;       *)
(* e.skb: there is a free sk_buff.  A level the counters pass and leave     *)
(* between two interrupts is not seen.  A restart resets the controller.    *)

ASSUME ErrorAssumption ==
  /\ ErrorEvents \subseteq [tx : 0 .. 3, rx : 0 .. 2, also : SUBSET {"DOI", "BEI", "ALI"}, skb : BOOLEAN]
  /\ RestartDelays \subseteq Nat
  /\ ErrorLimits \subseteq Nat
  /\ FreeSkbs \in Nat

VARIABLES
  device,    \* what the driver knows
  optR,      \* option -R
  levels,    \* the controller's counters, as levels
  told,      \* history: device.state should be the level of the controller,
  always,    \*   and should have been after every interrupt
  entered,   \* history: how often the controller entered levels 1 to 3
  errors,    \* history: bus errors and overruns
  named,     \* history: every error frame told the right direction
  interrupts

errorVars == <<device, optR, levels, told, always, entered, errors, named, interrupts>>

Level(c) == Larger(c.tx, c.rx)
Reset == [tx |-> 0, rx |-> 0]

\* EI: the warning limit was crossed, or bus-off; EPI: the passive limit was.
Raised(c, e) ==
  e.also \cup (IF (Level(c) = 0) # (Level(e) = 0) \/ Level(e) = BUS_OFF THEN {"EI"} ELSE {})
         \cup (IF (Level(c) < 2) # (Level(e) < 2) THEN {"EPI"} ELSE {})

\* The device after sja1000_err, before netif_rx has the frame.
Told(d, c, e) ==
  sja1000_err(d, e.skb, Raised(c, e), [bs |-> Level(e) = BUS_OFF, es |-> Level(e) > 0],
              [tx |-> e.tx, rx |-> e.rx], e.tx >= e.rx)

\* The frame of an interrupt that took the level to l names the larger counter.
Names(frame, e) ==
  Level(e) \in 1 .. 2 =>
    /\ can_tx_state_to_frame(Level(e)) \subseteq frame <=> e.tx >= e.rx
    /\ can_rx_state_to_frame(Level(e)) \subseteq frame <=> e.rx >= e.tx

ErrorInit ==
  /\ \E ms \in RestartDelays : device = Device0(ms)
  /\ optR \in ErrorLimits /\ levels = Reset
  /\ told = TRUE /\ always = TRUE /\ named = TRUE
  /\ entered = [l \in 1 .. 3 |-> 0] /\ errors = 0 /\ interrupts = 0

\* An interrupt is handled, the frame given to netif_rx included.
ErrorInterrupt(e) ==
  LET isrc == Raised(levels, e)
      l == Level(e)
      d == Told(device, levels, e)
      restarts == e.skb /\ restart_trigger(optR, d.state)
      tells == IF {"EI", "EPI"} \subseteq isrc THEN l = 2 ELSE told \/ "EI" \in isrc
  IN  /\ interrupts < MaxInterrupts /\ Level(levels) # BUS_OFF /\ isrc # {}
      /\ device' = IF e.skb THEN netif_rx_error(d, optR, FreeSkbs) ELSE d
      /\ levels' = IF restarts THEN Reset ELSE [tx |-> e.tx, rx |-> e.rx]
      /\ told' = (restarts \/ tells)
      /\ always' = (always /\ tells)
      /\ entered' = [k \in 1 .. 3 |-> IF k = l /\ Level(levels) < l THEN entered[k] + 1 ELSE entered[k]]
      /\ errors' = errors + (IF "DOI" \in isrc THEN 1 ELSE 0) + (IF "BEI" \in isrc THEN 1 ELSE 0)
      /\ named' = (named /\ (told /\ tells /\ Level(levels) # l => Names(d.frame, e)))
      /\ interrupts' = interrupts + 1
      /\ UNCHANGED optR

\* The restart timer expires.
RestartTimer ==
  /\ device.armed
  /\ device' = can_restart_work(device, optR, FreeSkbs)
  /\ levels' = Reset /\ told' = TRUE
  /\ UNCHANGED <<optR, always, entered, errors, named, interrupts>>

ErrorNext == RestartTimer \/ \E e \in ErrorEvents : ErrorInterrupt(e)
ErrorSpec == ErrorInit /\ [][ErrorNext]_errorVars

-----------------------------------------------------------------------------

\* The error interrupts tell no state, only that a limit was crossed, so the driver's
\* state follows the controller's by toggling.  Over any sequence of error interrupts
\* and restarts, unless a frame was written through the wild pointer: the state is wrong
\* exactly from an interrupt that was read after both limits had been crossed, to error
\* active or to bus-off, until the next warning interrupt that comes alone, the next
\* crossing of both up to passive, or a restart.  As long as it was right,
\* CAN_DEVCTL_GET_STATS counts the entries into each state.  The carrier is off exactly
\* in bus-off; a controller is left in bus-off without the timer running only if the
\* state is wrong or neither -r nor -R asks for a restart; the error frame names the
\* direction with the larger counter; every bus error and overrun is in the total.
ErrorStateFollows ==
  LET s == GetStats(device)
  IN  \/ device.wild
      \/ /\ told <=> device.state = Level(levels)
         /\ netif_carrier_ok(device) <=> device.state # BUS_OFF
         /\ told /\ Level(levels) = BUS_OFF =>
              device.armed \/ (device.restart_ms = 0 /\ optR < 256)
         /\ always => /\ s.error_warning_state_count = entered[1]
                      /\ s.error_passive_state_count = entered[2]
                      /\ s.bus_off_state_count = entered[3]
         /\ s.total_frame_errors = errors
         /\ named
=============================================================================
