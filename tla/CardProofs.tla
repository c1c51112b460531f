------------------------------ MODULE CardProofs ------------------------------
(***************************************************************************)
(* A card's controllers: their error state over any sequence of error      *)
(* interrupts and restarts (ErrorState), whose inductive invariant comes   *)
(* first, the conversions of a message between two clients and the         *)
(* timestamps (FrameCodec), and a write on its way through the tx_queue    *)
(* (WritePath), for any identifier, data, times and size of the queue.     *)
(***************************************************************************)
EXTENDS ErrorState, WritePath, TLAPS

-----------------------------------------------------------------------------
(* The error state                                                         *)

ErrorStats == [error_warning : Nat, error_passive : Nat, bus_off : Nat, bus_error : Nat,
               arbitration_lost : Nat, restarts : Nat, rx_errors : Nat, tx_errors : Nat, rx_over : Nat]
ErrorFlags == {"DOI", "BEI", "ALI", "CNT", "BUSOFF", "CRTL", "active", "tx_warning", "tx_passive",
               "rx_warning", "rx_passive"}
ErrorDevice == [state : 0 .. 3, stats : ErrorStats, carrier : BOOLEAN, armed : BOOLEAN,
                restart_ms : Nat, frame : SUBSET ErrorFlags, wild : BOOLEAN]

ErrorTypeOK ==
  /\ device \in ErrorDevice /\ optR \in Nat /\ levels \in [tx : 0 .. 3, rx : 0 .. 2]
  /\ told \in BOOLEAN /\ always \in BOOLEAN /\ named \in BOOLEAN
  /\ entered \in [1 .. 3 -> Nat] /\ errors \in Nat

\* The clauses that make ErrorStateFollows inductive.
ErrorFollowed ==
  /\ told => device.state = Level(levels)
  /\ ~told => device.state = 2 /\ Level(levels) \in {0, 3}
  /\ device.carrier <=> device.state # 3
  /\ device.armed => device.state = 3
  /\ device.state = 3 => device.armed \/ (device.restart_ms = 0 /\ optR < 256)
  /\ always => told
  /\ always => /\ device.stats.error_warning = entered[1]
               /\ device.stats.error_passive = entered[2]
               /\ device.stats.bus_off = entered[3]
  /\ device.stats.rx_errors + device.stats.tx_errors = errors
  /\ named

ErrorInv == ErrorTypeOK /\ (device.wild \/ ErrorFollowed)

-----------------------------------------------------------------------------

\* Data overruns and bus errors are each counted once in rx_errors or tx_errors, and no
\* state counter moves.
LEMMA CountErrorsFields ==
  ASSUME NEW s \in ErrorStats, NEW isrc, NEW ecc_tx \in BOOLEAN
  PROVE  LET r == CountErrors(s, isrc, ecc_tx)
         IN  /\ r \in ErrorStats
             /\ r.error_warning = s.error_warning /\ r.error_passive = s.error_passive
             /\ r.bus_off = s.bus_off
             /\ r.rx_errors + r.tx_errors =
                  s.rx_errors + s.tx_errors
                    + (IF "DOI" \in isrc THEN 1 ELSE 0) + (IF "BEI" \in isrc THEN 1 ELSE 0)
  <1> DEFINE doi == IF "DOI" \in isrc THEN 1 ELSE 0
             bei == IF "BEI" \in isrc THEN 1 ELSE 0
             ali == IF "ALI" \in isrc THEN 1 ELSE 0
             rxe == IF ecc_tx THEN 0 ELSE bei
             txe == IF ecc_tx THEN bei ELSE 0
             r == CountErrors(s, isrc, ecc_tx)
  <1>1. doi \in Nat /\ bei \in Nat /\ ali \in Nat /\ rxe \in Nat /\ txe \in Nat /\ rxe + txe = bei
    OBVIOUS
  <1>2. r = [s EXCEPT !.rx_over = @ + doi, !.bus_error = @ + bei, !.arbitration_lost = @ + ali,
                      !.rx_errors = @ + doi + rxe, !.tx_errors = @ + txe]
    BY DEF CountErrors
  <1> HIDE DEF doi, bei, ali, rxe, txe, r
  <1>3. /\ r.error_warning = s.error_warning /\ r.error_passive = s.error_passive
        /\ r.bus_off = s.bus_off
        /\ r.rx_errors = s.rx_errors + doi + rxe /\ r.tx_errors = s.tx_errors + txe
    BY <1>1, <1>2 DEF ErrorStats
  <1>4. r \in ErrorStats
    <2>1. /\ s.rx_over + doi \in Nat /\ s.bus_error + bei \in Nat /\ s.arbitration_lost + ali \in Nat
          /\ s.rx_errors + doi + rxe \in Nat /\ s.tx_errors + txe \in Nat
      BY <1>1 DEF ErrorStats
    <2>2. \A v1, v2, v3, v4, v5 \in Nat :
            [s EXCEPT !.rx_over = v1, !.bus_error = v2, !.arbitration_lost = v3,
                      !.rx_errors = v4, !.tx_errors = v5] \in ErrorStats
      BY DEF ErrorStats
    <2> QED BY ONLY <1>2, <2>1, <2>2
  <1>5. s.rx_errors \in Nat /\ s.tx_errors \in Nat
    BY DEF ErrorStats
  <1>6. r.rx_errors + r.tx_errors = s.rx_errors + s.tx_errors + doi + bei
    BY <1>1, <1>3, <1>5
  <1> QED BY <1>3, <1>4, <1>6 DEF r, doi, bei

\* can_update_state_error_stats counts the state entered, if it is a worse one.
LEMMA StatsFields ==
  ASSUME NEW d \in ErrorDevice, NEW new \in 0 .. 3
  PROVE  LET r == can_update_state_error_stats(d, new)
             Up(k) == IF new = k /\ d.state < k THEN 1 ELSE 0
         IN  /\ r \in ErrorDevice
             /\ r.state = d.state /\ r.carrier = d.carrier /\ r.armed = d.armed
             /\ r.restart_ms = d.restart_ms /\ r.wild = d.wild /\ r.frame = d.frame
             /\ r.stats.error_warning = d.stats.error_warning + Up(1)
             /\ r.stats.error_passive = d.stats.error_passive + Up(2)
             /\ r.stats.bus_off = d.stats.bus_off + Up(3)
             /\ r.stats.rx_errors = d.stats.rx_errors
             /\ r.stats.tx_errors = d.stats.tx_errors
  BY DEF can_update_state_error_stats, ErrorDevice, ErrorStats

\* What can_change_state adds to the frame.
Flags(tx, rx) ==
  {"CRTL"} \cup (IF tx >= rx THEN can_tx_state_to_frame(tx) ELSE {})
           \cup (IF tx <= rx THEN can_rx_state_to_frame(rx) ELSE {})

\* The flags of a state change name the direction with the larger counter.
LEMMA ToFrame ==
  /\ \A k \in 0 .. 3 : /\ can_tx_state_to_frame(k) \in SUBSET ErrorFlags
                        /\ can_rx_state_to_frame(k) \in SUBSET ErrorFlags
  /\ can_tx_state_to_frame(0) = {"active"} /\ can_rx_state_to_frame(0) = {"active"}
  /\ can_tx_state_to_frame(1) = {"tx_warning"} /\ can_rx_state_to_frame(1) = {"rx_warning"}
  /\ can_tx_state_to_frame(2) = {"tx_passive"} /\ can_rx_state_to_frame(2) = {"rx_passive"}
  /\ can_tx_state_to_frame(3) = {} /\ can_rx_state_to_frame(3) = {}
  <1>1. /\ can_tx_state_to_frame(0) = {"active"} /\ can_rx_state_to_frame(0) = {"active"}
        /\ can_tx_state_to_frame(1) = {"tx_warning"} /\ can_rx_state_to_frame(1) = {"rx_warning"}
        /\ can_tx_state_to_frame(2) = {"tx_passive"} /\ can_rx_state_to_frame(2) = {"rx_passive"}
        /\ can_tx_state_to_frame(3) = {} /\ can_rx_state_to_frame(3) = {}
    BY DEF can_tx_state_to_frame, can_rx_state_to_frame
  <1>2. \A k \in 0 .. 3 : k = 0 \/ k = 1 \/ k = 2 \/ k = 3
    OBVIOUS
  <1> QED BY <1>1, <1>2 DEF ErrorFlags

\* r is d after a change to state new.
Changed(d, r, skb, tx, rx, new) ==
  /\ r \in ErrorDevice
  /\ r.state = new /\ r.carrier = d.carrier /\ r.armed = d.armed
  /\ r.restart_ms = d.restart_ms /\ r.wild = (d.wild \/ ~skb)
  /\ r.frame = d.frame \cup (IF new = BUS_OFF THEN {"BUSOFF"} ELSE Flags(tx, rx))
  /\ r.stats.error_warning = d.stats.error_warning + (IF new = 1 /\ d.state < 1 THEN 1 ELSE 0)
  /\ r.stats.error_passive = d.stats.error_passive + (IF new = 2 /\ d.state < 2 THEN 1 ELSE 0)
  /\ r.stats.bus_off = d.stats.bus_off + (IF new = 3 /\ d.state < 3 THEN 1 ELSE 0)
  /\ r.stats.rx_errors = d.stats.rx_errors
  /\ r.stats.tx_errors = d.stats.tx_errors

\* can_change_state takes the device to the larger of the two states.
LEMMA ChangeStateFields ==
  ASSUME NEW d \in ErrorDevice, NEW skb \in BOOLEAN, NEW tx \in 0 .. 3, NEW rx \in 0 .. 3,
         NEW new \in 0 .. 3, Larger(tx, rx) = new, new # d.state
  PROVE  Changed(d, can_change_state(d, skb, tx, rx), skb, tx, rx, new)
  <1> DEFINE u == can_update_state_error_stats(d, new)
             flags == IF new = BUS_OFF THEN {"BUSOFF"} ELSE Flags(tx, rx)
             r == can_change_state(d, skb, tx, rx)
  <1>1. r = [[u EXCEPT !.state = new, !.wild = @ \/ ~skb] EXCEPT !.frame = @ \cup flags]
    BY DEF can_change_state, Flags
  <1>2. flags \in SUBSET ErrorFlags
    BY ToFrame DEF Flags, ErrorFlags
  <1> HIDE DEF u, flags, r
  <1>3. /\ u \in ErrorDevice /\ u.carrier = d.carrier /\ u.armed = d.armed
        /\ u.restart_ms = d.restart_ms /\ u.wild = d.wild /\ u.frame = d.frame
    BY StatsFields DEF u
  <1>4. /\ r.state = new /\ r.carrier = u.carrier /\ r.armed = u.armed
        /\ r.restart_ms = u.restart_ms /\ r.wild = (u.wild \/ ~skb)
        /\ r.frame = u.frame \cup flags /\ r.stats = u.stats
    BY <1>1, <1>3 DEF ErrorDevice
  <1>5. r \in ErrorDevice
    <2>1. (u.wild \/ ~skb) \in BOOLEAN /\ u.frame \cup flags \in SUBSET ErrorFlags
      BY <1>2, <1>3 DEF ErrorDevice
    <2> QED BY <1>1, <1>3, <2>1 DEF ErrorDevice
  <1>6. /\ u.stats.error_warning = d.stats.error_warning + (IF new = 1 /\ d.state < 1 THEN 1 ELSE 0)
        /\ u.stats.error_passive = d.stats.error_passive + (IF new = 2 /\ d.state < 2 THEN 1 ELSE 0)
        /\ u.stats.bus_off = d.stats.bus_off + (IF new = 3 /\ d.state < 3 THEN 1 ELSE 0)
        /\ u.stats.rx_errors = d.stats.rx_errors /\ u.stats.tx_errors = d.stats.tx_errors
    BY StatsFields DEF u
  <1> QED BY <1>3, <1>4, <1>5, <1>6 DEF r, flags, Changed

\* r is d after sja1000_err found state st, with counters c.
ErrLeads(d, r, skb, isrc, c, st) ==
  /\ st \in 0 .. 3 /\ r \in ErrorDevice
  /\ r.state = st /\ r.restart_ms = d.restart_ms
  /\ r.carrier <=> d.carrier /\ (st # BUS_OFF \/ d.state = st)
  /\ st = BUS_OFF /\ d.state # st => (r.armed <=> d.restart_ms # 0)
  /\ ~(st = BUS_OFF /\ d.state # st) => (r.armed <=> d.armed)
  /\ r.wild <=> d.wild \/ (st # d.state /\ ~skb)
  /\ st # d.state /\ st \in 1 .. 2 =>
       /\ can_tx_state_to_frame(st) \subseteq r.frame <=> c.tx >= c.rx
       /\ can_rx_state_to_frame(st) \subseteq r.frame <=> c.rx >= c.tx
  /\ r.stats.error_warning = d.stats.error_warning + (IF st = 1 /\ d.state < 1 THEN 1 ELSE 0)
  /\ r.stats.error_passive = d.stats.error_passive + (IF st = 2 /\ d.state < 2 THEN 1 ELSE 0)
  /\ r.stats.bus_off = d.stats.bus_off + (IF st = 3 /\ d.state < 3 THEN 1 ELSE 0)
  /\ r.stats.rx_errors + r.stats.tx_errors =
       d.stats.rx_errors + d.stats.tx_errors
         + (IF "DOI" \in isrc THEN 1 ELSE 0) + (IF "BEI" \in isrc THEN 1 ELSE 0)

\* What sja1000_err makes of the device, whatever was read from the controller.
LEMMA ErrFields ==
  ASSUME NEW d \in ErrorDevice, NEW skb \in BOOLEAN, NEW isrc,
         NEW status \in [bs : BOOLEAN, es : BOOLEAN], NEW c \in [tx : 0 .. 3, rx : 0 .. 2],
         NEW ecc_tx \in BOOLEAN,
         NEW s, s = AfterEPI(AfterEI(d.state, isrc, status), isrc)
  PROVE  ErrLeads(d, sja1000_err(d, skb, isrc, status, c, ecc_tx), skb, isrc, c, s)
  <1> DEFINE cnt == IF AfterEI(d.state, isrc, status) = BUS_OFF THEN {} ELSE {"CNT"}
             frame == (isrc \cap {"DOI", "BEI", "ALI"}) \cup cnt
             counted == CountErrors(d.stats, isrc, ecc_tx)
             d1 == [d EXCEPT !.stats = counted, !.frame = frame]
             tx == IF c.tx >= c.rx THEN s ELSE 0
             rx == IF c.tx <= c.rx THEN s ELSE 0
             d2 == can_change_state(d1, skb, tx, rx)
             r == sja1000_err(d, skb, isrc, status, c, ecc_tx)
  <1>1. s \in 0 .. 3
    BY DEF AfterEI, AfterEPI, ErrorDevice, BUS_OFF
  <1>2. r = IF s = d.state THEN d1 ELSE IF s = BUS_OFF THEN can_bus_off(d2) ELSE d2
    BY DEF sja1000_err
  <1>3. /\ counted \in ErrorStats
        /\ counted.error_warning = d.stats.error_warning
        /\ counted.error_passive = d.stats.error_passive
        /\ counted.bus_off = d.stats.bus_off
        /\ counted.rx_errors + counted.tx_errors =
             d.stats.rx_errors + d.stats.tx_errors
               + (IF "DOI" \in isrc THEN 1 ELSE 0) + (IF "BEI" \in isrc THEN 1 ELSE 0)
    BY CountErrorsFields DEF ErrorDevice
  <1>4. frame \in SUBSET {"DOI", "BEI", "ALI", "CNT"}
    OBVIOUS
  <1>5. c.tx \in 0 .. 3 /\ c.rx \in 0 .. 3 /\ tx \in 0 .. 3 /\ rx \in 0 .. 3 /\ Larger(tx, rx) = s
    BY <1>1 DEF Larger
  <1>6. /\ d1 \in ErrorDevice /\ d1.state = d.state /\ d1.carrier = d.carrier /\ d1.armed = d.armed
        /\ d1.restart_ms = d.restart_ms /\ d1.wild = d.wild /\ d1.frame = frame /\ d1.stats = counted
    <2> HIDE DEF counted, frame
    <2>1. frame \in SUBSET ErrorFlags
      BY <1>4 DEF ErrorFlags
    <2> QED BY <1>3, <2>1 DEF ErrorDevice
  <1> HIDE DEF r, counted, frame, d1, tx, rx
  <1>7. CASE s = d.state
    <2>1. r = d1
      BY <1>2, <1>7
    <2>2. d.stats \in ErrorStats /\ d.wild \in BOOLEAN
      BY DEF ErrorDevice
    <2> QED BY <1>1, <1>3, <1>6, <1>7, <2>1, <2>2 DEF r, ErrorStats, ErrLeads
  <1>8. CASE s # d.state
    <2> DEFINE Up(k) == IF s = k /\ d.state < k THEN 1 ELSE 0
    <2>1. /\ d2 \in ErrorDevice /\ d2.state = s /\ d2.carrier = d.carrier /\ d2.armed = d.armed
          /\ d2.restart_ms = d.restart_ms /\ d2.wild = (d.wild \/ ~skb)
          /\ d2.frame = frame \cup (IF s = BUS_OFF THEN {"BUSOFF"} ELSE Flags(tx, rx))
          /\ d2.stats.error_warning = d.stats.error_warning + Up(1)
          /\ d2.stats.error_passive = d.stats.error_passive + Up(2)
          /\ d2.stats.bus_off = d.stats.bus_off + Up(3)
          /\ d2.stats.rx_errors = counted.rx_errors /\ d2.stats.tx_errors = counted.tx_errors
      <3>1. Changed(d1, d2, skb, tx, rx, s)
        BY <1>1, <1>5, <1>6, <1>8, ChangeStateFields
      <3> QED BY <1>3, <1>6, <3>1 DEF Changed
    <2>2. s \in 1 .. 2 => /\ can_tx_state_to_frame(s) \subseteq d2.frame <=> c.tx >= c.rx
                          /\ can_rx_state_to_frame(s) \subseteq d2.frame <=> c.rx >= c.tx
      <3>1. ASSUME s \in 1 .. 2
            PROVE  d2.frame = frame \cup {"CRTL"} \cup (IF c.tx >= c.rx THEN can_tx_state_to_frame(s) ELSE {})
                                                 \cup (IF c.tx <= c.rx THEN can_rx_state_to_frame(s) ELSE {})
        <4>1. (tx >= rx <=> c.tx >= c.rx) /\ (tx <= rx <=> c.tx <= c.rx)
              /\ (c.tx >= c.rx => tx = s) /\ (c.tx <= c.rx => rx = s) /\ s # BUS_OFF
          BY <1>5, <3>1 DEF tx, rx, BUS_OFF
        <4> QED BY <2>1, <4>1 DEF Flags
      <3>2. CASE s = 1
        BY ONLY <1>4, <1>5, <3>1, <3>2, ToFrame
      <3>3. CASE s = 2
        BY ONLY <1>4, <1>5, <3>1, <3>3, ToFrame
      <3> QED BY <3>2, <3>3
    <2> HIDE DEF d2
    <2>3. CASE s = BUS_OFF
      <3>1. r = [[d2 EXCEPT !.carrier = FALSE] EXCEPT !.armed = d2.restart_ms # 0]
        BY <1>2, <1>8, <2>3 DEF can_bus_off, netif_carrier_off
      <3>2. /\ r \in ErrorDevice /\ r.state = d2.state /\ r.restart_ms = d2.restart_ms
            /\ r.carrier = FALSE /\ r.armed = (d2.restart_ms # 0) /\ r.wild = d2.wild
            /\ r.stats = d2.stats
        BY <2>1, <3>1 DEF ErrorDevice
      <3>3. ~(s \in 1 .. 2)
        BY <2>3 DEF BUS_OFF
      <3>4. d.wild \in BOOLEAN
        BY DEF ErrorDevice
      <3> HIDE DEF Up
      <3>5. (r.wild <=> d.wild \/ ~skb) /\ ~r.carrier /\ (r.armed <=> d.restart_ms # 0)
        BY <2>1, <3>2, <3>4
      <3>6. /\ r.stats.error_warning = d.stats.error_warning + Up(1)
            /\ r.stats.error_passive = d.stats.error_passive + Up(2)
            /\ r.stats.bus_off = d.stats.bus_off + Up(3)
            /\ r.stats.rx_errors + r.stats.tx_errors = counted.rx_errors + counted.tx_errors
            /\ r \in ErrorDevice /\ r.state = s /\ r.restart_ms = d.restart_ms
        BY <2>1, <3>2
      <3> QED BY <1>1, <1>3, <1>8, <2>3, <3>3, <3>5, <3>6 DEF r, ErrLeads, Up
    <2>4. CASE s # BUS_OFF
      <3>1. r = d2
        BY <1>2, <1>8, <2>4
      <3> QED BY <1>1, <1>3, <1>8, <2>1, <2>2, <2>4, <3>1 DEF r, BUS_OFF, ErrLeads
    <2> QED BY <2>3, <2>4
  <1> QED BY <1>7, <1>8

\* r is d after a restart.
RestartedFrom(d, r) ==
  /\ r \in ErrorDevice
  /\ r.state = 0 /\ r.carrier = TRUE /\ r.armed = FALSE
  /\ r.restart_ms = d.restart_ms /\ r.wild = d.wild
  /\ r.stats.error_warning = d.stats.error_warning
  /\ r.stats.error_passive = d.stats.error_passive
  /\ r.stats.bus_off = d.stats.bus_off
  /\ r.stats.rx_errors = d.stats.rx_errors /\ r.stats.tx_errors = d.stats.tx_errors

\* Every way to restart ends with the device error active and its carrier on.
LEMMA RestartFields ==
  ASSUME NEW d \in ErrorDevice, NEW limit \in Nat
  PROVE  RestartedFrom(d, can_restart([d EXCEPT !.armed = FALSE], limit, FreeSkbs))
  <1> DEFINE n == IF restart_trigger(limit, BUS_OFF) THEN FreeSkbs ELSE 0
             restarts == d.stats.restarts + 1 + n
             stats == [d.stats EXCEPT !.restarts = restarts]
             r == can_restart([d EXCEPT !.armed = FALSE], limit, FreeSkbs)
  <1>1. d.stats \in ErrorStats /\ restarts \in Nat
    BY ErrorAssumption DEF ErrorDevice, ErrorStats
  <1>2. r = [d EXCEPT !.armed = FALSE, !.carrier = TRUE, !.state = 0, !.stats = stats]
    <2> HIDE DEF n
    <2> QED BY DEF can_restart, netif_carrier_on, ErrorDevice, n
  <1> HIDE DEF n, r, restarts
  <1>3. /\ r.stats = stats /\ r.state = 0 /\ r.carrier = TRUE /\ r.armed = FALSE
        /\ r.restart_ms = d.restart_ms /\ r.wild = d.wild
    BY <1>2 DEF ErrorDevice
  <1>4. stats \in ErrorStats
    BY <1>1 DEF ErrorStats
  <1>5. r \in ErrorDevice
    <2>1. \A a, c \in BOOLEAN, k \in 0 .. 3, x \in ErrorStats :
            [d EXCEPT !.armed = a, !.carrier = c, !.state = k, !.stats = x] \in ErrorDevice
      BY DEF ErrorDevice
    <2> HIDE DEF stats
    <2>2. FALSE \in BOOLEAN /\ TRUE \in BOOLEAN /\ 0 \in 0 .. 3
      OBVIOUS
    <2> QED BY ONLY <1>2, <1>4, <2>1, <2>2
  <1>6. /\ r.stats.error_warning = d.stats.error_warning
        /\ r.stats.error_passive = d.stats.error_passive
        /\ r.stats.bus_off = d.stats.bus_off
        /\ r.stats.rx_errors = d.stats.rx_errors /\ r.stats.tx_errors = d.stats.tx_errors
    BY <1>1, <1>3 DEF ErrorStats
  <1> QED BY <1>3, <1>5, <1>6 DEF RestartedFrom, r

\* The state sja1000_err derives from EI and EPI is the controller's, if it was before and
\* not both limits were crossed at once, and whenever EI comes alone.
LEMMA Toggling ==
  ASSUME NEW c \in [tx : 0 .. 3, rx : 0 .. 2], NEW e \in ErrorEvents, NEW tl \in BOOLEAN,
         NEW st \in 0 .. 3, Level(c) # BUS_OFF,
         tl => st = Level(c), ~tl => st = 2 /\ Level(c) \in {0, 3}
  PROVE  LET isrc == Raised(c, e)
             s == AfterEPI(AfterEI(st, isrc, [bs |-> Level(e) = BUS_OFF, es |-> Level(e) > 0]), isrc)
             tells == IF {"EI", "EPI"} \subseteq isrc THEN Level(e) = 2 ELSE tl \/ "EI" \in isrc
         IN  /\ tells => s = Level(e)
             /\ ~tells => s = 2 /\ Level(e) \in {0, 3}
  <1> DEFINE isrc == Raised(c, e)
             lc == Level(c)
             le == Level(e)
             ei == (lc = 0) # (le = 0) \/ le = 3
             epi == (lc < 2) # (le < 2)
  <1>1. e.also \subseteq {"DOI", "BEI", "ALI"} /\ lc \in 0 .. 2 /\ le \in 0 .. 3
    BY ErrorAssumption DEF Level, Larger, BUS_OFF
  <1>2. ("EI" \in isrc <=> ei) /\ ("EPI" \in isrc <=> epi)
    BY <1>1 DEF Raised, BUS_OFF
  <1>3. {"EI", "EPI"} \subseteq isrc <=> ei /\ epi
    BY <1>2
  <1> DEFINE s == AfterEPI(AfterEI(st, isrc, [bs |-> le = BUS_OFF, es |-> le > 0]), isrc)
             w == IF ~ei THEN st ELSE IF le = 3 THEN 3 ELSE IF le > 0 THEN 1 ELSE 0
  <1>4. s = IF ~epi THEN w ELSE IF w = 2 THEN 1 ELSE 2
    BY <1>2 DEF AfterEI, AfterEPI, BUS_OFF
  <1> HIDE DEF isrc, lc, le, s
  <1>5. /\ (IF ei /\ epi THEN le = 2 ELSE tl \/ ei) => s = le
        /\ ~(IF ei /\ epi THEN le = 2 ELSE tl \/ ei) => s = 2 /\ le \in {0, 3}
    BY <1>1, <1>4 DEF lc
  <1> QED BY <1>2, <1>3, <1>5 DEF isrc, le, s

-----------------------------------------------------------------------------

\* A device starts error active.
LEMMA ErrorInitInv == ErrorInit => ErrorInv
  <1> SUFFICES ASSUME ErrorInit PROVE ErrorInv
    OBVIOUS
  <1>1. PICK ms \in RestartDelays : device = Device0(ms)
    BY DEF ErrorInit
  <1>2. ms \in Nat /\ optR \in Nat
    BY ErrorAssumption DEF ErrorInit
  <1>3. /\ device \in ErrorDevice /\ device.state = 0 /\ device.carrier = TRUE /\ device.armed = FALSE
        /\ device.stats.error_warning = 0 /\ device.stats.error_passive = 0
        /\ device.stats.bus_off = 0 /\ device.stats.rx_errors = 0 /\ device.stats.tx_errors = 0
    BY <1>1, <1>2 DEF Device0, Counters, ErrorDevice, ErrorStats
  <1>4. ErrorTypeOK
    BY <1>2, <1>3 DEF ErrorInit, ErrorTypeOK, Reset
  <1>5. ErrorFollowed
    BY <1>3 DEF ErrorInit, ErrorFollowed, Level, Larger, Reset
  <1> QED BY <1>4, <1>5 DEF ErrorInv

\* The restart timer keeps ErrorInv.
LEMMA RestartTimerInv == ErrorInv /\ RestartTimer => ErrorInv'
  <1> SUFFICES ASSUME ErrorInv, RestartTimer PROVE ErrorInv'
    OBVIOUS
  <1> USE DEF ErrorInv
  <1>1. RestartedFrom(device, device')
    BY RestartFields DEF RestartTimer, can_restart_work, ErrorTypeOK
  <1>2. ErrorTypeOK'
    BY <1>1 DEF ErrorTypeOK, RestartTimer, RestartedFrom, Reset
  <1>3. device.wild => device'.wild
    BY <1>1 DEF RestartedFrom
  <1>4. ASSUME ErrorFollowed PROVE ErrorFollowed'
    BY <1>1, <1>4 DEF ErrorFollowed, RestartTimer, RestartedFrom, Level, Larger, Reset
  <1> QED BY <1>2, <1>3, <1>4

\* Every error interrupt keeps ErrorInv, with the restart that option -R may add.
LEMMA ErrorInterruptInv == ErrorInv /\ (\E e \in ErrorEvents : ErrorInterrupt(e)) => ErrorInv'
  <1> SUFFICES ASSUME ErrorInv, NEW e \in ErrorEvents, ErrorInterrupt(e) PROVE ErrorInv'
    OBVIOUS
  <1> DEFINE isrc == Raised(levels, e)
             status == [bs |-> Level(e) = BUS_OFF, es |-> Level(e) > 0]
             s == AfterEPI(AfterEI(device.state, isrc, status), isrc)
             d == Told(device, levels, e)
             restarts == e.skb /\ restart_trigger(optR, d.state)
             tells == IF {"EI", "EPI"} \subseteq isrc THEN Level(e) = 2 ELSE told \/ "EI" \in isrc
  <1>1. /\ e.tx \in 0 .. 3 /\ e.rx \in 0 .. 2 /\ e.skb \in BOOLEAN /\ Level(e) \in 0 .. 3
        /\ device \in ErrorDevice /\ levels \in [tx : 0 .. 3, rx : 0 .. 2] /\ optR \in Nat
    BY ErrorAssumption DEF Level, Larger, ErrorInv, ErrorTypeOK
  <1>2. ErrLeads(device, d, e.skb, isrc, e, s)
    <2> DEFINE c == [tx |-> e.tx, rx |-> e.rx]
    <2>1. status \in [bs : BOOLEAN, es : BOOLEAN] /\ (e.tx >= e.rx) \in BOOLEAN
      OBVIOUS
    <2>2. c \in [tx : 0 .. 3, rx : 0 .. 2] /\ c.tx = e.tx /\ c.rx = e.rx
      BY <1>1
    <2> HIDE DEF status, isrc, c
    <2>3. d = sja1000_err(device, e.skb, isrc, status, c, e.tx >= e.rx)
      BY Zenon DEF Told, isrc, status, c
    <2> HIDE DEF d
    <2>4. ErrLeads(device, d, e.skb, isrc, c, s)
      BY <1>1, <2>1, <2>2, <2>3, ErrFields
    <2> QED BY <2>2, <2>4 DEF ErrLeads
  <1> DEFINE raw == [tx |-> e.tx, rx |-> e.rx]
  <1>3. /\ Level(levels) # BUS_OFF
        /\ device' = IF restarts THEN can_restart([d EXCEPT !.armed = FALSE], optR, FreeSkbs) ELSE d
        /\ levels' = IF restarts THEN Reset ELSE raw
        /\ told' = (restarts \/ tells) /\ always' = (always /\ tells) /\ optR' = optR
        /\ named' = (named /\ (told /\ tells /\ Level(levels) # Level(e) => Names(d.frame, e)))
        /\ entered' = [k \in 1 .. 3 |-> IF k = Level(e) /\ Level(levels) < Level(e)
                                        THEN entered[k] + 1 ELSE entered[k]]
        /\ errors' = errors + (IF "DOI" \in isrc THEN 1 ELSE 0) + (IF "BEI" \in isrc THEN 1 ELSE 0)
    BY DEF ErrorInterrupt, netif_rx_error, can_restart_now
  <1>4. /\ restarts => RestartedFrom(d, device')
        /\ ~restarts => device' = d
    BY <1>1, <1>2, <1>3, RestartFields DEF ErrLeads
  <1>5. Level(raw) = Level(e) /\ Level(Reset) = 0
    BY <1>1 DEF Level, Larger, Reset
  <1> HIDE DEF d, isrc, s, restarts, raw
  <1>6. ErrorTypeOK'
    BY <1>1, <1>2, <1>3, <1>4 DEF ErrorInv, ErrorTypeOK, RestartedFrom, ErrLeads, raw, Reset
  <1>7. device.wild => device'.wild
    BY <1>2, <1>4 DEF ErrLeads, RestartedFrom
  <1>8. ASSUME ErrorFollowed, ~device'.wild PROVE ErrorFollowed'
    <2>1. /\ tells => s = Level(e)
          /\ ~tells => s = 2 /\ Level(e) \in {0, 3}
      BY <1>1, <1>3, <1>8, Toggling DEF ErrorFollowed, ErrorInv, ErrorTypeOK, ErrorDevice, s, isrc
    <2>2. /\ device.state # 3 /\ device.carrier /\ ~device.armed
      BY <1>1, <1>3, <1>8 DEF ErrorFollowed, BUS_OFF, ErrorInv, ErrorTypeOK
    <2>3. d.wild => device'.wild
      BY <1>2, <1>4 DEF RestartedFrom
    <2>4. /\ d.state = s /\ s \in 0 .. 3 /\ d.restart_ms = device.restart_ms
          /\ d.carrier <=> s # 3
          /\ d.armed <=> s = 3 /\ device.restart_ms # 0
          /\ s # device.state => e.skb
      BY <1>2, <1>8, <2>2, <2>3 DEF ErrLeads, BUS_OFF
    <2>5. s = 3 /\ e.skb /\ ~restarts => optR < 256
      BY <1>1, <2>4 DEF restarts, restart_trigger
    <2>6. /\ told' => device'.state = Level(levels')
          /\ ~told' => device'.state = 2 /\ Level(levels') \in {0, 3}
          /\ device'.carrier <=> device'.state # 3
          /\ device'.armed => device'.state = 3
          /\ device'.state = 3 => device'.armed \/ (device'.restart_ms = 0 /\ optR' < 256)
          /\ always' => told'
      <3>1. CASE restarts
        <4>1. device'.state = 0 /\ device'.carrier /\ ~device'.armed
          BY <1>4, <3>1 DEF RestartedFrom
        <4>2. told' /\ Level(levels') = 0
          BY <1>3, <1>5, <3>1
        <4> QED BY <4>1, <4>2
      <3>2. CASE ~restarts
        BY <1>3, <1>4, <1>5, <2>1, <2>2, <2>4, <2>5, <3>2
      <3> QED BY <3>1, <3>2
    <2>7. /\ device'.stats.error_warning = d.stats.error_warning
          /\ device'.stats.error_passive = d.stats.error_passive
          /\ device'.stats.bus_off = d.stats.bus_off
          /\ device'.stats.rx_errors = d.stats.rx_errors
          /\ device'.stats.tx_errors = d.stats.tx_errors
      BY <1>4 DEF RestartedFrom
    <2>8. always' => /\ device'.stats.error_warning = entered'[1]
                     /\ device'.stats.error_passive = entered'[2]
                     /\ device'.stats.bus_off = entered'[3]
      <3> SUFFICES ASSUME always' PROVE /\ device'.stats.error_warning = entered'[1]
                                        /\ device'.stats.error_passive = entered'[2]
                                        /\ device'.stats.bus_off = entered'[3]
        OBVIOUS
      <3>1. /\ device.state = Level(levels) /\ s = Level(e)
            /\ device.stats.error_warning = entered[1]
            /\ device.stats.error_passive = entered[2]
            /\ device.stats.bus_off = entered[3]
        BY <1>3, <1>8, <2>1 DEF ErrorFollowed
      <3>2. entered \in [1 .. 3 -> Nat]
        BY DEF ErrorInv, ErrorTypeOK
      <3>3. /\ entered'[1] = entered[1] + (IF s = 1 /\ device.state < 1 THEN 1 ELSE 0)
            /\ entered'[2] = entered[2] + (IF s = 2 /\ device.state < 2 THEN 1 ELSE 0)
            /\ entered'[3] = entered[3] + (IF s = 3 /\ device.state < 3 THEN 1 ELSE 0)
        BY <1>3, <3>1, <3>2
      <3> QED BY <1>2, <2>7, <3>1, <3>3 DEF ErrLeads
    <2>9. device'.stats.rx_errors + device'.stats.tx_errors = errors'
      BY <1>2, <1>3, <1>8, <2>7 DEF ErrLeads, ErrorFollowed
    <2>10. named'
      <3>1. ASSUME told, tells, Level(levels) # Level(e) PROVE Names(d.frame, e)
        <4>1. s = Level(e) /\ device.state = Level(levels)
          BY <1>8, <2>1, <3>1 DEF ErrorFollowed
        <4> QED BY <1>2, <3>1, <4>1 DEF ErrLeads, Names
      <3> QED BY <1>3, <1>8, <3>1 DEF ErrorFollowed
    <2> QED BY <2>6, <2>8, <2>9, <2>10 DEF ErrorFollowed
  <1> QED BY <1>6, <1>7, <1>8 DEF ErrorInv

\* ErrorInv holds over any sequence of error interrupts and restarts.
THEOREM ErrorInvariance == ErrorSpec => []ErrorInv
  <1>1. ErrorInv /\ UNCHANGED errorVars => ErrorInv'
    BY DEF ErrorInv, ErrorTypeOK, ErrorFollowed, errorVars, Level
  <1>2. ErrorInv /\ [ErrorNext]_errorVars => ErrorInv'
    BY <1>1, RestartTimerInv, ErrorInterruptInv DEF ErrorNext
  <1> QED BY <1>2, ErrorInitInv, PTL DEF ErrorSpec

\* For any restart delay, any limit of -R, any events and any number of them, the driver's
\* state, carrier, restart timer, statistics and error frames follow the controller as
\* ErrorStateFollows says.
THEOREM ErrorsFollowed == ErrorSpec => []ErrorStateFollows
  <1>1. ErrorInv => ErrorStateFollows
    BY DEF ErrorInv, ErrorTypeOK, ErrorFollowed, ErrorStateFollows, GetStats,
           netif_carrier_ok, BUS_OFF
  <1> QED BY <1>1, ErrorInvariance, PTL

-----------------------------------------------------------------------------
(* Frames, writes and timestamps                                           *)

\* The four identifier registers of an extended frame hold its 29 bits.
LEMMA ExtendedIdentifier ==
  ASSUME NEW id \in Nat, id < Pow29
  PROVE  ((id \div Pow21) % 256) * Pow21 + ((id \div Pow13) % 256) * Pow13 + ((id \div Pow5) % 256) * Pow5
           + (((id % 32) * 8) \div 8) = id
PROOF
  <1> DEFINE a == id \div Pow21
             e == id \div Pow13
             f == id \div Pow5
             b == e % 256
             c == f % 256
             d == ((id % 32) * 8) \div 8
  <1>1. a \in Nat /\ e \in Nat /\ f \in Nat
    BY SMT DEF Pow21, Pow13, Pow5
  <1>2. a = e \div 256 /\ e = f \div 256 /\ a < 256
    BY SMT DEF Pow21, Pow13, Pow5, Pow29
  <1>3. f * 32 + d = id /\ d \in Nat
    BY SMT DEF Pow5
  <1> HIDE DEF a, e, f, d
  <1>4. a * 256 + b = e /\ e * 256 + c = f /\ a % 256 = a /\ b \in Nat /\ c \in Nat
    BY <1>1, <1>2, SMT
  <1> HIDE DEF b, c
  <1>5. a * Pow21 + b * Pow13 + c * Pow5 + d = id
    BY <1>1, <1>3, <1>4, SMT DEF Pow21, Pow13, Pow5
  <1> QED
    BY <1>4, <1>5 DEF a, b, c, d, e, f

\* The two identifier registers of a standard frame hold its 11 bits.
LEMMA StandardIdentifier ==
  ASSUME NEW id \in Nat
  PROVE  ((id \div 8) % 256) * 8 + (((id % 8) * 32) \div 32) = id % 2048
PROOF
  <1>1. PICK q \in Nat, a \in 0 .. 255, c \in 0 .. 7 : id = q * 2048 + a * 8 + c
    <2>1. id \div 2048 \in Nat /\ (id \div 8) % 256 \in 0 .. 255 /\ id % 8 \in 0 .. 7
      BY SMT
    <2>2. id = (id \div 2048) * 2048 + ((id \div 8) % 256) * 8 + (id % 8)
      BY SMT
    <2> QED
      BY <2>1, <2>2
  <1>2. id \div 8 = q * 256 + a /\ id % 8 = c /\ id % 2048 = a * 8 + c
    BY <1>1, SMT
  <1>3. (id \div 8) % 256 = a
    BY <1>1, <1>2, SMT
  <1> QED
    BY <1>1, <1>2, <1>3, SMT

\* 2^14, the bits of the 32 left of 18.
Pow14 == 16384

\* A shift by 18 bits to the left and back keeps 14 bits.
LEMMA ShiftedBack ==
  ASSUME NEW x \in Nat
  PROVE  /\ Shl18(x) \in [hi : Nat, id : Nat] /\ Shl18(x).id < Pow29
         /\ Shr18(Shl18(x)) = x % Pow14
PROOF
  <1>1. (x \div 2048) % 8 \in Nat /\ (x % 2048) * Pow18 \in Nat /\ (x % 2048) * Pow18 < Pow29
    BY SMT DEF Pow18, Pow29
  <1>2. ((x % 2048) * Pow18) \div Pow18 = x % 2048
    BY SMT DEF Pow18
  <1>3. ((x \div 2048) % 8) * 2048 + (x % 2048) = x % Pow14
    BY SMT DEF Pow14
  <1> DEFINE h == (x \div 2048) % 8
             l == (x % 2048) * Pow18
  <1>4. Shl18(x) = [hi |-> h, id |-> l]
    BY DEF Shl18
  <1> HIDE DEF h, l
  <1>5. Shl18(x).hi = h /\ Shl18(x).id = l
    BY <1>4
  <1>6. Shr18(Shl18(x)) = h * 2048 + l \div Pow18
    BY <1>5 DEF Shr18
  <1>7. h * 2048 + l \div Pow18 = x % Pow14
    BY <1>2, <1>3, SMT DEF h, l
  <1>8. h \in Nat /\ l \in Nat /\ l < Pow29
    BY <1>1, SMT DEF h, l
  <1>9. Shl18(x) \in [hi : Nat, id : Nat]
    BY <1>4, <1>8
  <1> QED
    BY <1>5, <1>6, <1>7, <1>8, <1>9

\* The first n bytes of data, padded with zeros.
Cut(dat, n) == [i \in 1 .. 8 |-> IF i <= n THEN dat[i] ELSE 0]

\* A piece of n bytes of a sequence.
LEMMA Piece ==
  ASSUME NEW s, NEW a \in Int, NEW b \in Int, NEW n \in Nat, b = a + n - 1,
         \A i \in a .. b : s[i] \in Byte
  PROVE  Len(SubSeq(s, a, b)) = n /\ \A i \in 1 .. n : SubSeq(s, a, b)[i] = s[a + i - 1]
PROOF
  <1> DEFINE p == SubSeq(s, a, b)
  <1>1. /\ Len(p) = IF a <= b THEN b - a + 1 ELSE 0
        /\ \A i \in 1 .. b - a + 1 : p[i] = s[a + i - 1]
    BY SMT
  <1> HIDE DEF p
  <1>2. Len(p) = n /\ \A i \in 1 .. n : p[i] = s[a + i - 1]
    BY <1>1, SMT
  <1> QED
    BY <1>2 DEF p

\* The first bytes of a sequence, alone and padded with zeros.
LEMMA FirstBytes ==
  ASSUME NEW s, NEW n \in 0 .. 8, \A i \in 1 .. n : s[i] \in Byte
  PROVE  /\ Len(SubSeq(s, 1, n)) = n /\ \A i \in 1 .. n : SubSeq(s, 1, n)[i] = s[i]
         /\ Pad(SubSeq(s, 1, n)) = Cut(s, n)
PROOF
  <1> DEFINE p == SubSeq(s, 1, n)
  <1>1. 1 \in Int /\ n \in Int
    BY SMT
  <1>2. /\ Len(p) = IF 1 <= n THEN n - 1 + 1 ELSE 0
        /\ \A i \in 1 .. n - 1 + 1 : p[i] = s[1 + i - 1]
    BY <1>1, SMT
  <1> HIDE DEF p
  <1>3. Len(p) = n /\ \A i \in 1 .. n : p[i] = s[i]
    BY <1>2, SMT
  <1>4. \A i \in 1 .. 8 : i <= n => i \in 1 .. n
    BY SMT
  <1>5. Pad(p) = Cut(s, n)
    BY <1>3, <1>4 DEF Pad, Cut
  <1> QED
    BY <1>3, <1>5 DEF p

\* The bytes of a padded piece are bytes.
LEMMA CutIsData ==
  ASSUME NEW dat \in [1 .. 8 -> Byte], NEW n \in 0 .. 8
  PROVE  Cut(dat, n) \in [1 .. 8 -> Byte]
BY SMT DEF Cut, Byte

\* The messages a client may have sent: an identifier of 29 bits with none of the flags of
\* a can_frame if it is extended, and up to 8 bytes.
Message ==
  {m \in [mid : [hi : Nat, id : Nat], ext : BOOLEAN, len : 0 .. 8, dat : [1 .. 8 -> Byte]] :
     m.mid.id < Pow29 /\ (m.ext => m.mid.hi = 0)}

\* What the conversions make of a message on its way from one client's file over the bus
\* to another's: format, length and data are kept, of an identifier its format's bits.
LEMMA MessageCarried ==
  ASSUME NEW m \in Message, NEW junk
  PROVE  Received(m, junk) =
           [mid |-> IF m.ext THEN m.mid ELSE Shl18(Shr18(m.mid) % 2048),
            ext |-> m.ext, len |-> m.len, dat |-> Cut(m.dat, m.len)]
PROOF
  <1> DEFINE mid == m.mid
             hi == mid.hi
             id == mid.id
             ext == m.ext
             len == m.len
             dat == m.dat
             cid == IF ext THEN id ELSE Shr18(mid)
             cf == [eff |-> ext, rtr |-> FALSE, err |-> FALSE, id |-> cid, len |-> len,
                    data |-> Cut(dat, len)]
             first == SubSeq(Cut(dat, len), 1, len)
             regs == IF ext
                     THEN <<(cid \div Pow21) % 256, (cid \div Pow13) % 256, (cid \div Pow5) % 256,
                            (cid % 32) * 8>>
                     ELSE <<(cid \div 8) % 256, (cid % 8) * 32>>
             r == [ff |-> ext, rtr |-> FALSE, dlc |-> len, data |-> first, regs |-> regs]
             wire == [i \in 1 .. 8 |-> IF i <= len THEN first[i] ELSE junk]
             rid == IF ext THEN id ELSE cid % 2048
  <1>0. /\ hi \in Nat /\ id \in Nat /\ id < Pow29 /\ ext \in BOOLEAN /\ len \in 0 .. 8
        /\ dat \in [1 .. 8 -> Byte] /\ mid = [hi |-> hi, id |-> id] /\ (ext => hi = 0)
    BY DEF Message
  <1> HIDE DEF hi, id, ext, len, dat, mid
  <1> USE <1>0
  <1>1. netif_tx(m) = cf
    <2>1. Pad(SubSeq(dat, 1, len)) = Cut(dat, len)
      <3>1. \A i \in 1 .. len : dat[i] \in Byte
        BY SMT
      <3> QED
        BY <3>1, FirstBytes
    <2>2. ext => ~((hi \div 2) % 2 = 1) /\ ~(hi % 2 = 1)
      BY SMT
    <2>3. m.ext = ext /\ m.len = len /\ m.dat = dat /\ m.mid = mid /\ m.mid.hi = hi /\ m.mid.id = id
      BY DEF hi, id, ext, len, dat, mid
    <2> QED
      BY <2>1, <2>2, <2>3 DEF netif_tx
  <1>2. sja1000_start_xmit(cf) = r
    BY DEF sja1000_start_xmit
  <1>3. /\ Len(first) = len /\ \A i \in 1 .. len : first[i] = dat[i]
        /\ Cut(dat, len) \in [1 .. 8 -> Byte]
    <2>1. Cut(dat, len) \in [1 .. 8 -> Byte]
      BY CutIsData
    <2>2. \A i \in 1 .. len : Cut(dat, len)[i] \in Byte
      BY <2>1, SMT
    <2>3. Len(first) = len /\ \A i \in 1 .. len : first[i] = Cut(dat, len)[i]
      BY <2>2, FirstBytes
    <2>4. \A i \in 1 .. len : Cut(dat, len)[i] = dat[i]
      BY SMT DEF Cut
    <2> QED
      BY <2>1, <2>3, <2>4
  <1> DEFINE w == [ff |-> ext, rtr |-> FALSE, dlc |-> len, data |-> wire, regs |-> regs]
  <1>4. Bus(r, junk) = w
    <2> HIDE DEF first, regs
    <2>1. r.data = first /\ ~r.rtr
      OBVIOUS
    <2>2. [i \in 1 .. 8 |-> IF i <= Len(r.data) /\ ~r.rtr THEN r.data[i] ELSE junk] = wire
      BY <1>3, <2>1
    <2>3. Bus(r, junk) = [r EXCEPT !.data =
                            [i \in 1 .. 8 |-> IF i <= Len(r.data) /\ ~r.rtr THEN r.data[i] ELSE junk]]
      BY DEF Bus
    <2> HIDE DEF wire
    <2> QED
      BY <2>2, <2>3
  <1>5. cid \in Nat /\ (ext => cid < Pow29)
    <2>1. id \div Pow18 \in Nat
      BY SMT DEF Pow18
    <2> QED
      BY <2>1, SMT DEF Shr18
  <1>6. Pad(SubSeq(wire, 1, len)) = Cut(dat, len)
    <2>1. \A i \in 1 .. len : wire[i] \in Byte /\ wire[i] = dat[i]
      <3> TAKE i \in 1 .. len
      <3>1. i \in 1 .. 8 /\ i <= len
        BY SMT
      <3>2. wire[i] = first[i]
        BY <3>1
      <3> QED
        BY <1>3, <3>1, <3>2
    <2> HIDE DEF wire
    <2>2. Pad(SubSeq(wire, 1, len)) = Cut(wire, len)
      BY <2>1, FirstBytes
    <2>3. \A i \in 1 .. 8 : i <= len => i \in 1 .. len
      BY SMT
    <2> QED
      BY <2>1, <2>2, <2>3 DEF Cut
  <1>7. sja1000_rx(w) = [eff |-> ext, rtr |-> FALSE, err |-> FALSE, len |-> len, id |-> rid,
                         data |-> Cut(dat, len)]
    <2> HIDE DEF cid, wire
    <2>1. ext => regs[1] * Pow21 + regs[2] * Pow13 + regs[3] * Pow5 + regs[4] \div 8 = cid
      BY <1>5, ExtendedIdentifier
    <2>2. ~ext => regs[1] * 8 + regs[2] \div 32 = cid % 2048
      BY <1>5, StandardIdentifier
    <2>3. ~(len > 8)
      BY SMT
    <2> HIDE DEF regs
    <2>4. ext => cid = id
      BY DEF cid
    <2>5. w.ff = ext /\ w.rtr = FALSE /\ w.dlc = len /\ w.data = wire /\ w.regs = regs
      OBVIOUS
    <2> HIDE DEF w
    <2>6. (IF w.dlc > 8 THEN 8 ELSE w.dlc) = len
      BY <2>3, <2>5
    <2>7. (IF w.ff
           THEN w.regs[1] * Pow21 + w.regs[2] * Pow13 + w.regs[3] * Pow5 + w.regs[4] \div 8
           ELSE w.regs[1] * 8 + w.regs[2] \div 32) = rid
      <3>1. CASE ext
        BY <2>1, <2>4, <2>5, <3>1
      <3>2. CASE ~ext
        BY <2>2, <2>5, <3>2
      <3> QED
        BY <3>1, <3>2
    <2> HIDE DEF rid
    <2> QED
      BY <1>6, <2>5, <2>6, <2>7, Zenon DEF sja1000_rx
  <1>8. netif_rx(sja1000_rx(w), FALSE, FALSE) =
          [mid |-> IF ext THEN [hi |-> 0, id |-> rid] ELSE Shl18(rid), ext |-> ext, len |-> len,
           dat |-> Cut(dat, len)]
    <2> HIDE DEF rid, w
    <2> QED
      BY <1>7 DEF netif_rx
  <1>9. Received(m, junk) = netif_rx(sja1000_rx(w), FALSE, FALSE)
    <2> HIDE DEF w, r, cf
    <2> QED
      BY <1>1, <1>2, <1>4 DEF Received
  <1> DEFINE was == IF ext THEN [hi |-> 0, id |-> rid] ELSE Shl18(rid)
             is == IF ext THEN mid ELSE Shl18(Shr18(mid) % 2048)
  <1>10. was = is
    OBVIOUS
  <1>11. Received(m, junk) = [mid |-> was, ext |-> ext, len |-> len, dat |-> Cut(dat, len)]
    <2> HIDE DEF w, rid
    <2> QED
      BY <1>8, <1>9
  <1>12. Received(m, junk) = [mid |-> is, ext |-> ext, len |-> len, dat |-> Cut(dat, len)]
    <2> HIDE DEF was, is
    <2> QED
      BY <1>10, <1>11
  <1> QED
    BY <1>12, Zenon DEF ext, len, dat, mid

\* What cansend sends is such a message.
LEMMA MessageSent ==
  ASSUME NEW id \in Nat, id < Pow29, NEW ext \in BOOLEAN, NEW data \in Seq(Byte), Len(data) <= 8
  PROVE  LET m == cansend(id, ext, data)
             mid == IF ext THEN [hi |-> 0, id |-> id] ELSE Shl18(id)
         IN  /\ m \in Message /\ m.mid = mid /\ m.ext = ext /\ m.len = Len(data) /\ m.dat = Pad(data)
             /\ Cut(Pad(data), Len(data)) = Pad(data)
PROOF
  <1> DEFINE m == cansend(id, ext, data)
             mid == IF ext THEN [hi |-> 0, id |-> id] ELSE Shl18(id)
             len == Len(data)
  <1>1. len \in 0 .. 8 /\ \A i \in 1 .. 8 : i <= len => data[i] \in Byte
    <2>1. len \in Nat /\ \A i \in 1 .. len : data[i] \in Byte
      BY SMT
    <2>2. len <= 8
      OBVIOUS
    <2> HIDE DEF len
    <2> QED
      BY <2>1, <2>2, SMT
  <1>2. Pad(data) \in [1 .. 8 -> Byte] /\ Cut(Pad(data), len) = Pad(data)
    <2>1. 0 \in Byte
      BY SMT DEF Byte
    <2>2. Pad(data) \in [1 .. 8 -> Byte]
      BY <1>1, <2>1 DEF Pad
    <2>3. Cut(Pad(data), len) = Pad(data)
      BY DEF Pad, Cut
    <2> QED
      BY <2>2, <2>3
  <1>3. mid \in [hi : Nat, id : Nat] /\ mid.id < Pow29 /\ (ext => mid.hi = 0 /\ mid.id = id)
    <2>1. Shl18(id) \in [hi : Nat, id : Nat] /\ Shl18(id).id < Pow29
      BY ShiftedBack
    <2> QED
      BY <2>1
  <1>4. m = [mid |-> mid, ext |-> ext, len |-> len, dat |-> Pad(data)]
    BY DEF cansend
  <1>5. m \in Message /\ m.mid = mid /\ m.ext = ext /\ m.len = len /\ m.dat = Pad(data)
    <2> HIDE DEF m, mid, len
    <2> QED
      BY <1>1, <1>2, <1>3, <1>4 DEF Message
  <1> HIDE DEF m, mid
  <1> QED
    BY <1>2, <1>5 DEF m, mid

\* What cansend sends candump prints, for every identifier of 29 bits, format and data of
\* up to 8 bytes and whatever the registers behind the data held: netif_tx,
\* sja1000_start_xmit, sja1000_rx and netif_rx keep the identifier (of a standard one its
\* 11 bits), the format, the length and the data.
THEOREM FramesCarried ==
  ASSUME NEW id \in Nat, id < Pow29, NEW ext \in BOOLEAN, NEW data \in Seq(Byte), Len(data) <= 8, NEW junk
  PROVE  candump(Received(cansend(id, ext, data), junk)) =
           [ext |-> ext, id |-> IF ext THEN id ELSE id % 2048, len |-> Len(data), dat |-> Pad(data)]
PROOF
  <1> DEFINE m == cansend(id, ext, data)
             mid == IF ext THEN [hi |-> 0, id |-> id] ELSE Shl18(id)
             len == Len(data)
             std == Shr18(Shl18(id)) % 2048
  <1>5. /\ m \in Message /\ m.mid = mid /\ m.ext = ext /\ m.len = len /\ m.dat = Pad(data)
        /\ Cut(Pad(data), len) = Pad(data)
    BY MessageSent
  <1>6. std = id % 2048 /\ Shr18(Shl18(std)) = id % 2048
    <2>1. Shr18(Shl18(id)) = id % Pow14
      BY ShiftedBack
    <2>2. (id % Pow14) % 2048 = id % 2048 /\ id % 2048 \in Nat /\ (id % 2048) % Pow14 = id % 2048
      BY SMT DEF Pow14
    <2>3. std = id % 2048
      BY <2>1, <2>2, SMT
    <2> HIDE DEF std
    <2>4. Shr18(Shl18(std)) = std % Pow14
      BY <2>2, <2>3, ShiftedBack
    <2> QED
      BY <2>2, <2>3, <2>4, SMT
  <1> DEFINE got == Received(m, junk)
  <1>7. got = [mid |-> IF ext THEN mid ELSE Shl18(Shr18(mid) % 2048), ext |-> ext, len |-> len,
               dat |-> Pad(data)]
    <2> HIDE DEF m, mid, len
    <2> QED
      BY <1>5, MessageCarried
  <1>8. CASE ext
    <2>1. got = [mid |-> mid, ext |-> ext, len |-> len, dat |-> Pad(data)]
      BY <1>7, <1>8
    <2> HIDE DEF got, mid, len
    <2>2. candump(got) = [ext |-> ext, id |-> mid.id, len |-> len, dat |-> Pad(data)]
      BY <1>8, <2>1 DEF candump
    <2> QED
      BY <1>8, <2>2 DEF got, len, mid
  <1>9. CASE ~ext
    <2>1. got = [mid |-> Shl18(std), ext |-> ext, len |-> len, dat |-> Pad(data)]
      BY <1>7, <1>9
    <2> HIDE DEF got, std, len
    <2>2. candump(got) = [ext |-> ext, id |-> Shr18(Shl18(std)), len |-> len, dat |-> Pad(data)]
      BY <1>9, <2>1 DEF candump
    <2> QED
      BY <1>6, <1>9, <2>2 DEF got, len
  <1> QED
    BY <1>8, <1>9

\* Lengths in the width of can_msg.len.
LEMMA LenMod ==
  ASSUME NEW x \in Nat
  PROVE  /\ x % LenWrap \in Nat /\ x % LenWrap <= x
         /\ x < LenWrap => x % LenWrap = x
         /\ LenWrap <= x /\ x < LenWrap + 8 => x % LenWrap = x - LenWrap
PROOF
  <1>1. LenWrap \in Nat /\ LenWrap >= 8
    BY LenWrapAssumption
  <1>2. x % LenWrap \in 0 .. LenWrap - 1 /\ x = (x \div LenWrap) * LenWrap + (x % LenWrap)
    BY <1>1, SMT
  <1>3. x < LenWrap => x % LenWrap = x
    BY <1>1, SMT
  <1>4. ~(x < LenWrap) => x % LenWrap <= x
    BY <1>1, <1>2, SMT
  <1>5. LenWrap <= x /\ x < LenWrap + 8 => x % LenWrap = x - LenWrap
    <2>1. \A y \in Int, q \in Int, r \in 0 .. LenWrap - 1 : y = q * LenWrap + r => y % LenWrap = r
      BY <1>1, SMT
    <2>2. LenWrap <= x /\ x < LenWrap + 8 => x - LenWrap \in 0 .. LenWrap - 1 /\ x = 1 * LenWrap + (x - LenWrap)
      BY <1>1, SMT
    <2>3. 1 \in Int /\ x \in Int
      BY SMT
    <2> QED
      BY <2>1, <2>2, <2>3
  <1> QED
    BY <1>1, <1>2, <1>3, <1>4, <1>5, SMT

\* One message of a write, the one that starts at byte 8(k - 1).
LEMMA PieceSent ==
  ASSUME NEW bytes \in Seq(Byte), NEW k \in 1 .. ((Len(bytes) + 7) \div 8)
  PROVE  LET len == PieceLen(Len(bytes), k - 1)
             dat == Pad(SubSeq(bytes, 8 * k - 7, 8 * k - 8 + len))
         IN  /\ len \in 0 .. 8 /\ 8 * (k - 1) + len <= Len(bytes)
             /\ dat \in [1 .. 8 -> Byte] /\ \A j \in 1 .. len : dat[j] = bytes[8 * (k - 1) + j]
PROOF
  <1> DEFINE n == Len(bytes)
             left == (n - 8 * (k - 1)) % LenWrap
             len == PieceLen(n, k - 1)
             a == 8 * k - 7
             b == 8 * k - 8 + len
             p == SubSeq(bytes, a, b)
  <1>1. n \in Nat /\ \A i \in 1 .. n : bytes[i] \in Byte
    BY SMT
  <1>2. k \in 1 .. ((n + 7) \div 8)
    OBVIOUS
  <1> HIDE DEF n
  <1>3. k \in Nat /\ k >= 1 /\ n - 8 * (k - 1) \in Nat
    BY <1>1, <1>2, SMT
  <1>4. left \in Nat /\ left <= n - 8 * (k - 1)
    BY <1>3, LenMod
  <1>5. len = IF left > 8 THEN 8 ELSE left
    BY DEF PieceLen
  <1> HIDE DEF left, len
  <1>6. len \in 0 .. 8 /\ 8 * (k - 1) + len <= n
    BY <1>1, <1>3, <1>4, <1>5, SMT
  <1>7. a \in Int /\ b \in Int /\ len \in Nat /\ b = a + len - 1 /\ a >= 1 /\ b <= n
    BY <1>1, <1>3, <1>6, SMT
  <1>8. \A i \in a .. b : bytes[i] \in Byte
    <2> HIDE DEF a, b
    <2>1. \A i \in a .. b : i \in 1 .. n
      BY <1>1, <1>7, SMT
    <2> QED
      BY <1>1, <2>1
  <1>9. Len(p) = len /\ \A j \in 1 .. len : p[j] = bytes[a + j - 1]
    <2> HIDE DEF a, b
    <2> QED
      BY <1>7, <1>8, Piece
  <1>10. \A j \in 1 .. len : p[j] \in Byte /\ p[j] = bytes[8 * (k - 1) + j]
    <2> TAKE j \in 1 .. len
    <2>1. a + j - 1 \in a .. b /\ a + j - 1 = 8 * (k - 1) + j
      BY <1>3, <1>7, SMT
    <2> HIDE DEF a, b, p
    <2> QED
      BY <1>8, <1>9, <2>1
  <1> HIDE DEF p
  <1>11. \A j \in 1 .. 8 : j <= len => j \in 1 .. len
    BY <1>6, SMT
  <1>12. 0 \in Byte /\ \A j \in 1 .. len : j \in 1 .. 8 /\ j <= len
    BY <1>6, SMT DEF Byte
  <1>13. Pad(p) \in [1 .. 8 -> Byte] /\ \A j \in 1 .. len : Pad(p)[j] = bytes[8 * (k - 1) + j]
    BY <1>9, <1>10, <1>11, <1>12 DEF Pad
  <1> QED
    BY <1>6, <1>13 DEF n, len, p

\* The file after CAN_DEVCTL_SET_MID.
LEMMA FileWithMid ==
  ASSUME NEW kind, NEW ext, NEW mid
  PROVE  LET f == set_mid(set_latency_limit_ms(File0(kind, ext), 5).file, mid).file
         IN  f.kind = kind /\ f.ext = ext /\ f.mid = mid
PROOF
  <1> DEFINE g == [File0(kind, ext) EXCEPT !.latency = 5]
             f == [g EXCEPT !.mid = mid]
  <1>1. set_latency_limit_ms(File0(kind, ext), 5).file = g
    BY DEF set_latency_limit_ms, io_devctl, Done
  <1>2. set_mid(g, mid).file = f
    <2> HIDE DEF g
    <2> QED
      BY DEF set_mid, io_devctl, Done
  <1>3. f.kind = kind /\ f.ext = ext /\ f.mid = mid
    BY DEF File0
  <1> HIDE DEF f, g
  <1> QED
    BY <1>1, <1>2, <1>3

\* The messages of a write to a tx file: as many as there are pieces of 8 bytes, received
\* with the identifier of the file and nothing past the end, and whole exactly if the
\* length fits LenWrap.
PiecesCarry(bytes, ext, id) ==
  LET n == Len(bytes)
      mid == cansend(id, ext, <<>>).mid
      f == set_mid(set_latency_limit_ms(File0("tx", ext), 5).file, mid).file
      sent == io_write(f, bytes)
      got(k) == Received(sent[k], 255)
  IN  /\ Len(sent) = (n + 7) \div 8
      /\ n < LenWrap <=>
           \A i \in 1 .. n : /\ (i - 1) % 8 < got((i + 7) \div 8).len
                             /\ got((i + 7) \div 8).dat[((i - 1) % 8) + 1] = bytes[i]
      /\ \A k \in 1 .. ((n + 7) \div 8) :
           /\ got(k).mid = Received(cansend(id, ext, <<>>), 0).mid
           /\ 8 * (k - 1) + got(k).len <= n

LEMMA PiecesReceived ==
  ASSUME NEW bytes \in Seq(Byte), NEW ext \in BOOLEAN, NEW id \in Nat, id < Pow29
  PROVE  PiecesCarry(bytes, ext, id)
PROOF
  <1> DEFINE n == Len(bytes)
             none == cansend(id, ext, <<>>)
             mid == none.mid
             f == set_mid(set_latency_limit_ms(File0("tx", ext), 5).file, mid).file
             sent == io_write(f, bytes)
             last == (n + 7) \div 8
             got == [k \in 1 .. last |-> Received(sent[k], 255)]
             len(k) == PieceLen(n, k - 1)
             dat(k) == Pad(SubSeq(bytes, 8 * k - 7, 8 * k - 8 + len(k)))
             out == IF ext THEN mid ELSE Shl18(Shr18(mid) % 2048)
             All == \A i \in 1 .. n : LET m == got[(i + 7) \div 8]
                                      IN  (i - 1) % 8 < m.len /\ m.dat[((i - 1) % 8) + 1] = bytes[i]
  <1>1. n \in Nat
    BY SMT
  <1>2. none \in Message /\ none.ext = ext
    <2> DEFINE data == <<>>
    <2>1. data \in Seq(Byte) /\ Len(data) <= 8
      BY SMT
    <2> HIDE DEF data
    <2> DEFINE m == cansend(id, ext, data)
    <2>2. /\ m \in Message /\ m.mid = (IF ext THEN [hi |-> 0, id |-> id] ELSE Shl18(id)) /\ m.ext = ext
          /\ m.len = Len(data) /\ m.dat = Pad(data) /\ Cut(Pad(data), Len(data)) = Pad(data)
      BY <2>1, MessageSent, SMTT(30)
    <2>3. none = m
      BY DEF data
    <2> HIDE DEF none, m
    <2> QED
      BY <2>2, <2>3
  <1>3. Received(none, 0).mid = out
    <2> HIDE DEF none
    <2>1. Received(none, 0) = [mid |-> IF none.ext THEN none.mid ELSE Shl18(Shr18(none.mid) % 2048),
                               ext |-> none.ext, len |-> none.len, dat |-> Cut(none.dat, none.len)]
      BY <1>2, MessageCarried
    <2> QED
      BY <1>2, <2>1
  <1>4. mid \in [hi : Nat, id : Nat] /\ mid.id < Pow29 /\ (ext => mid.hi = 0)
    <2> HIDE DEF none
    <2> QED
      BY <1>2 DEF Message
  <1> HIDE DEF mid
  <1>5. f.kind = "tx" /\ f.ext = ext /\ f.mid = mid
    BY FileWithMid
  <1> HIDE DEF f
  <1>7. sent = [k \in 1 .. last |-> [mid |-> mid, ext |-> ext, len |-> len(k), dat |-> dat(k)]]
    BY <1>5 DEF io_write
  <1>6. Len(sent) = last
    <2>1. last \in Nat
      BY <1>1, SMT
    <2> HIDE DEF last, len, dat, sent
    <2> QED
      BY <1>7, <2>1, SMT
  <1> HIDE DEF sent
  <1>8. ASSUME NEW k \in 1 .. last
        PROVE  /\ len(k) \in 0 .. 8 /\ 8 * (k - 1) + len(k) <= n
               /\ dat(k) \in [1 .. 8 -> Byte] /\ \A j \in 1 .. len(k) : dat(k)[j] = bytes[8 * (k - 1) + j]
    BY PieceSent
  <1> HIDE DEF len, dat, last, n
  <1>10. ASSUME NEW k \in 1 .. last
         PROVE  /\ got[k].mid = out /\ got[k].len = len(k)
                /\ \A j \in 1 .. len(k) : got[k].dat[j] = bytes[8 * (k - 1) + j]
    <2> DEFINE m == sent[k]
    <2>1. m = [mid |-> mid, ext |-> ext, len |-> len(k), dat |-> dat(k)]
      BY <1>7
    <2>2. got[k] = Received(m, 255)
      OBVIOUS
    <2> HIDE DEF m, got
    <2>3. m \in Message /\ m.mid = mid /\ m.ext = ext /\ m.len = len(k) /\ m.dat = dat(k)
      BY <1>4, <1>8, <2>1 DEF Message
    <2>4. Received(m, 255) = [mid |-> IF m.ext THEN m.mid ELSE Shl18(Shr18(m.mid) % 2048),
                              ext |-> m.ext, len |-> m.len, dat |-> Cut(m.dat, m.len)]
      BY <2>3, MessageCarried
    <2>5. got[k].mid = out /\ got[k].len = len(k) /\ got[k].dat = Cut(dat(k), len(k))
      BY <2>2, <2>3, <2>4
    <2>6. \A j \in 1 .. len(k) : j \in 1 .. 8 /\ j <= len(k)
      <3> DEFINE l == len(k)
      <3>1. l \in 0 .. 8
        BY <1>8
      <3> HIDE DEF l
      <3>2. \A j \in 1 .. l : j \in 1 .. 8 /\ j <= l
        BY <3>1, SMT
      <3> QED
        BY <3>2 DEF l
    <2>7. \A j \in 1 .. len(k) : Cut(dat(k), len(k))[j] = dat(k)[j]
      BY <2>6 DEF Cut
    <2>8. \A j \in 1 .. len(k) : dat(k)[j] = bytes[8 * (k - 1) + j]
      BY <1>8
    <2>9. ASSUME NEW j \in 1 .. len(k) PROVE got[k].dat[j] = bytes[8 * (k - 1) + j]
      BY <2>5, <2>7, <2>8
    <2> QED
      BY <2>5, <2>9
  <1> HIDE DEF got
  <1>11. n < LenWrap => All
    <2> SUFFICES ASSUME n < LenWrap, NEW i \in 1 .. n
                 PROVE  LET m == got[(i + 7) \div 8]
                        IN  (i - 1) % 8 < m.len /\ m.dat[((i - 1) % 8) + 1] = bytes[i]
      OBVIOUS
    <2> DEFINE k == (i + 7) \div 8
               r == (i - 1) % 8
    <2>1. k \in 1 .. last /\ r \in 0 .. 7 /\ i = 8 * (k - 1) + r + 1
      BY <1>1, SMT DEF last
    <2> HIDE DEF k, r
    <2>2. n - 8 * (k - 1) \in Nat /\ n - 8 * (k - 1) < LenWrap /\ r < n - 8 * (k - 1)
      BY <1>1, <2>1, LenWrapAssumption, SMT DEF last
    <2>3. (n - 8 * (k - 1)) % LenWrap = n - 8 * (k - 1)
      BY <2>2, LenMod
    <2>4. len(k) = IF n - 8 * (k - 1) > 8 THEN 8 ELSE n - 8 * (k - 1)
      BY <2>3 DEF len, PieceLen
    <2>5. r < len(k) /\ r + 1 \in 1 .. len(k) /\ 8 * (k - 1) + (r + 1) = i
      BY <1>1, <2>1, <2>2, <2>4, SMT DEF last
    <2>6. got[k].len = len(k) /\ got[k].dat[r + 1] = bytes[i]
      BY <1>10, <2>1, <2>5
    <2> QED
      BY <2>5, <2>6 DEF k, r
  <1>12. ~(n < LenWrap) => ~All
    <2> SUFFICES ASSUME ~(n < LenWrap)
                 PROVE  \E i \in 1 .. n : ~((i - 1) % 8 < got[(i + 7) \div 8].len)
      OBVIOUS
    <2> DEFINE q == (n - LenWrap) \div 8
               r == (n - LenWrap) % 8
               i == 8 * q + r + 1
    <2>1. LenWrap \in Nat /\ LenWrap >= 8
      BY LenWrapAssumption
    <2>2. q \in Nat /\ r \in 0 .. 7 /\ n - LenWrap = 8 * q + r
      BY <1>1, <2>1, SMT
    <2> HIDE DEF q, r
    <2>3. i \in 1 .. n /\ (i - 1) % 8 = r /\ (i + 7) \div 8 = q + 1 /\ q + 1 \in 1 .. last
      BY <1>1, <2>1, <2>2, SMT DEF last
    <2>4. n - 8 * q \in Nat /\ LenWrap <= n - 8 * q /\ n - 8 * q < LenWrap + 8 /\ (n - 8 * q) - LenWrap = r
      BY <1>1, <2>1, <2>2, SMT
    <2>5. (n - 8 * q) % LenWrap = r
      BY <2>4, LenMod
    <2>6. len(q + 1) = r
      <3>1. (q + 1) - 1 = q /\ ~(r > 8)
        BY <2>2, SMT
      <3> QED
        BY <2>5, <3>1 DEF len, PieceLen
    <2>7. got[q + 1].len = r /\ ~(r < r)
      BY <1>10, <2>2, <2>3, <2>6
    <2> HIDE DEF i
    <2> QED
      BY <2>3, <2>7
  <1>13. \A k \in 1 .. last : /\ got[k].mid = Received(cansend(id, ext, <<>>), 0).mid
                             /\ 8 * (k - 1) + got[k].len <= n
    BY <1>3, <1>8, <1>10
  <1>14. \A k \in 1 .. last : got[k] = Received(sent[k], 255)
    BY DEF got
  <1>15. \A i \in 1 .. n : (i + 7) \div 8 \in 1 .. last
    BY <1>1, SMT DEF last
  <1> HIDE DEF last, n, mid
  <1>16. All <=> \A i \in 1 .. n :
                   /\ (i - 1) % 8 < Received(sent[(i + 7) \div 8], 255).len
                   /\ Received(sent[(i + 7) \div 8], 255).dat[((i - 1) % 8) + 1] = bytes[i]
    BY <1>14, <1>15, SMTT(30)
  <1>17. \A k \in 1 .. last : /\ Received(sent[k], 255).mid = Received(cansend(id, ext, <<>>), 0).mid
                             /\ 8 * (k - 1) + Received(sent[k], 255).len <= n
    BY <1>13, <1>14
  <1> HIDE DEF All
  <1>18. n < LenWrap <=> All
    BY <1>11, <1>12
  <1> QED
    BY <1>6, <1>16, <1>17, <1>18 DEF PiecesCarry, n, mid, f, sent, last

\* The queue holds the messages last enqueued, in a row up to the last; what has been
\* sent came before them, in order, and without an overrun is all that came before.
WriteTypeOK ==
  /\ write \in Writes /\ tx_queue \in Seq(Nat) /\ taken \in Seq(Nat)
  /\ enqueued \in Nat /\ overrun \in BOOLEAN

WriteRow ==
  /\ enqueued <= Len(Messages) /\ Len(tx_queue) <= enqueued
  /\ \A i \in 1 .. Len(tx_queue) : tx_queue[i] = enqueued - Len(tx_queue) + i
  /\ \A i \in 1 .. Len(taken) : taken[i] \in 1 .. (enqueued - Len(tx_queue))
  /\ \A i, j \in 1 .. Len(taken) : i < j => taken[i] < taken[j]
  /\ overrun => enqueued > TxCapacity
  /\ ~overrun => /\ Len(taken) + Len(tx_queue) = enqueued
                 /\ \A i \in 1 .. Len(taken) : taken[i] = i

WriteInv == WriteTypeOK /\ WriteRow

\* An rx file makes no message, a tx file one for every 8 bytes.
LEMMA MessagesOf ==
  ASSUME write \in Writes
  PROVE  LET n == Len(write.bytes)
             last == (n + 7) \div 8
         IN  /\ n \in Nat /\ Len(Messages) \in Nat
             /\ write.kind \in {"rx", "tx"}
             /\ write.kind = "rx" => Len(Messages) = 0
             /\ write.kind = "tx" =>
                  /\ Len(Messages) = last
                  /\ n < LenWrap <=>
                       \A i \in 1 .. n : /\ (i - 1) % 8 < Frame((i + 7) \div 8).len
                                         /\ Frame((i + 7) \div 8).dat[((i - 1) % 8) + 1] = write.bytes[i]
                  /\ \A k \in 1 .. last :
                       /\ Frame(k).mid = Received(cansend(write.id, write.ext, <<>>), 0).mid
                       /\ 8 * (k - 1) + Frame(k).len <= n
PROOF
  <1> DEFINE n == Len(write.bytes)
             last == (n + 7) \div 8
  <1>1. /\ write.kind \in {"rx", "tx"} /\ write.ext \in BOOLEAN /\ write.id \in Nat /\ write.id < Pow29
        /\ write.bytes \in Seq(Byte)
    <2>1. /\ write \in [kind : {"rx", "tx"}, ext : BOOLEAN, id : Nat, bytes : Seq(Byte)]
          /\ write.id < Pow29
      BY WriteAssumption, Zenon
    <2> QED
      BY <2>1
  <1>2. n \in Nat /\ last \in Nat
    <2>1. n \in Nat
      BY <1>1
    <2> HIDE DEF n
    <2> QED
      BY <2>1, SMT
  <1>3. FileOf(write).kind = write.kind
    BY FileWithMid, SMTT(30) DEF FileOf
  <1>4. ASSUME write.kind = "rx" PROVE Len(Messages) = 0
    <2>1. Messages = <<>>
      BY <1>3, <1>4 DEF Messages, io_write
    <2> QED
      BY <2>1
  <1>5. ASSUME write.kind = "tx"
        PROVE  /\ Len(Messages) = last
               /\ n < LenWrap <=>
                    \A i \in 1 .. n : /\ (i - 1) % 8 < Frame((i + 7) \div 8).len
                                      /\ Frame((i + 7) \div 8).dat[((i - 1) % 8) + 1] = write.bytes[i]
               /\ \A k \in 1 .. last :
                    /\ Frame(k).mid = Received(cansend(write.id, write.ext, <<>>), 0).mid
                    /\ 8 * (k - 1) + Frame(k).len <= n
    <2> DEFINE f == set_mid(set_latency_limit_ms(File0("tx", write.ext), 5).file,
                            cansend(write.id, write.ext, <<>>).mid).file
    <2>1. Messages = io_write(f, write.bytes)
      BY <1>5 DEF Messages, FileOf
    <2> DEFINE sent == io_write(f, write.bytes)
               got(k) == Received(sent[k], 255)
    <2>2. PiecesCarry(write.bytes, write.ext, write.id)
      BY <1>1, PiecesReceived, Zenon
    <2>3. /\ Len(sent) = last
          /\ n < LenWrap <=>
               \A i \in 1 .. n : /\ (i - 1) % 8 < got((i + 7) \div 8).len
                                 /\ got((i + 7) \div 8).dat[((i - 1) % 8) + 1] = write.bytes[i]
          /\ \A k \in 1 .. last :
               /\ got(k).mid = Received(cansend(write.id, write.ext, <<>>), 0).mid
               /\ 8 * (k - 1) + got(k).len <= n
      BY <2>2, Zenon DEF PiecesCarry
    <2> HIDE DEF sent, last, n
    <2>4. \A k : Frame(k) = got(k)
      BY <2>1 DEF Frame, sent
    <2> HIDE DEF got
    <2> QED
      BY <2>1, <2>3, <2>4 DEF sent
  <1>6. Len(Messages) \in Nat
    BY <1>1, <1>2, <1>4, <1>5
  <1> QED
    BY <1>1, <1>2, <1>4, <1>5, <1>6, Zenon

\* What is left of a sequence of n elements without the first k.
Rest(s, k, n) == SubSeq(s, k + 1, n)

LEMMA RestOf ==
  ASSUME NEW s \in Seq(Nat), NEW k \in Nat, NEW n \in Nat, Len(s) = n, k <= n
  PROVE  /\ Rest(s, k, n) \in Seq(Nat) /\ Len(Rest(s, k, n)) = n - k
         /\ \A i \in 1 .. n - k : Rest(s, k, n)[i] = s[k + i]
PROOF
  <1>1. \A i \in k + 1 .. n : s[i] \in Nat
    OBVIOUS
  <1> DEFINE a == k + 1
             p == SubSeq(s, a, n)
  <1>2. a \in Int /\ n \in Int
    OBVIOUS
  <1> HIDE DEF a
  <1>3. /\ Len(p) = IF a <= n THEN n - a + 1 ELSE 0
        /\ \A i \in 1 .. n - a + 1 : p[i] = s[a + i - 1]
    BY <1>2, SMT
  <1>4. p \in Seq(Nat)
    BY <1>1, <1>2, SMT DEF a
  <1> HIDE DEF p
  <1>5. Len(p) = n - k
    BY <1>3, SMT DEF a
  <1>6. ASSUME NEW i \in 1 .. n - k PROVE p[i] = s[k + i]
    <2>1. i \in 1 .. n - a + 1 /\ a + i - 1 = k + i
      BY SMT DEF a
    <2> QED
      BY <1>3, <2>1, Zenon
  <1> QED
    BY <1>4, <1>5, <1>6 DEF p, a, Rest

\* Every turn of io_write's and of netif_tx's loop keeps the row.
LEMMA WriteStep ==
  WriteInv /\ [WriteNext]_writeVars => WriteInv'
PROOF
  <1> SUFFICES ASSUME WriteInv, [WriteNext]_writeVars PROVE WriteInv'
    OBVIOUS
  <1>1. /\ write \in Writes /\ tx_queue \in Seq(Nat) /\ taken \in Seq(Nat)
        /\ enqueued \in Nat /\ overrun \in BOOLEAN
    BY DEF WriteInv, WriteTypeOK
  <1>2. WriteRow
    BY DEF WriteInv
  <1>3. Len(Messages) \in Nat /\ TxCapacity \in Nat
    BY <1>1, MessagesOf, WriteAssumption
  <1>4. ASSUME write' = write PROVE Messages' = Messages
    BY <1>4 DEF Messages
  <1>5. CASE Enqueue
    <2>1. /\ enqueued < Len(Messages) /\ enqueued' = enqueued + 1
          /\ overrun' = (overrun \/ Len(tx_queue) >= TxCapacity)
          /\ write' = write /\ taken' = taken
      BY <1>5 DEF Enqueue, Q!Put
    <2>2. PICK lost \in 0 .. Len(tx_queue) + 1 :
            /\ Len(tx_queue) < TxCapacity => lost = 0
            /\ tx_queue' = SubSeq(Append(tx_queue, enqueued + 1), lost + 1, Len(tx_queue) + 1)
      BY <1>5 DEF Enqueue, Q!Put
    <2> DEFINE long == Append(tx_queue, enqueued + 1)
               m == Len(tx_queue)
    <2>3. m \in Nat /\ long \in Seq(Nat) /\ Len(long) = m + 1 /\ lost \in Nat /\ lost <= m + 1
      BY <1>1, <2>2
    <2>4. \A i \in 1 .. m + 1 : long[i] = enqueued - m + i
      <3>1. \A i \in 1 .. m : tx_queue[i] = enqueued - m + i
        BY <1>2 DEF WriteRow
      <3>2. \A i \in 1 .. m : long[i] = tx_queue[i]
        BY <1>1
      <3>3. long[m + 1] = enqueued + 1
        BY <1>1
      <3> HIDE DEF long, m
      <3> TAKE i \in 1 .. m + 1
      <3>4. CASE i \in 1 .. m
        BY <3>1, <3>2, <3>4
      <3>5. CASE i = m + 1
        BY <1>1, <2>3, <3>3, <3>5
      <3> QED
        BY <2>3, <3>4, <3>5
    <2> HIDE DEF long
    <2>5. tx_queue' = Rest(long, lost, m + 1)
      BY <2>2 DEF long, Rest
    <2> HIDE DEF m
    <2>6. /\ tx_queue' \in Seq(Nat) /\ Len(tx_queue') = m + 1 - lost
          /\ \A i \in 1 .. Len(tx_queue') : tx_queue'[i] = long[lost + i]
      <3> DEFINE n == m + 1
      <3>1. /\ long \in Seq(Nat) /\ Len(long) = n /\ n \in Nat /\ lost \in Nat /\ lost <= n
            /\ tx_queue' = Rest(long, lost, n)
        BY <2>3, <2>5
      <3> HIDE DEF n
      <3>2. /\ Rest(long, lost, n) \in Seq(Nat) /\ Len(Rest(long, lost, n)) = n - lost
            /\ \A i \in 1 .. n - lost : Rest(long, lost, n)[i] = long[lost + i]
        BY <3>1, RestOf, Zenon
      <3>3. /\ tx_queue' \in Seq(Nat) /\ Len(tx_queue') = n - lost
            /\ \A i \in 1 .. n - lost : tx_queue'[i] = long[lost + i]
        BY <3>1, <3>2, Zenon
      <3>4. \A i \in 1 .. Len(tx_queue') : tx_queue'[i] = long[lost + i]
        BY <3>3, Zenon
      <3>5. n - lost = m + 1 - lost
        BY <2>3 DEF n
      <3> QED
        BY <3>3, <3>4, <3>5
    <2>7. WriteTypeOK'
      BY <1>1, <2>1, <2>6 DEF WriteTypeOK
    <2>8. Messages' = Messages
      BY <1>4, <2>1
    <2>9. /\ m <= enqueued
          /\ \A i \in 1 .. Len(taken) : taken[i] \in 1 .. (enqueued - m)
          /\ \A i, j \in 1 .. Len(taken) : i < j => taken[i] < taken[j]
          /\ overrun => enqueued > TxCapacity
          /\ ~overrun => Len(taken) + m = enqueued /\ \A i \in 1 .. Len(taken) : taken[i] = i
      BY <1>2 DEF WriteRow, m
    <2>10. \A i \in 1 .. Len(tx_queue') : tx_queue'[i] = enqueued' - Len(tx_queue') + i
      BY <1>1, <2>1, <2>3, <2>4, <2>6
    <2>11. \A i \in 1 .. Len(taken') : taken'[i] \in 1 .. (enqueued' - Len(tx_queue'))
      <3>1. enqueued - m <= enqueued' - Len(tx_queue')
        BY <1>1, <2>1, <2>3, <2>6
      <3>2. enqueued - m \in Int /\ enqueued' - Len(tx_queue') \in Int
        BY <1>1, <2>1, <2>3, <2>6
      <3>3. \A i \in 1 .. Len(taken) : taken[i] \in 1 .. (enqueued - m)
        BY <2>9
      <3> HIDE DEF m
      <3>4. 1 .. (enqueued - m) \subseteq 1 .. (enqueued' - Len(tx_queue'))
        BY <3>1, <3>2
      <3> QED
        BY <2>1, <3>3, <3>4, Zenon
    <2>12. overrun' => enqueued' > TxCapacity
      BY <1>1, <1>3, <2>1, <2>3, <2>9 DEF m
    <2>13. ~overrun' => /\ Len(taken') + Len(tx_queue') = enqueued'
                        /\ \A i \in 1 .. Len(taken') : taken'[i] = i
      <3> SUFFICES ASSUME ~overrun' PROVE Len(taken') + Len(tx_queue') = enqueued'
                                          /\ \A i \in 1 .. Len(taken') : taken'[i] = i
        OBVIOUS
      <3>1. ~overrun /\ ~(m >= TxCapacity)
        BY <2>1, Zenon DEF m
      <3>2. lost = 0
        <4>1. m < TxCapacity
          BY <1>3, <2>3, <3>1
        <4> QED
          BY <2>2, <4>1 DEF m
      <3>3. Len(taken) \in Nat /\ Len(taken) + m = enqueued /\ \A i \in 1 .. Len(taken) : taken[i] = i
        BY <1>1, <2>9, <3>1
      <3> QED
        BY <1>1, <2>1, <2>3, <2>6, <3>2, <3>3
    <2>14. enqueued' <= Len(Messages') /\ Len(tx_queue') <= enqueued'
      BY <1>1, <1>3, <2>1, <2>3, <2>6, <2>8, <2>9
    <2>15. WriteRow'
      BY <2>1, <2>9, <2>10, <2>11, <2>12, <2>13, <2>14 DEF WriteRow
    <2> QED
      BY <2>7, <2>15 DEF WriteInv
  <1>6. CASE Transmit
    <2>1. /\ tx_queue # <<>> /\ tx_queue' = Tail(tx_queue) /\ taken' = Append(taken, Head(tx_queue))
          /\ enqueued' = enqueued /\ write' = write /\ overrun' = overrun
      BY <1>6 DEF Transmit, Q!Get
    <2> DEFINE m == Len(tx_queue)
               t == Len(taken)
    <2>2. /\ m \in Nat /\ m > 0 /\ t \in Nat /\ Len(tx_queue') = m - 1 /\ Len(taken') = t + 1
          /\ tx_queue' \in Seq(Nat) /\ taken' \in Seq(Nat)
          /\ \A i \in 1 .. m - 1 : tx_queue'[i] = tx_queue[i + 1]
          /\ \A i \in 1 .. t : taken'[i] = taken[i]
          /\ taken'[t + 1] = tx_queue[1]
      BY <1>1, <2>1
    <2>3. WriteTypeOK'
      BY <1>1, <2>1, <2>2 DEF WriteTypeOK
    <2>4. /\ enqueued <= Len(Messages) /\ m <= enqueued
          /\ \A i \in 1 .. m : tx_queue[i] = enqueued - m + i
          /\ \A i \in 1 .. t : taken[i] \in 1 .. (enqueued - m)
          /\ \A i, j \in 1 .. t : i < j => taken[i] < taken[j]
          /\ overrun => enqueued > TxCapacity
          /\ ~overrun => t + m = enqueued /\ \A i \in 1 .. t : taken[i] = i
      BY <1>2 DEF WriteRow
    <2>5. Messages' = Messages
      BY <1>4, <2>1
    <2> HIDE DEF m, t
    <2>6. taken'[t + 1] = enqueued - m + 1
      BY <2>2, <2>4
    <2>7. \A i \in 1 .. Len(tx_queue') : tx_queue'[i] = enqueued' - Len(tx_queue') + i
      <3> TAKE i \in 1 .. Len(tx_queue')
      <3>1. i \in 1 .. m - 1 /\ i + 1 \in 1 .. m
        BY <2>2
      <3>2. tx_queue'[i] = enqueued - m + (i + 1)
        BY <2>2, <2>4, <3>1
      <3>3. enqueued' = enqueued /\ Len(tx_queue') = m - 1 /\ m \in Nat /\ enqueued \in Nat
        BY <1>1, <2>1, <2>2
      <3> QED
        BY <3>1, <3>2, <3>3
    <2>8. \A i \in 1 .. Len(taken') : taken'[i] \in 1 .. (enqueued' - Len(tx_queue'))
      BY <1>1, <2>1, <2>2, <2>4, <2>6
    <2>9. \A i, j \in 1 .. Len(taken') : i < j => taken'[i] < taken'[j]
      <3> SUFFICES ASSUME NEW i \in 1 .. Len(taken'), NEW j \in 1 .. Len(taken'), i < j
                   PROVE  taken'[i] < taken'[j]
        OBVIOUS
      <3>1. i \in 1 .. t /\ (j \in 1 .. t \/ j = t + 1)
        BY <2>2
      <3>2. taken'[i] = taken[i] /\ taken[i] \in 1 .. (enqueued - m)
        BY <2>2, <2>4, <3>1
      <3>3. CASE j \in 1 .. t
        BY <2>2, <2>4, <3>1, <3>3
      <3>4. CASE j = t + 1
        BY <1>1, <2>2, <2>6, <3>2, <3>4
      <3> QED
        BY <3>1, <3>3, <3>4
    <2>10. ~overrun' => /\ Len(taken') + Len(tx_queue') = enqueued'
                        /\ \A i \in 1 .. Len(taken') : taken'[i] = i
      <3> SUFFICES ASSUME ~overrun' PROVE /\ Len(taken') + Len(tx_queue') = enqueued'
                                          /\ \A i \in 1 .. Len(taken') : taken'[i] = i
        OBVIOUS
      <3>1. t + m = enqueued /\ \A i \in 1 .. t : taken[i] = i
        BY <2>1, <2>4
      <3>2. t \in Nat /\ m \in Nat /\ Len(taken') = t + 1 /\ Len(tx_queue') = m - 1 /\ enqueued' = enqueued
        BY <2>1, <2>2
      <3>3. \A i \in 1 .. t : taken'[i] = i
        BY <2>2, <3>1
      <3>4. taken'[t + 1] = t + 1
        BY <2>6, <3>1, <3>2
      <3> QED
        BY <3>1, <3>2, <3>3, <3>4
    <2>11. /\ enqueued' <= Len(Messages') /\ Len(tx_queue') <= enqueued'
           /\ overrun' => enqueued' > TxCapacity
      BY <1>1, <2>1, <2>2, <2>4, <2>5
    <2>12. WriteRow'
      BY <2>7, <2>8, <2>9, <2>10, <2>11 DEF WriteRow
    <2> QED
      BY <2>3, <2>12 DEF WriteInv
  <1>7. CASE UNCHANGED writeVars
    <2>1. /\ write' = write /\ tx_queue' = tx_queue /\ enqueued' = enqueued
          /\ taken' = taken /\ overrun' = overrun
      BY <1>7 DEF writeVars
    <2>2. Messages' = Messages
      BY <1>4, <2>1
    <2> QED
      BY <1>1, <1>2, <2>1, <2>2 DEF WriteInv, WriteTypeOK, WriteRow
  <1> QED
    BY <1>5, <1>6, <1>7 DEF WriteNext

\* While io_write enqueues the messages of any write, netif_tx sends them: the frames
\* received come in order and carry the file's identifier and only bytes that were
\* written; an overrun takes more messages than the tx_queue holds; without one nothing
\* is missing, and the data is whole exactly if its length fits can_msg.len.  For any
\* bytes, any identifier and any size of the queue.
THEOREM WritesArrive == WriteSpec => []WriteArrives
PROOF
  <1>1. WriteInit => WriteInv
    <2> SUFFICES ASSUME WriteInit PROVE WriteInv
      OBVIOUS
    <2>1. write \in Writes /\ tx_queue = <<>> /\ enqueued = 0 /\ taken = <<>> /\ overrun = FALSE
      BY DEF WriteInit, Q!Init
    <2>2. Len(Messages) \in Nat
      BY <2>1, MessagesOf
    <2>3. WriteTypeOK
      <3>1. <<>> \in Seq(Nat) /\ 0 \in Nat
        OBVIOUS
      <3> QED
        BY <2>1, <3>1, Zenon DEF WriteTypeOK
    <2>4. Len(tx_queue) = 0 /\ Len(taken) = 0
      BY <2>1
    <2>5. WriteRow
      BY <2>1, <2>2, <2>4 DEF WriteRow
    <2> QED
      BY <2>3, <2>5 DEF WriteInv
  <1>2. WriteInv => WriteArrives
    <2> SUFFICES ASSUME WriteInv PROVE WriteArrives
      OBVIOUS
    <2> DEFINE n == Len(write.bytes)
               last == (n + 7) \div 8
               t == Len(taken)
    <2>1. /\ write \in Writes /\ tx_queue \in Seq(Nat) /\ taken \in Seq(Nat)
          /\ enqueued \in Nat /\ overrun \in BOOLEAN
      BY DEF WriteInv, WriteTypeOK
    <2>2. /\ enqueued <= Len(Messages) /\ Len(tx_queue) <= enqueued
          /\ \A i \in 1 .. t : taken[i] \in 1 .. (enqueued - Len(tx_queue))
          /\ \A i, j \in 1 .. t : i < j => taken[i] < taken[j]
          /\ overrun => enqueued > TxCapacity
          /\ ~overrun => t + Len(tx_queue) = enqueued /\ \A i \in 1 .. t : taken[i] = i
      BY DEF WriteInv, WriteRow
    <2>3. n \in Nat /\ Len(Messages) \in Nat /\ write.kind \in {"rx", "tx"} /\ TxCapacity \in Nat
      BY <2>1, MessagesOf, WriteAssumption
    <2>4. t \in Nat /\ Len(tx_queue) \in Nat /\ DOMAIN taken = 1 .. t
      BY <2>1
    <2>5. \A i \in 1 .. t : taken[i] \in 1 .. Len(Messages)
      BY <2>1, <2>2, <2>3, <2>4
    <2>6. write.kind = "rx" => taken = <<>>
      <3> SUFFICES ASSUME write.kind = "rx" PROVE taken = <<>>
        OBVIOUS
      <3>1. Len(Messages) = 0
        BY <2>1, MessagesOf
      <3>2. t = 0
        BY <2>4, <2>5, <3>1
      <3> QED
        BY <2>1, <3>2
    <2>7. ASSUME NEW i \in DOMAIN taken
          PROVE  /\ Frame(taken[i]).mid = Received(cansend(write.id, write.ext, <<>>), 0).mid
                 /\ 8 * (taken[i] - 1) + Frame(taken[i]).len <= n
      <3>1. write.kind = "tx"
        BY <2>3, <2>6
      <3>2. /\ Len(Messages) = last
            /\ \A k \in 1 .. last : /\ Frame(k).mid = Received(cansend(write.id, write.ext, <<>>), 0).mid
                                    /\ 8 * (k - 1) + Frame(k).len <= n
        BY <2>1, <3>1, MessagesOf
      <3>3. taken[i] \in 1 .. last
        BY <2>4, <2>5, <2>7, <3>2
      <3> HIDE DEF last, n
      <3> QED
        BY <3>2, <3>3
    <2>8. overrun => Len(Messages) > TxCapacity
      BY <2>1, <2>2, <2>3
    <2>9. ASSUME ~overrun, write.kind = "tx", Finished
          PROVE  n < LenWrap <=> Whole
      <3>1. /\ Len(Messages) = last
            /\ n < LenWrap <=>
                 \A i \in 1 .. n : /\ (i - 1) % 8 < Frame((i + 7) \div 8).len
                                   /\ Frame((i + 7) \div 8).dat[((i - 1) % 8) + 1] = write.bytes[i]
        BY <2>1, <2>9, MessagesOf
      <3>2. enqueued = Len(Messages) /\ tx_queue = <<>> /\ Len(tx_queue) = 0
        BY <2>9 DEF Finished
      <3>3. t = last /\ \A i \in 1 .. last : taken[i] = i
        <4>1. t + 0 = last /\ \A i \in 1 .. t : taken[i] = i
          BY <2>2, <2>9, <3>1, <3>2
        <4> HIDE DEF t, last
        <4>2. t = last
          BY <2>4, <4>1
        <4> QED
          BY <4>1, <4>2
      <3>4. \A i \in 1 .. n : (i + 7) \div 8 \in 1 .. last
        <4>1. n \in Nat
          BY <2>3
        <4> HIDE DEF n
        <4> QED
          BY <4>1, SMT
      <3> HIDE DEF last, t, n
      <3>5. \A i \in 1 .. n : taken[(i + 7) \div 8] = (i + 7) \div 8
        BY <3>3, <3>4
      <3> QED
        BY <3>1, <3>5 DEF Whole, n
    <2>10. /\ \A i, j \in DOMAIN taken : i < j => taken[i] < taken[j]
           /\ ~overrun => \A i \in DOMAIN taken : taken[i] = i
      BY <2>2, <2>4
    <2> QED
      BY <2>6, <2>7, <2>8, <2>9, <2>10 DEF WriteArrives
  <1> QED
    BY <1>1, <1>2, WriteStep, PTL DEF WriteSpec

\* Counts of milliseconds, modulo Wrap.
LEMMA WrapMod ==
  /\ Wrap \in Int
  /\ \A x \in Int : x % Wrap \in Int /\ \E q \in Int : x = q * Wrap + (x % Wrap)
  /\ \A x, y, q \in Int : x = q * Wrap + y => x % Wrap = y % Wrap
PROOF
  <1>1. Wrap \in Nat /\ Wrap > 0
    BY WrapAssumption, SMT
  <1>2. ASSUME NEW x \in Int PROVE x % Wrap \in 0 .. Wrap - 1 /\ x \div Wrap \in Int /\ x = (x \div Wrap) * Wrap + (x % Wrap)
    BY <1>1, SMT
  <1>3. \A x \in Int, q \in Int, r \in 0 .. Wrap - 1 : x = q * Wrap + r => x % Wrap = r
    BY <1>1, SMT
  <1>4. ASSUME NEW x \in Int, NEW y \in Int, NEW q \in Int, x = q * Wrap + y
        PROVE  x % Wrap = y % Wrap
    <2> DEFINE p == y \div Wrap
               r == y % Wrap
    <2>1. p \in Int /\ r \in 0 .. Wrap - 1 /\ y = p * Wrap + r
      BY <1>2
    <2> HIDE DEF p, r
    <2>2. q + p \in Int /\ (q + p) * Wrap = q * Wrap + p * Wrap
      BY <1>1, <2>1, SMT
    <2>3. q * Wrap \in Int /\ p * Wrap \in Int
      BY <1>1, <2>1, SMT
    <2>4. x = (q + p) * Wrap + r
      BY <1>4, <2>1, <2>2, <2>3, SMT
    <2> QED
      BY <1>3, <2>1, <2>2, <2>4 DEF r
  <1>5. Wrap \in Int /\ \A x \in Int : x % Wrap \in Int
    BY <1>1, SMT
  <1>6. \A x \in Int : \E q \in Int : x = q * Wrap + (x % Wrap)
    BY <1>2
  <1> QED
    BY <1>4, <1>5, <1>6

\* A timestamp set goes on with the clock: u, set when the clock was at c, is u + now - c
\* at now, modulo Wrap.
LEMMA WrapSum ==
  ASSUME NEW u \in Int, NEW c \in Int, NEW now \in Int
  PROVE  ((u % Wrap) + now - (c % Wrap)) % Wrap = (u + now - c) % Wrap
PROOF
  <1> DEFINE s == u % Wrap
             d == c % Wrap
  <1>1. s \in Int /\ d \in Int /\ Wrap \in Int
    BY WrapMod
  <1>2. PICK p \in Int : u = p * Wrap + s
    BY WrapMod
  <1>3. PICK q \in Int : c = q * Wrap + d
    BY WrapMod
  <1> HIDE DEF s, d
  <1>4. q - p \in Int /\ (q - p) * Wrap = q * Wrap - p * Wrap /\ q * Wrap \in Int /\ p * Wrap \in Int
    BY <1>1, SMT
  <1>5. s + now - d \in Int /\ u + now - c \in Int /\ s + now - d = (q - p) * Wrap + (u + now - c)
    BY <1>1, <1>2, <1>3, <1>4, SMT
  <1> DEFINE x == s + now - d
             y == u + now - c
  <1>6. x \in Int /\ y \in Int /\ x = (q - p) * Wrap + y
    BY <1>5
  <1> HIDE DEF x, y
  <1>7. x % Wrap = y % Wrap
    BY <1>4, <1>6, WrapMod
  <1> QED
    BY <1>7 DEF s, d, x, y

\* The difference of two counts taken modulo Wrap.
LEMMA WrapDifference ==
  ASSUME NEW x \in Int, NEW y \in Int
  PROVE  ((x % Wrap) - (y % Wrap)) % Wrap = (x - y) % Wrap /\ ((x % Wrap) - y) % Wrap = (x - y) % Wrap
PROOF
  <1>1. ((x % Wrap) + 0 - (y % Wrap)) % Wrap = (x + 0 - y) % Wrap
    BY WrapSum
  <1> DEFINE s == x % Wrap
             d == y % Wrap
  <1>2. s \in Int /\ d \in Int /\ Wrap \in Int
    BY WrapMod
  <1>3. PICK p \in Int : x = p * Wrap + s
    BY WrapMod
  <1> HIDE DEF s, d
  <1>4. s + 0 - d = s - d /\ x + 0 - y = x - y
    BY <1>2, SMT
  <1>5. 0 - p \in Int /\ (0 - p) * Wrap = 0 - p * Wrap /\ p * Wrap \in Int
    BY <1>2, SMT
  <1>6. s - y \in Int /\ x - y \in Int /\ s - y = (0 - p) * Wrap + (x - y)
    BY <1>2, <1>3, <1>5, SMT
  <1>7. (s - y) % Wrap = (x - y) % Wrap
    BY <1>5, <1>6, WrapMod
  <1> QED
    BY <1>1, <1>4, <1>7 DEF s, d

\* A frame stamped while CAN_DEVCTL_SET_TIMESTAMP stores a second setting, whichever of
\* netif_rx's three loads come before the stores: with option -t it carries the timestamp
\* it read; else the clock, if the time it tested is 0; else what is due by the timestamp
\* it read, wrong by the time between the two settings exactly if the time it subtracted
\* belongs to the other setting.  For any settings and any count to wrap at.
THEOREM TimestampsFollow ==
  ASSUME NEW optt \in BOOLEAN, NEW v \in Nat, NEW a \in Nat, NEW w \in Nat, NEW b \in Nat, NEW now \in Nat
  PROVE  Stamped(optt, v, a, w, b, now)
PROOF
  <1> DEFINE old == StoreTime(StoreTimestamp(NoTimestamp, v), a)
             new == StoreTime(StoreTimestamp(old, w), b)
             Seen(after) == IF after THEN new ELSE old
             Value(after) == IF after THEN w ELSE v
             Time(after) == IF after THEN b ELSE a
  <1>1. /\ old = [user |-> v % Wrap, time |-> a % Wrap]
        /\ new = [user |-> w % Wrap, time |-> b % Wrap]
    <2>1. StoreTimestamp(NoTimestamp, v) = [user |-> v % Wrap, time |-> 0]
      BY DEF StoreTimestamp, NoTimestamp
    <2>2. old = [user |-> v % Wrap, time |-> a % Wrap]
      BY <2>1 DEF StoreTime
    <2> HIDE DEF old
    <2>3. StoreTimestamp(old, w) = [user |-> w % Wrap, time |-> a % Wrap]
      BY <2>2 DEF StoreTimestamp
    <2> QED
      BY <2>2, <2>3 DEF StoreTime
  <1> HIDE DEF old, new
  <1>2. \A x \in BOOLEAN : Seen(x).user = Value(x) % Wrap /\ Seen(x).time = Time(x) % Wrap
    BY <1>1
  <1> HIDE DEF Seen
  <1>3. ASSUME NEW t \in BOOLEAN, NEW u \in BOOLEAN, NEW c \in BOOLEAN
        PROVE  LET ts == Timestamp(Seen(t).time, Seen(u).user, Seen(c).time, optt, now)
                   due == IF u THEN w + now - b ELSE v + now - a
                   late == IF u = c THEN 0 ELSE IF u THEN b - a ELSE a - b
               IN  IF optt THEN ts = (IF u THEN w ELSE v) % Wrap
                   ELSE IF (IF t THEN b ELSE a) % Wrap = 0 THEN ts = now % Wrap
                   ELSE (ts - due) % Wrap = late % Wrap
    <2> DEFINE ts == Timestamp(Seen(t).time, Seen(u).user, Seen(c).time, optt, now)
               due == IF u THEN w + now - b ELSE v + now - a
               late == IF u = c THEN 0 ELSE IF u THEN b - a ELSE a - b
               sum == Value(u) + now - Time(c)
    <2>1. optt => ts = (IF u THEN w ELSE v) % Wrap
      BY <1>2 DEF Timestamp
    <2>2. ~optt /\ (IF t THEN b ELSE a) % Wrap = 0 => ts = now % Wrap
      BY <1>2 DEF Timestamp
    <2>3. ASSUME ~optt, (IF t THEN b ELSE a) % Wrap # 0
          PROVE  (ts - due) % Wrap = late % Wrap
      <3>1. ts = ((Value(u) % Wrap) + now - (Time(c) % Wrap)) % Wrap
        BY <1>2, <2>3 DEF Timestamp
      <3>2. Value(u) \in Int /\ Time(c) \in Int /\ now \in Int
        BY SMT
      <3>3. sum \in Int /\ due \in Int /\ sum - due = late
        BY SMT
      <3> HIDE DEF Value, Time
      <3>4. ts = sum % Wrap
        BY <3>1, <3>2, WrapSum
      <3> HIDE DEF ts, sum, due, late
      <3>5. ((sum % Wrap) - due) % Wrap = (sum - due) % Wrap
        BY <3>3, WrapDifference
      <3> QED
        BY <3>3, <3>4, <3>5
    <2> HIDE DEF ts, due, late
    <2>4. IF optt THEN ts = (IF u THEN w ELSE v) % Wrap
          ELSE IF (IF t THEN b ELSE a) % Wrap = 0 THEN ts = now % Wrap
          ELSE (ts - due) % Wrap = late % Wrap
      BY <2>1, <2>2, <2>3
    <2> QED
      BY <2>4 DEF ts, due, late
  <1> QED
    BY <1>3 DEF Stamped, Seen, old, new
=============================================================================
