------------------------------ MODULE BitTiming -------------------------------
(***************************************************************************)
(* How a requested bit rate becomes the bit timing of a controller: the    *)
(* request of option -b or of CAN_DEVCTL_SET_TIMING (resmgr.c), the        *)
(* calculation and the checks (calc_bittiming.c, bittiming.c), the link    *)
(* change (netlink.c) and the registers (sja1000.c).  The functions are    *)
(* pure; a device is a record of what changelink assigns.                  *)
(*                                                                         *)
(* Clocks are in kHz, bit rates in bit/s and times in ns, so that the      *)
(* 64-bit products of the code fit TLC's integers; each formula computes   *)
(* what the code computes for a clock that is a multiple of 1 kHz.         *)
(***************************************************************************)
EXTENDS Options, FiniteSetsExt

CONSTANTS Clocks,    \* the clocks of the cards, in kHz
          Rates,     \* bit rates, divisors of 10^9
          Timings    \* requests: [rate, brp, sjw, ts1, ts2]

NONE == -1           \* UINT_MAX, for an error not known yet

\* sja1000_bittiming_const
btc == [tseg1_min |-> 1, tseg1_max |-> 16, tseg2_min |-> 1, tseg2_max |-> 8,
        sjw_max |-> 4, brp_min |-> 1, brp_max |-> 64]

Clamp(x, lo, hi) == IF x < lo THEN lo ELSE IF x > hi THEN hi ELSE x
Dist(x, y) == IF x < y THEN y - x ELSE x - y
Below(e, best) == best = NONE \/ (e # NONE /\ e < best)

can_bit_time(bt) == 1 + bt.prop_seg + bt.phase_seg1 + bt.phase_seg2
Bitrate(clock, brp, tqs) == (clock * 1000) \div (brp * tqs)

-----------------------------------------------------------------------------
(* Calculation from a bit rate                                              *)

\* The first segment if the second is i less than the nominal point asks for.
Tseg1(nominal, tseg, i) ==
  Min({btc.tseg1_max, tseg - Clamp(tseg + 1 - (nominal * (tseg + 1)) \div 1000 - i,
                                   btc.tseg2_min, btc.tseg2_max)})

\* The split of tseg whose sample point is nearest to the nominal one and not after
\* it; err = NONE if there is none, and then tseg1 and tseg2 are not assigned.
can_update_sample_point(nominal, tseg) ==
  LET Point(t1) == (1000 * (t1 + 1)) \div (tseg + 1)
      Split(t1, sp) == [tseg1 |-> t1, tseg2 |-> tseg - t1, point |-> sp,
                        err |-> IF sp <= nominal THEN nominal - sp ELSE NONE]
      Try(i) == Split(Tseg1(nominal, tseg, i), Point(Tseg1(nominal, tseg, i)))
      Nearer(a, b) == IF b.err # NONE /\ Below(b.err, a.err) THEN b ELSE a
  IN  Nearer(Try(0), Try(1))

NominalPoint(rate) == IF rate > 800000 THEN 750 ELSE IF rate > 500000 THEN 800 ELSE 875

\* The errors of a length and a prescaler; err = NONE if the prescaler is out of range.
Turn(clock, rate, tseg, brp) ==
  [tseg |-> tseg, brp |-> brp,
   err |-> IF brp \in btc.brp_min .. btc.brp_max
           THEN Dist(rate, Bitrate(clock, brp, 1 + tseg)) ELSE NONE,
   sp |-> can_update_sample_point(NominalPoint(rate), tseg).err]

\* Mutant: the prescaler is only rounded down.
CalcTurnFloor(clock, rate, t) ==
  Turn(clock, rate, t \div 2, (clock * 1000) \div ((1 + t \div 2) * rate))

\* One turn of the loop, with t = 2 * tseg + rounding.
CalcTurn(clock, rate, t) ==
  Turn(clock, rate, t \div 2, (clock * 1000) \div ((1 + t \div 2) * rate) + (t % 2))

\* The turns run from the longest bit to the shortest.  A turn replaces the best one
\* if its rate is nearer, or as near and its sample point nearer: what is left is the
\* first turn with the least pair of errors.
BestTurn(clock, rate) ==
  LET ts == (btc.tseg1_min + btc.tseg2_min) * 2 .. (btc.tseg1_max + btc.tseg2_max) * 2 + 1
      Least(turn, t, u) ==
        \/ turn[t].err < turn[u].err
        \/ turn[t].err = turn[u].err /\ turn[t].sp < turn[u].sp
        \/ turn[t].err = turn[u].err /\ turn[t].sp = turn[u].sp /\ t >= u
      Kept(turn) == {t \in ts : turn[t].err # NONE /\ turn[t].sp # NONE}
      Best(turn, kept) == IF kept = {} THEN [tseg |-> 0, brp |-> 0, err |-> NONE, sp |-> NONE]
                          ELSE turn[CHOOSE t \in kept : \A u \in kept : Least(turn, t, u)]
      Of(turn) == Best(turn, Kept(turn))
  IN  Of([t \in ts |-> CalcTurn(clock, rate, t)])

\* An sjw of 0 asks for the default.
can_sjw_set_default(bt) ==
  IF bt.sjw # 0 THEN bt
  ELSE [bt EXCEPT !.sjw = Max({1, Min({bt.phase_seg1, bt.phase_seg2 \div 2})})]

can_sjw_check(bt) == bt.sjw <= Min({btc.sjw_max, bt.phase_seg1, bt.phase_seg2})

Refused == [ok |-> FALSE]

\* More than 5% off is refused.
can_calc_bittiming(clock, rate) ==
  LET Timing(best, split) ==
        can_sjw_set_default(
          [tq |-> (best.brp * 1000000) \div clock, prop_seg |-> split.tseg1 \div 2,
           phase_seg1 |-> split.tseg1 - split.tseg1 \div 2, phase_seg2 |-> split.tseg2,
           sjw |-> 0, brp |-> best.brp, sample_point |-> split.point, bitrate |-> 0])
      Checked(best, bt) ==
        IF best.err = NONE \/ (best.err * 1000) \div rate > 50 \/ ~can_sjw_check(bt) THEN Refused
        ELSE [ok |-> TRUE,
              bt |-> [bt EXCEPT !.bitrate = Bitrate(clock, bt.brp, can_bit_time(bt))]]
      Of(best) == Checked(best, Timing(best, can_update_sample_point(NominalPoint(rate), best.tseg)))
  IN  Of(BestTurn(clock, rate))

\* Explicit segments and a time quantum.
can_fixup_bittiming(clock, req) ==
  LET tseg1 == req.prop_seg + req.phase_seg1
      Fixed(bt, brp) ==
        IF \/ tseg1 \notin btc.tseg1_min .. btc.tseg1_max
           \/ bt.phase_seg2 \notin btc.tseg2_min .. btc.tseg2_max
           \/ ~can_sjw_check(bt) \/ brp \notin btc.brp_min .. btc.brp_max
        THEN Refused
        ELSE [ok |-> TRUE,
              bt |-> [bt EXCEPT !.brp = brp,
                                !.bitrate = Bitrate(clock, brp, can_bit_time(bt)),
                                !.sample_point = ((1 + tseg1) * 1000) \div can_bit_time(bt),
                                !.tq = (brp * 1000000 + clock \div 2) \div clock]]
  IN  Fixed(can_sjw_set_default(req), (clock * req.tq + 499999) \div 1000000)

\* bitrate_const is not set by the SJA1000 driver.
can_get_bittiming(clock, req) ==
  IF req.tq = 0 /\ req.bitrate # 0 THEN can_calc_bittiming(clock, req.bitrate)
  ELSE IF req.tq # 0 /\ req.bitrate = 0 THEN can_fixup_bittiming(clock, req)
  ELSE Refused

-----------------------------------------------------------------------------
(* Requests, and what they do to a device                                   *)

NoTiming == [tq |-> 0, prop_seg |-> 0, phase_seg1 |-> 0, phase_seg2 |-> 0, sjw |-> 0,
             brp |-> 0, sample_point |-> 0, bitrate |-> 0]

\* The time quantum and the length of a bit in quanta of a request with a prescaler.
TimeQuantum(t, clock) == (t.brp * 1000000) \div clock
OneBit(t, clock) == (1000000000 \div t.rate) \div TimeQuantum(t, clock)

\* create_user_dev_setup divides by one_bit even if the quantum is longer than a bit.
\* Without a prescaler one_bit is an infinite double converted to int: undefined, but
\* not 0 on the targets, and what is made of it is thrown away.
DividesByZero(t, clock) == t.brp # 0 /\ OneBit(t, clock) = 0

\* Mutant: the synchronisation segment is not taken off, and the restart delay is kept.
create_user_dev_setup_nosync(t, clock) ==
  [set_bittiming |-> TRUE, set_btr |-> FALSE, set_restart_ms |-> TRUE, silent |-> FALSE,
   restart_ms |-> 50, btr0 |-> 0, btr1 |-> 0,
   bittiming |->
     IF t.brp = 0 THEN [NoTiming EXCEPT !.bitrate = t.rate]
     ELSE [NoTiming EXCEPT !.tq = TimeQuantum(t, clock), !.sjw = t.sjw, !.brp = t.brp,
                           !.prop_seg = OneBit(t, clock) - t.ts1 - t.ts2,
                           !.phase_seg1 = t.ts1, !.phase_seg2 = t.ts2]]

\* The whole structure is overwritten: a restart delay set before is set no more.
create_user_dev_setup(t, clock) ==
  [set_bittiming |-> TRUE, set_btr |-> FALSE, set_restart_ms |-> FALSE, silent |-> FALSE,
   restart_ms |-> 0, btr0 |-> 0, btr1 |-> 0,
   bittiming |->
     IF t.brp = 0 THEN [NoTiming EXCEPT !.bitrate = t.rate]
     ELSE [NoTiming EXCEPT !.tq = TimeQuantum(t, clock), !.sjw = t.sjw, !.brp = t.brp,
                           !.prop_seg = OneBit(t, clock) - t.sjw - t.ts1 - t.ts2,
                           !.phase_seg1 = t.ts1, !.phase_seg2 = t.ts2]]

\* BTR0 and BTR1, for one sample or three.
sja1000_set_bittiming(bt, three) ==
  [btr0 |-> ((bt.brp - 1) % 64) + ((bt.sjw - 1) % 4) * 64,
   btr1 |-> ((bt.prop_seg + bt.phase_seg1 - 1) % 16) + ((bt.phase_seg2 - 1) % 8) * 16
            + (IF three THEN 128 ELSE 0)]

\* Both registers set directly.
sja1000_set_btr(btr0, btr1) == [btr0 |-> btr0, btr1 |-> btr1]

\* The timing taken from registers that are set directly; the rate is taken on trust.
SetBtr(dev, user) ==
  LET brp == (user.btr0 % 64) + 1
      rate == user.bittiming.bitrate
  IN  [dev EXCEPT
        !.regs = sja1000_set_btr(user.btr0, user.btr1),
        !.bt = [NoTiming EXCEPT !.bitrate = rate, !.brp = brp, !.sjw = user.btr0 \div 64 + 1,
                                !.phase_seg2 = ((user.btr1 \div 16) % 8) + 1,
                                !.tq = (brp * 1000000) \div dev.clock,
                                !.sample_point = NominalPoint(rate)],
        !.three = @ \/ user.btr1 >= 128]

\* In order: bit timing, control mode, restart delay, registers.  The first step that
\* is refused ends the call and what came before it stays.
can_changelink(dev, user) ==
  LET Timed(got) ==
        IF user.set_bittiming
        THEN [dev EXCEPT !.bt = got.bt, !.regs = sja1000_set_bittiming(got.bt, dev.three)]
        ELSE dev
      Moded(d) == [d EXCEPT !.listenonly = @ \/ user.silent,
                            !.restart_ms = IF user.set_restart_ms THEN user.restart_ms ELSE @]
      Btr(d) == IF user.set_btr THEN SetBtr(d, user) ELSE d
      Change(got) ==
        IF /\ user.set_bittiming \/ user.silent \/ user.set_restart_ms
           /\ dev.up \/ (user.set_bittiming /\ ~got.ok)
        THEN [ok |-> FALSE, dev |-> dev]
        ELSE [ok |-> TRUE, dev |-> Btr(Moded(Timed(got)))]
  IN  Change(can_get_bittiming(dev.clock, user.bittiming))

\* The timing requested by an entry of option -b.
Request(b) == [rate |-> b.freq, brp |-> b.bprm, sjw |-> b.sjw, ts1 |-> b.ts1, ts2 |-> b.ts2]

\* Mutant: -s is lost with the rest of the default setup.
RegisterSetupLosesSilent(b, restart_ms, silent, clock) ==
  LET base == [set_bittiming |-> TRUE, set_btr |-> FALSE, set_restart_ms |-> TRUE,
               silent |-> silent, restart_ms |-> restart_ms, btr0 |-> 0, btr1 |-> 0,
               bittiming |-> [NoTiming EXCEPT !.bitrate = 250000]]
  IN  IF b.freq = 0 THEN base
      ELSE IF b.btr0 # 0 \/ b.btr1 # 0
      THEN [base EXCEPT !.set_bittiming = FALSE, !.set_btr = TRUE, !.btr0 = b.btr0,
                        !.btr1 = b.btr1, !.bittiming.bitrate = b.freq]
      ELSE create_user_dev_setup(Request(b), clock)

\* The setup register_netdev makes of an entry b of option -b (Bitrate0 if there
\* is none), the restart delay of -r and the silent mode of -s.
RegisterSetup(b, restart_ms, silent, clock) ==
  LET base == [set_bittiming |-> TRUE, set_btr |-> FALSE, set_restart_ms |-> TRUE,
               silent |-> FALSE, restart_ms |-> restart_ms, btr0 |-> 0, btr1 |-> 0,
               bittiming |-> [NoTiming EXCEPT !.bitrate = 250000]]
      set == IF b.freq = 0 THEN base
             ELSE IF b.btr0 # 0 \/ b.btr1 # 0
             THEN [base EXCEPT !.set_bittiming = FALSE, !.set_btr = TRUE, !.btr0 = b.btr0,
                               !.btr1 = b.btr1, !.bittiming.bitrate = b.freq]
             ELSE create_user_dev_setup(Request(b), clock)
  IN  [set EXCEPT !.silent = silent]

\* A device without a bit rate is not opened.
open_candev(dev) == dev.bt.bitrate # 0

\* CAN_DEVCTL_SET_TIMING: the interface is taken down for the call, by its flag only.  The
\* registers are what is written to the chip; nothing puts it into reset mode first.
SetTiming(dev, t) ==
  LET Setup(rate) == create_user_dev_setup([t EXCEPT !.rate = rate], dev.clock)
  IN  [can_changelink([dev EXCEPT !.up = FALSE],
                      Setup(IF t.rate = 0 THEN dev.bt.bitrate ELSE t.rate)) EXCEPT !.dev.up = TRUE]

\* CAN_DEVCTL_GET_INFO
GetInfo(dev) == [bit_rate |-> dev.bt.bitrate, bit_rate_prescaler |-> dev.bt.brp,
                 sync_jump_width |-> dev.bt.sjw, time_segment_1 |-> dev.bt.phase_seg1,
                 time_segment_2 |-> dev.bt.phase_seg2, silent |-> dev.listenonly]

\* commands.h: a rate alone is a timing whose other fields are 0.
set_bittiming(dev, t) == SetTiming(dev, t)
set_bitrate(dev, v) == SetTiming(dev, [rate |-> v, brp |-> 0, sjw |-> 0, ts1 |-> 0, ts2 |-> 0])
get_info(dev) == GetInfo(dev)

-----------------------------------------------------------------------------

\* What the chip does with the registers: its bit rate and sample point.
ChipRate(clock, r) == Bitrate(clock, (r.btr0 % 64) + 1, 3 + (r.btr1 % 16) + ((r.btr1 \div 16) % 8))

\* The smallest error of any prescaler and bit length the chip has.
LeastError(clock, rate) ==
  Min({Dist(rate, Bitrate(clock, brp, n)) : brp \in btc.brp_min .. btc.brp_max, n \in 3 .. 25})

Fresh(clock) == [clock |-> clock, bt |-> NoTiming, regs |-> [btr0 |-> 0, btr1 |-> 0],
                 three |-> FALSE, listenonly |-> FALSE, restart_ms |-> 0, up |-> FALSE]

\* The devices that run at the default rate, by clock.
Up == [clock \in Clocks |->
         [can_changelink(Fresh(clock), RegisterSetup(Bitrate0, 50, FALSE, clock)).dev EXCEPT !.up = TRUE]]

\* It is refused exactly if no setting is near enough; otherwise none is nearer, and the
\* registers, the rate reported and the sample point are right.
RateMet(clock, rate) ==
  LET Met(got, least) ==
        /\ got.ok <=> (least * 1000) \div rate <= 50
        /\ got.ok => /\ Dist(rate, got.dev.bt.bitrate) = least
                     /\ ChipRate(clock, got.dev.regs) = get_info(got.dev).bit_rate
                     /\ got.dev.bt.sample_point <= NominalPoint(rate)
  IN  Met(set_bitrate(Up[clock], rate), LeastError(clock, rate))

\* A request put to such a device is met or refused as a whole.
TimingMet(clock, t) ==
  LET Met(up, got, bit) ==
        IF ~got.ok THEN got.dev = up
        ELSE /\ got.dev.bt.brp = t.brp /\ got.dev.up
             /\ ChipRate(clock, got.dev.regs) = get_info(got.dev).bit_rate
             /\ got.dev.regs.btr1 \div 16 = t.ts2 - 1
             /\ can_bit_time(got.dev.bt) = bit + 1 - t.sjw
             /\ t.sjw = 1 /\ bit * t.brp * t.rate = clock * 1000 => got.dev.bt.bitrate = t.rate
  IN  DividesByZero(t, clock) \/ Met(Up[clock], set_bittiming(Up[clock], t), OneBit(t, clock))

\* Options -b for a timing, with registers, without, or with neither rate nor registers.
BSubs(t, r) ==
  LET sub(k, v) == [k |-> k, v |-> v]
      timing == <<sub("bprm", t.brp), sub("id", 0), sub("ts1", t.ts1), sub("ts2", t.ts2),
                  sub("sjw", t.sjw)>>
      freq(v, unit) == [k |-> "freq", v |-> v, unit |-> unit]
  IN  CASE r = "rate"      -> timing \o <<freq(t.rate \div 1000, "k")>>
        [] r = "registers" -> <<sub("btr0", 7), freq(t.rate, "")>> \o timing \o <<sub("btr1", 20)>>
        [] r = "none"      -> timing
BOptions == {BSubs(t, r) : t \in Timings, r \in {"rate", "registers", "none"}}

\* A device registered with -r 50, an option -b and perhaps -s.
SetupMet(clock, subs, silent) ==
  LET b == BitrateEntry(subs)
      given == b.freq # 0 /\ b.btr0 = 0 /\ b.btr1 = 0
      Met(got) == got.ok => /\ got.dev.restart_ms = 50 <=> ~given
                            /\ got.dev.listenonly = silent
                            /\ open_candev(got.dev)
  IN  \/ given /\ DividesByZero(Request(b), clock)
      \/ Met(can_changelink(Fresh(clock), RegisterSetup(b, 50, silent, clock)))
=============================================================================
