----------------------------- MODULE Calculations -----------------------------
(***************************************************************************)
(* The calculations that set up a card and convert its frames, put to one  *)
(* input at a time: bit timing, card tables and frame conversions are      *)
(* functions of their input, so a behaviour is one case.                   *)
(***************************************************************************)
EXTENDS BitTiming, CardTables, FrameTools

VARIABLE case   \* the calculation and its input

SomeCase ==
  \/ case \in [of : {"rate"}, clock : Clocks, rate : Rates]
  \/ case \in [of : {"timing"}, clock : Clocks, t : Timings]
  \/ case \in [of : {"setup"}, clock : Clocks, subs : BOptions, silent : BOOLEAN]
  \/ \E i \in DOMAIN Tables :
       case \in [of : {"card"}, driver : {Tables[i].driver}, ids : Tables[i].tbl]
  \/ case \in [of : {"layout"}, l : Layouts]
  \/ case \in [of : {"frame"}, id : Ids, ext : BOOLEAN, data : Data]
  \/ case \in {k \in [of : {"stamp"}, optt : BOOLEAN, v : Stamps, a : Stamps, w : Stamps, b : Stamps,
                       now : Stamps] : k.a < k.b /\ k.b <= k.now}

-----------------------------------------------------------------------------

\* With a prescaler of 0 the driver computes the timing (README: "such that the
\* requested baud or bitrate is satisfied").  For every clock and rate it refuses the
\* rate exactly if no setting of the chip is within 5%; otherwise no setting of the
\* chip is nearer to the rate, the registers written make the chip run at the rate
\* that is reported, and the sample point is not after the recommended one.
CalcSound == case.of = "rate" => RateMet(case.clock, case.rate)

\* A request with a prescaler, on a device that runs: if it is accepted the registers
\* hold its prescaler, its second segment and a rate that is the one reported, and that
\* rate is the one asked for if the jump width is 1 and the quantum divides the bit
\* (with any other jump width the bit is sjw - 1 quanta too short, because
\* create_user_dev_setup takes the jump width for the synchronisation segment); if it
\* is refused the device is as it was, interface up.  (A request whose bit is shorter than
\* its quantum divides by zero: nothing is said of it.)
RequestedTiming == case.of = "timing" => TimingMet(case.clock, case.t)

\* A device registered with option -r restarts after that delay when it is bus-off,
\* unless option -b gave its bit rate without btr0 and btr1, listens only if option -s
\* was given, and has the bit rate open_candev asks for, whatever -b says.
RestartConfigured == case.of = "setup" => SetupMet(case.clock, case.subs, case.silent)

\* A card whose four ids are in the table of one driver is given to that driver, though
\* check_driver_support compares only two of them and the drivers are asked in turn.
\* The cards behind a PLX 9030 bridge that belong to the PLX driver are the exception:
\* the EMS driver, asked first, takes them.
OwnDriverSelected ==
  case.of = "card" =>
    SelectedDriver(case.ids[1], case.ids[2]) =
      IF case.driver = "plx" /\ case.ids[2] = \h9030 THEN "ems" ELSE case.driver

\* No driver writes to a register of one channel through another: on every kind of card
\* the ports of a channel lie in the bytes mapped for it, those bytes lie in the area
\* the driver asks for, and no byte is mapped for two channels.  Every card has a
\* channel, except the Advantech 0x3680, whose id number_of_sja1000_chips takes for 0
\* chips.  What the driver writes to the card itself (resets, bridge registers) misses
\* every port, also where it is in the BAR of a channel, except on version 3 of the EMS
\* card, whose reset is a write to the first register of the first channel.
WindowsDisjoint ==
  case.of = "layout" =>
    /\ Separate(case.l)
    /\ case.l.chans = <<>> <=> case.l.card = <<"adv", \h3680>>
    /\ case.l.own \cap Touched(case.l) # {} <=> case.l.card = <<"ems", 3>>

\* What one tool sends another one prints: identifier, format, length and data survive
\* the conversions to QNX message, Linux frame and registers and back, on the bus and,
\* with -E, in the echo; a filter of the standard bits lets every standard frame pass.
\* An identifier too large for the standard format (cansend's own example has 0x1234)
\* is cut to 11 bits on the bus but not in the echo.  canread prints received data up
\* to each zero byte only.  No message goes out through an rx file.  The timestamp of a
\* frame received after CAN_DEVCTL_SET_TIMESTAMP is the one set and goes on with the
\* clock, across the wrap of its 32 bits, unless it was set in the very millisecond in
\* which the clock wraps (it is then ignored); of a frame received during the call it is
\* the old one, the new one, or one of them wrong by the time between the two settings.
FrameRoundTrip ==
  /\ case.of = "frame" => RoundTrip(case.id, case.ext, case.data)
  /\ case.of = "stamp" => Stamped(case.optt, case.v, case.a, case.w, case.b, case.now)
=============================================================================
