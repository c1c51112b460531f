------------------------------ MODULE MCProgram -------------------------------
(* For TLC: Program with one card of each driver, and the calculations that    *)
(* configure a card and convert its frames, over bounded inputs; and a write   *)
(* to a file, the address spaces and the interrupts of the cards, the pool of  *)
(* memory blocks, a restart timer and the error state of a device.             *)
EXTENDS Program, Calculations, WritePath, IoSpace, PciIrq, FixedPool, Timer, ErrorState

MCCards == {"adv", "kvaser", "ems", "f81601", "peak", "plx", "vcan"}
MCChips == [c \in MCCards |-> IF c = "kvaser" THEN 3 ELSE 2]

NoFault == [card |-> "adv", step |-> "none", ch |-> 0, absent |-> {}, pcie |-> TRUE,
            dirty |-> FALSE]

\* Any chips missing, or one call failing, on clean or dirty memory.
CardPlans(c) ==
  LET chans == 0 .. MCChips[c] - 1
      base == [NoFault EXCEPT !.card = c]
      steps == {"pool", "vid", "did", "board", "attach", "twin", "irq0", "map0", "map1", "map2",
                "alloc", "changelink", "irq", "session", "rxfile", "txfile"}
  IN  {[base EXCEPT !.absent = a, !.dirty = b, !.pcie = p] :
         a \in IF c = "vcan" THEN {{}} ELSE SUBSET chans, b \in BOOLEAN, p \in BOOLEAN}
      \cup {[base EXCEPT !.step = s, !.ch = i, !.dirty = b] :
         s \in steps, i \in chans, b \in BOOLEAN}

Buses == {<<>>} \cup {<<a>> : a \in MCCards \ {"vcan"}}
         \cup {<<a, b>> : a, b \in {"adv", "kvaser", "ems", "f81601"}}

OptL == [o |-> "L", n |-> 2]
Sub(k, v) == [k |-> k, v |-> v]
Freq(v, unit) == [k |-> "freq", v |-> v, unit |-> unit]
ChannelSubs ==
  {<<Sub("id", i), Sub("rx", r), Sub("tx", 0)>> : i \in {-1, 0, 2, 3}, r \in {0, 1}}
  \cup {<<Sub("rx", 1)>>, <<[k |-> "id"]>>,
        <<Sub("id", 0), [k |-> "x"]>>, <<[k |-> "s"], Sub("id", 0), [k |-> "x"]>>}
BitrateSubs ==
  {<<Sub("id", 0), Freq(1, "m")>>, <<Freq(125, "k"), Sub("id", 2)>>, <<Sub("id", 0), [k |-> "sjw"]>>}
ModuleSubs == {<<Sub("f81601_ex_clk", 24000000)>>, <<[k |-> "f81601_ex_clk"]>>, <<Sub("id", 0)>>}
OneOption ==
  [o : {"U"}, n : {-1, 1}] \cup [o : {"u"}, subs : ChannelSubs] \cup [o : {"b"}, subs : BitrateSubs]
    \cup [o : {"d"}, card : {"adv"}] \cup [o : {"d", "e"}, card : {"adv"}, cap : {5}]
    \cup [o : {"L"}, n : {2, 17}] \cup [o : {"m"}, subs : ModuleSubs]
    \cup [o : {"r"}, n : {0, 50}] \cup [o : {"R"}, n : {3}] \cup [o : {"i", "h", "s"}]

Plugged(b, a) == {b[i] : i \in DOMAIN b} \cup (IF a = <<>> THEN {} ELSE {"vcan"})

MCScenarios ==
  {s \in [bus : {b \in Buses : Len(b) < 2 \/ b[1] # b[2]},
          plan : UNION {CardPlans(c) : c \in MCCards}, args : {<<>>, <<OptL>>}] :
     s.plan.card \in Plugged(s.bus, s.args)}
  \cup [bus : {<<>>, <<"adv">>, <<"ems", "adv">>}, plan : {NoFault},
        args : {<<>>} \cup {<<x>> : x \in OneOption} \cup {<<x, y>> : x, y \in OneOption}]

-----------------------------------------------------------------------------
(* BitTiming: the clocks are those of the cards (a 16 or 24 MHz crystal, halved *)
(* by the chip).                                                              *)

MCClocks == {8000, 12000}
MCRates == {4000, 10000, 20000, 50000, 100000, 125000, 250000, 312500, 500000, 640000, 800000,
            1000000}
MCTimings == [rate : {20000, 125000, 250000, 500000, 1000000}, brp : {1, 2, 3, 4, 8, 16, 64},
              sjw : 1 .. 4, ts1 : {1, 3, 7, 12}, ts2 : {1, 2, 4, 8}]

-----------------------------------------------------------------------------
(* IoSpace: ports and memory may have the same numbers.                       *)

MCBars == {[io |-> TRUE, addr |-> a, size |-> 4, ptr |-> a] : a \in {4, 8, 12, 20}}
          \cup [io : {FALSE}, addr : {8, 16, 24, 40}, size : {4}, ptr : {32, 64}]

-----------------------------------------------------------------------------
(* PciIrq: a device with any capabilities, options and failures, or several   *)
(* that share interrupts.                                                     *)

MCCapDevices ==
  [pcie : BOOLEAN, ext : SUBSET Caps, reg : SUBSET Caps, pvm : BOOLEAN, nvecs : {0, 2},
   e : SUBSET Caps, d : SUBSET Caps, junk : BOOLEAN,
   fails : {"none", "read", "set", "enable", "already", "mask", "disable"}, irqs : {<<2, 3>>}]
MCPlainDevices ==
  [pcie : {FALSE}, ext : {{}}, reg : {{}}, pvm : {FALSE}, nvecs : {0}, e : {{}}, d : {{}},
   junk : {FALSE}, fails : {"none"}, irqs : {<<1>>, <<2>>, <<3>>, <<1, 2>>, <<2, 3>>, <<4, 5>>}]
MCPciDevices == MCCapDevices \cup MCPlainDevices

-----------------------------------------------------------------------------
(* FrameCodec: identifiers at the edges of the fields they are cut into.      *)

MCIds == {0, 1, 7, 8, 31, 32, 85, 1023, 1024, 2047, 2048, 4660, 8191, 8192, 2 ^ 18, 2 ^ 21 - 1,
          2 ^ 21, 178956970, 357913941, 2 ^ 28, 2 ^ 29 - 1}
MCData == {<<>>, <<0>>, <<170, 85, 255>>, <<5, 0, 7, 9>>, <<1, 2, 3, 4, 5, 6, 7, 8>>}

-----------------------------------------------------------------------------
(* WritePath: lengths around whole messages, around LenWrap, and around the    *)
(* capacity of the queue.                                                     *)

MCBytes(n) == [i \in 1 .. n |-> i % 11]
NoWrite == [kind |-> "rx", ext |-> FALSE, id |-> 0, bytes |-> <<>>]
MCWrites ==
  {NoWrite} \cup [kind : {"rx", "tx"}, ext : BOOLEAN, id : {5, 2047, 2048, 2 ^ 29 - 1},
                 bytes : {MCBytes(n) : n \in {0, 1, 7, 8, 9, 16, 17, 24, 31, 32, 33, 40, 41}}]

-----------------------------------------------------------------------------
(* ErrorState: both counters at any level, bus-off for the transmit counter.  *)

MCErrorEvents ==
  [tx : 0 .. 3, rx : 0 .. 2, also : {{}, {"BEI"}, {"DOI", "ALI"}}, skb : BOOLEAN]

-----------------------------------------------------------------------------
(* One calculation, or one of the other components at work, in each behaviour   *)
(* of a program on an empty bus that does nothing else; none of them in the     *)
(* others.                                                                      *)

Others == {"write", "spaces", "irqs", "pool", "timer", "errors"}

MCInit ==
  /\ Init /\ SpaceInit /\ IrqInit /\ PoolInit /\ TimerInit /\ ErrorInit
  /\ \/ case = [of |-> "none"]
     \/ bus = <<>> /\ args = <<>> /\ plan = NoFault /\ (SomeCase \/ case \in [of : Others])
  /\ IF case.of = "write" THEN TRUE ELSE write = NoWrite
  /\ WriteInit
  /\ case.of # "errors" => optR = 0 /\ device.restart_ms = 0

InProgram(A) ==
  case.of = "none" /\ A /\ UNCHANGED <<case, writeVars, spaceVars, irqVars, poolVars, timerVars, errorVars>>
InWrite(A) ==
  case.of = "write" /\ A /\ UNCHANGED <<case, vars, spaceVars, irqVars, poolVars, timerVars, errorVars>>
InSpaces(A) ==
  case.of = "spaces" /\ A /\ UNCHANGED <<case, writeVars, vars, irqVars, poolVars, timerVars, errorVars>>
InIrqs(A) ==
  case.of = "irqs" /\ A /\ UNCHANGED <<case, writeVars, vars, spaceVars, poolVars, timerVars, errorVars>>
InPool(A) ==
  case.of = "pool" /\ A /\ UNCHANGED <<case, writeVars, vars, spaceVars, irqVars, timerVars, errorVars>>
InTimer(A) ==
  case.of = "timer" /\ A /\ UNCHANGED <<case, writeVars, vars, spaceVars, irqVars, poolVars, errorVars>>
InErrors(A) ==
  case.of = "errors" /\ A /\ UNCHANGED <<case, writeVars, vars, spaceVars, irqVars, poolVars, timerVars>>

\* A device of MCCapDevices is the only one, with one channel.
Alone == irqGroups.groups # <<>> /\ irqGroups.groups[1].dev \in MCCapDevices

MCNext ==
  \/ InProgram(ParseOption)
  \/ InProgram(CheckLowerIds)
  \/ InProgram(process_driver_selection)
  \/ InProgram(ProbeNext)
  \/ InProgram(NothingToProbe)
  \/ InProgram(CheckUpperIds)
  \/ InProgram(Sigint)
  \/ InProgram(RemoveNext)
  \/ InWrite(Enqueue)
  \/ InWrite(Transmit)
  \/ InSpaces(\E bar \in Bars : ReadBa(bar))
  \/ InIrqs(/\ ~Alone
            /\ \E dev \in IF irqGroups.groups = <<>> THEN PciDevices ELSE MCPlainDevices : EnableIrqs(dev))
  \/ InIrqs((Alone => requests = <<>>) /\ RequestIrq)
  \/ InIrqs(AttachTableFull)
  \/ InIrqs(AttachNew)
  \/ InIrqs(AttachRejected)
  \/ InIrqs(\E k \in DOMAIN irqAttach : AttachShared(k))
  \/ \E t \in Threads : \/ InPool(AllocSkb(t))
                        \/ InPool(AllocHead(t))
                        \/ InPool(AllocHeadFails(t))
                        \/ InPool(FreeSkb(t))
                        \/ \E s \in skbs : InPool(FreeHead(t, s))
  \/ \E ms \in Delays : InTimer(BusOff(ms))
  \/ InTimer(Expire)
  \/ InTimer(cancel_delayed_work_sync)
  \/ \E t \in Loops : \/ InTimer(Receive(t))
                      \/ InTimer(Restart(t))
                      \/ InTimer(CallbackReturns(t))
  \/ InErrors(RestartTimer)
  \/ InErrors(\E e \in ErrorEvents : ErrorInterrupt(e))
MCSpec ==
  MCInit /\ [][MCNext]_<<vars, case, writeVars, spaceVars, irqVars, poolVars, timerVars, errorVars>>
=============================================================================
