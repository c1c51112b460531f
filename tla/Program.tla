------------------------------- MODULE Program --------------------------------
(***************************************************************************)
(* The program from its command line to its end (main.c), with the driver  *)
(* selection (pci.c, pci.h): options are parsed, the supported cards on    *)
(* the bus are selected and probed in order, the threads are started only  *)
(* if every probe succeeded, and SIGINT has the cards removed in the same  *)
(* order.  The cards are those of Cards.                                   *)
(***************************************************************************)
EXTENDS Cards, Options

CONSTANT Scenarios   \* what is on the bus, what fails, and the command line

ASSUME ScenarioAssumption ==
  /\ Chips \in [Cards -> 0 .. 4]
  /\ \A s \in Scenarios : s.plan \in Plans /\ \A i \in DOMAIN s.bus : s.bus[i] \in Cards

VARIABLES
  phase,   \* "options", "select", "probe", "check", "run", "remove", "exit", "failure", "undefined"
  args,    \* the options not parsed yet
  bus,     \* the cards on the bus, each once
  plan,    \* what fails
  opt,     \* the options parsed
  allow,   \* allow_driver_start
  sel,     \* the driver selections still to probe or to remove
  w        \* the world of the drivers

vars == <<phase, args, bus, plan, opt, allow, sel, w>>

Init ==
  /\ phase = "options"
  /\ \E s \in Scenarios : args = s.args /\ bus = s.bus /\ plan = s.plan
  /\ opt = Opt0 /\ allow = TRUE /\ sel = <<>> /\ w = World0(<<>>)

-----------------------------------------------------------------------------

\* One turn of the getopt loop; an option may end the program.
ParseOption ==
  /\ phase = "options" /\ args # <<>>
  /\ args' = Tail(args)
  /\ opt' = ApplyOption(opt, Head(args))
  /\ phase' = IF opt'.end = "" THEN phase ELSE opt'.end
  /\ UNCHANGED <<bus, plan, allow, sel, w>>

Configured == DOMAIN opt.u \cup DOMAIN opt.b

\* No option left: -i ends the program.  Otherwise what StartAllowed refuses keeps the
\* driver from starting, after the probes; without the pool the program ends at once.
CheckLowerIds ==
  /\ phase = "options" /\ args = <<>>
  /\ allow' = StartAllowed(opt)
  /\ phase' = IF "i" \in opt.flags THEN "exit" ELSE IF plan.step = "pool" THEN "failure" ELSE "select"
  /\ UNCHANGED <<args, bus, plan, opt, sel, w>>

Unread(c, step) == plan.step = step /\ plan.card = c

\* The devices pci_device_find enumerates: a card with a twin is there twice.
Found == FlattenSeq([i \in DOMAIN bus |->
                      IF Fails(plan, "twin", <<bus[i], 0>>) THEN <<bus[i], bus[i]>> ELSE <<bus[i]>>])

\* The list of selections: the cards on the bus that are not disabled and whose device
\* id could be read, then the virtual card.
Selection == SelectSeq(Found, LAMBDA c : [card |-> c, cap |-> -1] \notin opt.d /\ ~Unread(c, "did"))
             \o (IF opt.L THEN <<"vcan">> ELSE <<>>)

\* A device whose vendor id cannot be read is asked for again, for ever.
process_driver_selection ==
  /\ phase = "select"
  /\ \A i \in DOMAIN bus : ~Unread(bus[i], "vid")
  /\ sel' = Selection
  /\ w' = World0([i \in {id - opt.base : id \in DOMAIN opt.u} |->
                   opt.u[i + opt.base].rx + opt.u[i + opt.base].tx])
  /\ phase' = "probe"
  /\ UNCHANGED <<args, bus, plan, opt, allow>>

ProbeCard(v, c) ==
  CASE c = "adv"    -> adv_pci_init_one(v, c, plan)
    [] c = "kvaser" -> kvaser_pci_init_one(v, c, plan)
    [] c = "ems"    -> ems_pci_add_card(v, c, plan)
    [] c = "f81601" -> f81601_pci_probe(v, c, plan)
    [] c = "peak"   -> peak_pci_probe(v, c, plan)
    [] c = "plx"    -> plx_pci_add_card(v, c, plan)
    [] c = "vcan"   -> vcan_init_one(v, c, plan)

\* Mutant: the probes go on after one that failed.
ProbeNextRegardless ==
  /\ phase = "probe" /\ sel # <<>>
  /\ w' = ProbeCard(w, Head(sel))
  /\ sel' = Tail(sel)
  /\ phase' = IF w'.ub # "" THEN "undefined" ELSE IF sel' = <<>> THEN "check" ELSE "probe"
  /\ UNCHANGED <<args, bus, plan, opt, allow>>

\* probe_all_driver_selections stops at the first probe that fails.
ProbeNext ==
  /\ phase = "probe" /\ sel # <<>>
  /\ w' = ProbeCard(w, Head(sel))
  /\ sel' = Tail(sel)
  /\ phase' = IF w'.ub # "" THEN "undefined"
              ELSE IF w'.err \/ sel' = <<>> THEN "check" ELSE "probe"
  /\ allow' = (allow /\ ~w'.err)
  /\ UNCHANGED <<args, bus, plan, opt>>

NothingToProbe ==
  /\ phase = "probe" /\ sel = <<>>
  /\ allow' = FALSE /\ phase' = "check"
  /\ UNCHANGED <<args, bus, plan, opt, sel, w>>

next_device_id == opt.base + Len(w.named)

\* Ids no device has got are refused; otherwise the IRQ thread is started.
CheckUpperIds ==
  /\ phase = "check"
  /\ phase' = IF allow /\ \A id \in Configured : id < next_device_id THEN "run" ELSE "failure"
  /\ sel' = IF phase' = "run" THEN Selection ELSE <<>>
  /\ UNCHANGED <<args, bus, plan, opt, allow, w>>

Sigint ==
  /\ phase = "run"
  /\ phase' = "remove"
  /\ UNCHANGED <<args, bus, plan, opt, allow, sel, w>>

RemoveCard(v, c) ==
  CASE c = "adv"    -> adv_pci_remove_one(v, c, plan)
    [] c = "kvaser" -> kvaser_pci_remove_one(v, c, plan)
    [] c = "ems"    -> ems_pci_del_card(v, c)
    [] c = "f81601" -> f81601_pci_remove(v, c, plan)
    [] c = "vcan"   -> vcan_remove_one(v, c, plan)

\* What pcim_iomap mapped and pcim_enable_device enabled.
ReleaseManaged(v, c) ==
  LET v1 == [v EXCEPT !.blocks = {b \in @ : b[1] # c \/ c # "f81601"}]
  IN  IF c \in v.managed THEN pci_disable_device(v1, c) ELSE v1

\* Mutant: what the driver left to the program is not released.
RemoveNextUnmanaged ==
  /\ phase = "remove" /\ sel # <<>>
  /\ w' = RemoveCard(w, Head(sel))
  /\ sel' = Tail(sel)
  /\ phase' = IF w'.ub # "" THEN "undefined" ELSE IF sel' = <<>> THEN "exit" ELSE phase
  /\ UNCHANGED <<args, bus, plan, opt, allow>>

\* remove_all_driver_selections.
RemoveNext ==
  /\ phase = "remove" /\ sel # <<>>
  /\ w' = ReleaseManaged(RemoveCard(w, Head(sel)), Head(sel))
  /\ sel' = Tail(sel)
  /\ phase' = IF w'.ub # "" THEN "undefined" ELSE IF sel' = <<>> THEN "exit" ELSE phase
  /\ UNCHANGED <<args, bus, plan, opt, allow>>

Next ==
  \/ ParseOption \/ CheckLowerIds \/ process_driver_selection
  \/ ProbeNext \/ NothingToProbe \/ CheckUpperIds
  \/ Sigint \/ RemoveNext

Spec == Init /\ [][Next]_vars

-----------------------------------------------------------------------------

\* The drivers whose probe uses the table entry it is not given.
NeedsEntry == {"peak", "plx"}

\* The program runs from its first option to its exit without undefined behaviour,
\* whatever cards are plugged in, options given and chips not answering: every probe
\* and every remove function finds what the one before it left.  The exceptions: the
\* PEAK and PLX drivers use the NULL that probe_all_driver_selections passes for the
\* table entry.  adv_pci_add_chan frees the device of a missing chip and leaves it in
\* slave_dev[].  ems_pci_add_card does too, but removes only as many entries as it
\* found chips, which reaches a freed one if a missing chip precedes a present one.
\* f81601_pci_remove reads the entries of net_dev[] that were never written.
MissingChipsSurvived ==
  phase = "undefined" /\ plan.step = "none" /\ (plan.pcie \/ ~plan.dirty)
  => \/ \E i \in DOMAIN bus : bus[i] \in NeedsEntry
     \/ plan.card = "adv" /\ plan.absent # {}
     \/ plan.card = "ems" /\ \E i \in plan.absent : \E j \in 0 .. Chips["ems"] - 1 \ plan.absent : i < j
     \/ plan.card = "f81601" /\ plan.absent # {} /\ plan.dirty

\* One call that fails is survived: the probe undoes what it did and the program ends
\* with EXIT_FAILURE, or what failed was not needed.  The exceptions.  A session that
\* is NULL, which unregister_netdev dereferences.  A registration that fails before
\* its session exists or at its first file, if the driver then unregisters the device
\* (adv, kvaser, vcan): sja1000_close goes through the session, and the thread pool
\* of a file that has none is destroyed.  One that fails at a later file, if the
\* device is the virtual card, whose registers are freed twice, or a Kvaser slave,
\* which unmaps the card under the master.  A device that is not enabled, or that has
\* a twin, if the driver goes on (ems, f81601).  The ioremap adv_pci_add_chan does not
\* test.  And in memory that is not zero: an irq never read, a board never stored in
\* driver_data, and the net_dev[] of the F81601.
FailedCallSurvived ==
  /\ phase = "undefined" /\ plan.step # "none"
  /\ \A i \in DOMAIN bus : bus[i] \notin NeedsEntry
  => \/ plan.step = "session"
     \/ plan.step \in {"changelink", "irq", "rxfile"} /\ plan.card \in {"adv", "kvaser", "vcan"}
     \/ plan.step = "txfile" /\ plan.card = "vcan"
     \/ plan.step = "txfile" /\ plan.card = "kvaser" /\ plan.ch > 0
     \/ plan.step \in {"attach", "irq0", "twin"} /\ plan.card \in {"ems", "f81601"}
     \/ plan.step = "map0" /\ plan.card = "adv"
     \/ plan.dirty /\ (plan.step = "irq0" \/ plan.card = "f81601")
     \/ plan.dirty /\ plan.step = "board" /\ plan.card \in {"adv", "vcan"}

\* When the IRQ thread starts, every device in the IRQ table is allocated: request_irq
\* enters a device before the rest of its registration can fail and free_irq removes
\* none, so this rests on probe_all_driver_selections stopping at the first failure
\* and main refusing to start after it.
HandledAlive == phase = "run" => w.handled \subseteq w.live

\* What the program still holds when it exits after SIGINT: no device, no mapping and
\* no attached PCI device; of the board structures only that of the F81601, which
\* nothing frees; and the sessions of the devices that have no file, which
\* unregister_netdev cannot find.
\* That function removes one file of a device and leaves the others in the list, where
\* the search for the next device reads their session after it was freed: only if a
\* device with several files is followed by another.
Released ==
  /\ phase = "exit" =>
       /\ w.live = {} /\ w.blocks = {} /\ w.attached = {}
       /\ w.board \subseteq {"f81601"}
       /\ \A i \in DOMAIN w.named : w.named[i] \in w.sessions <=> Files(w, i - 1) = 0
  /\ w.stale /\ w.ub = "" => \E i, j \in DOMAIN w.named : i < j /\ Files(w, i - 1) > 1
=============================================================================
