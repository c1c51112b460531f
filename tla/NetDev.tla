-------------------------------- MODULE NetDev --------------------------------
(***************************************************************************)
(* What the card drivers share: SJA1000 network devices (sja1000.c, dev.c),*)
(* their registration with the resource manager (resmgr.c, session.c), the *)
(* IRQ table (interrupt.c) and the PCI layer (pci.c, pci.h).               *)
(*                                                                         *)
(* The drivers are sequential code that runs in main, before the threads   *)
(* that use the devices are told of them or after they are told to end.  A *)
(* C function is an operator from a world to a world, and its return value *)
(* is the field err.  A world holds what outlives a call:                  *)
(*   ub        the first undefined behaviour, after which the world means  *)
(*             nothing; "" if there was none                               *)
(*   live, freed  the net_devices allocated, and given back                *)
(*   regs, ops the devices with read_reg and write_reg, with netdev_ops    *)
(*   named     the devices in the order register_netdev numbered them      *)
(*   handled   the devices in irq_attach[].dev                             *)
(*   sessions, nosession  the devices whose device_session is allocated,   *)
(*             and those whose device_session is NULL                      *)
(*   resmgrs   the list of can_resmgr_t: of each channel file the device,  *)
(*             and whether its thread_pool is set                          *)
(*   stale     unregister_netdev read a device_session already freed       *)
(*   attached  the cards attached, each by one pci_dev                     *)
(*   ba, irq, managed  the pci_dev last enabled: whether its base addresses*)
(*             were read, the irq read, is_managed                         *)
(*   blocks    the ioblocks mapped                                         *)
(*   drvdata, board, slot, channels  the driver's private data: the pointer*)
(*             pci_set_drvdata stored, the board or card structure, the    *)
(*             entries of slave_dev[] or net_dev[] that are set, the count *)
(*                                                                         *)
(* A device is <<card, channel>>.  Content of freed memory is kept until   *)
(* the memory is allocated again, and nothing is allocated at shutdown.    *)
(***************************************************************************)
EXTENDS Naturals, Sequences, SequencesExt

CONSTANTS Cards,   \* the cards, by the driver that serves them
          Chips    \* card -> number of controllers its driver looks for

\* What goes wrong at one card: the call that fails (and for which channel), the
\* chips that do not answer, whether the card has a PCIe capability, and whether
\* malloc returns memory that is not zero.
Plans == [card : Cards, step : {"none", "pool", "vid", "did", "board", "attach", "twin", "irq0",
                                "map0", "map1", "map2", "alloc", "changelink", "irq", "session", "rxfile",
                                "txfile"},
          ch : 0 .. 3, absent : SUBSET (0 .. 3), pcie : BOOLEAN, dirty : BOOLEAN]

Fails(f, step, d) == f.step = step /\ f.card = d[1] /\ f.ch = d[2]
Absent(f, d) == f.card = d[1] /\ d[2] \in f.absent
Channels(n) == [i \in 1 .. n |-> i - 1]

World0(optu) ==
  [ub |-> "", err |-> FALSE, live |-> {}, freed |-> {}, regs |-> {}, ops |-> {},
   named |-> <<>>, handled |-> {}, sessions |-> {}, nosession |-> {}, resmgrs |-> <<>>,
   stale |-> FALSE, attached |-> {}, ba |-> {}, irq |-> [c \in Cards |-> "unread"],
   managed |-> {}, blocks |-> {}, drvdata |-> {}, board |-> {}, slot |-> {}, channels |-> [c \in Cards |-> 0],
   optu |-> optu]

Undefined(w, why) == IF w.ub = "" THEN [w EXCEPT !.ub = why] ELSE w
Return(w, failed) == [w EXCEPT !.err = failed]

-----------------------------------------------------------------------------
(* The PCI layer                                                            *)

Dirty(f, c) == f.card = c /\ f.dirty

\* The irq stays what the memory held if none can be read; 0 is refused.
ReadIrq(f, c) == IF ~Fails(f, "irq0", <<c, 0>>) THEN "read" ELSE IF f.dirty THEN "junk" ELSE "zero"

\* Enabling: a device that cannot be attached, or that another pci_dev has attached
\* for itself; a second device with the same ids (found after the first is set up);
\* no IRQ (tested in memory never cleared).  pcie_cap, set only if the card has the
\* capability, is then used to look for MSI.
pci_enable_device(w, c, f) ==
  LET d == <<c, 0>>
      w1 == [w EXCEPT !.attached = @ \cup {c}, !.ba = @ \cup {c}, !.irq[c] = ReadIrq(f, c)]
  IN  IF Fails(f, "attach", d) \/ c \in w.attached THEN Return([w EXCEPT !.ba = @ \ {c}], TRUE)
      ELSE IF Dirty(f, c) /\ ~f.pcie THEN Undefined(Return(w1, FALSE), "pcie_cap")
      ELSE Return(w1, Fails(f, "twin", d) \/ w1.irq[c] = "zero")

pci_disable_device(w, c) == [w EXCEPT !.attached = @ \ {c}]

\* pcim_enable_device returns 0 whatever pci_enable_device returns.
pcim_enable_device(w, c, f) ==
  LET w1 == pci_enable_device(w, c, f)
  IN  Return(IF w1.err THEN w1 ELSE [w1 EXCEPT !.managed = @ \cup {c}], FALSE)

\* The list of mapped blocks.
store_block(w, addr) == [w EXCEPT !.blocks = @ \cup {addr}]
remove_block(w, addr) == [w EXCEPT !.blocks = @ \ {addr}]

\* The base addresses are unset if the device was not attached.
pci_iomap(w, c, bar, f) ==
  IF c \notin w.ba THEN Undefined(Return(w, FALSE), "ba")
  ELSE IF Fails(f, bar, <<c, 0>>) THEN Return(w, TRUE)
  ELSE Return(store_block(w, <<c, bar>>), FALSE)

\* ioremap of one channel's registers.
ioremap(w, d, f) ==
  IF Fails(f, "map0", d) THEN Return(w, TRUE)
  ELSE Return(store_block(w, d), FALSE)

\* An address that is not a block's is only logged.
pci_iounmap(w, addr) == remove_block(w, addr)

-----------------------------------------------------------------------------
(* Devices                                                                  *)

alloc_candev_mqs(w, d, f) ==
  IF Fails(f, "alloc", d) THEN Return(w, TRUE)
  ELSE Return([w EXCEPT !.live = @ \cup {d}, !.freed = @ \ {d}], FALSE)

free_candev(w, d) ==
  IF d \in w.freed THEN Undefined(w, "double free")
  ELSE [w EXCEPT !.live = @ \ {d}, !.freed = @ \cup {d}]

alloc_sja1000dev(w, d, f) == alloc_candev_mqs(w, d, f)
free_sja1000dev(w, d) == free_candev(w, d)

\* sja1000_open: the device enters the IRQ table before the interrupt is attached.
\* The virtual card has no interrupt.
sja1000_open(w, d, f) ==
  IF d[1] = "vcan" THEN Return(w, FALSE)
  ELSE IF w.irq[d[1]] # "read" THEN Undefined(Return(w, FALSE), "irq group")
  ELSE Return([w EXCEPT !.handled = @ \cup {d}], Fails(f, "irq", d))

\* The files of the device: one for rx and one for tx, unless -u says otherwise.
Files(w, id) == IF id \in DOMAIN w.optu THEN w.optu[id] ELSE 2

\* create_device_session returns NULL if the queue cannot be created, and
\* register_netdev goes on.
create_device_session(w, d, f) ==
  IF Fails(f, "session", d) THEN [w EXCEPT !.nosession = @ \cup {d}]
  ELSE [w EXCEPT !.sessions = @ \cup {d}]

\* ndo_open, and the session if it succeeds.
OpenDevice(w, d, f) ==
  LET w1 == sja1000_open(w, d, f)
  IN  IF w1.err THEN w1 ELSE create_device_session(w1, d, f)

\* The files registered, each with its thread pool.
Registered(d, n) == [i \in 1 .. n |-> [dev |-> d, pool |-> TRUE]]
Unfinished(d) == [dev |-> d, pool |-> FALSE]

\* A failure returns at once and undoes nothing: the file it happens at, the first or
\* the second of the device, is in the list and its thread_pool was not written.
register_netdev(w, d, f) ==
  LET w1 == [w EXCEPT !.named = Append(@, d)]
      w2 == OpenDevice(w1, d, f)
      n  == Files(w, Len(w.named))
  IN  IF Fails(f, "changelink", d) THEN Return(w1, TRUE)
      ELSE IF w2.err THEN w2
      ELSE IF n > 0 /\ Fails(f, "rxfile", d)
      THEN Return([w2 EXCEPT !.resmgrs = Append(@, Unfinished(d))], TRUE)
      ELSE IF n > 1 /\ Fails(f, "txfile", d)
      THEN Return([w2 EXCEPT !.resmgrs = Append(@ \o Registered(d, 1), Unfinished(d))], TRUE)
      ELSE Return([w2 EXCEPT !.resmgrs = @ \o Registered(d, n)], FALSE)

register_sja1000dev(w, d, f) ==
  IF Absent(f, d) THEN Return(w, TRUE)
  ELSE register_netdev([w EXCEPT !.ops = @ \cup {d}], d, f)

destroy_device_session(w, d) ==
  IF d \in w.sessions THEN [w EXCEPT !.sessions = @ \ {d}]
  ELSE Undefined(w, "session freed twice")

\* The device is compared with the array of an entry's handlers, which it never equals:
\* nothing is detached.
free_irq(w, d) == w

\* netif_stop_queue goes through the session, which a registration that failed before
\* it was created left NULL.  The virtual card has no interrupt.
sja1000_close(w, d) ==
  IF d \notin w.sessions THEN Undefined(w, "device_session NULL")
  ELSE IF d[1] = "vcan" THEN w ELSE free_irq(w, d)

\* After ndo_stop the list is searched for the first file whose session is the
\* device's; only that file is removed, and its thread pool destroyed.
unregister_netdev(w, d) ==
  LET Stops(j) == w.resmgrs[j].dev = d \/ w.resmgrs[j].dev \in w.nosession
      hits == {j \in DOMAIN w.resmgrs : Stops(j)}
      j == CHOOSE h \in hits : \A k \in hits : h <= k
      passed == {w.resmgrs[k].dev : k \in {k \in DOMAIN w.resmgrs : \A h \in hits : k < h}}
      w1 == [sja1000_close(w, d) EXCEPT !.stale = @ \/ passed \cap w.sessions # passed]
      w2 == destroy_device_session([w1 EXCEPT !.resmgrs = RemoveAt(@, j)], d)
  IN  IF hits = {} THEN w1
      ELSE IF w.resmgrs[j].dev \in w.nosession THEN Undefined(w1, "device_session NULL")
      ELSE IF ~w.resmgrs[j].pool THEN Undefined(w2, "thread_pool")
      ELSE w2

\* set_reset_mode goes through read_reg.
unregister_sja1000dev(w, d) ==
  IF d \in w.freed THEN Undefined(w, "device used after free")
  ELSE IF d \notin w.regs THEN Undefined(w, "read_reg NULL")
  ELSE unregister_netdev(w, d)
=============================================================================
