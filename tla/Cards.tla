-------------------------------- MODULE Cards ---------------------------------
(***************************************************************************)
(* The probe and remove functions of the card drivers: adv_pci.c,          *)
(* kvaser_pci.c, ems_pci.c, f81601.c, peak_pci.c, plx_pci.c and vcan.c, as *)
(* operators on the world of NetDev.  Loops over channels are folds; a     *)
(* fold that stops at the first error keeps the world of that error.       *)
(***************************************************************************)
EXTENDS NetDev

EachChannel(Op(_, _), w, n) == FoldLeft(Op, w, Channels(n))

\* A loop left at the first channel that fails or runs into undefined behaviour.
UntilError(Op(_, _), w, n) ==
  EachChannel(LAMBDA v, i : IF v.err \/ v.ub # "" THEN v ELSE Op(v, i), Return(w, FALSE), n)

-----------------------------------------------------------------------------
(* Advantech: one ioremap for each channel, a board structure               *)

\* Mutant: the slave_dev[] entries are not cleared.
adv_pci_del_all_channels_keeps(w, c) ==
  LET Del(v, i) ==
        LET d == <<c, i>>
        IN  IF d \notin v.slot THEN v
            ELSE free_sja1000dev(pci_iounmap(unregister_sja1000dev(v, d), d), d)
  IN  IF c \notin w.drvdata THEN w ELSE EachChannel(Del, w, w.channels[c])

adv_pci_del_all_channels(w, c) ==
  LET Del(v, i) ==
        LET d == <<c, i>>
            v1 == pci_iounmap(unregister_sja1000dev(v, d), d)
        IN  IF d \notin v.slot THEN v
            ELSE [free_sja1000dev(v1, d) EXCEPT !.slot = @ \ {d}]
  IN  IF c \notin w.drvdata THEN w ELSE EachChannel(Del, w, w.channels[c])

\* The result of ioremap is used without a test; a chip that does not answer the
\* reset has its device freed and its slave_dev[] entry left.
adv_pci_add_chan(w, d, f) ==
  LET w1 == alloc_sja1000dev(w, d, f)
      w2 == ioremap([w1 EXCEPT !.regs = @ \cup {d}, !.slot = @ \cup {d}], d, f)
      w3 == register_sja1000dev(w2, d, f)
  IN  IF w1.err THEN w1
      ELSE IF w2.err THEN Undefined(w2, "reg_base NULL")
      ELSE IF Absent(f, d) THEN Return(free_sja1000dev(w2, d), FALSE)
      ELSE IF w3.err THEN Return(adv_pci_del_all_channels(w3, d[1]), TRUE)
      ELSE w3

\* Without a board probe has returned 0 and driver_data was never written.
adv_pci_remove_one(w, c, f) ==
  IF c \notin w.drvdata /\ Dirty(f, c) THEN Undefined(w, "driver_data")
  ELSE LET w1 == adv_pci_del_all_channels(w, c)
       IN  pci_disable_device([w1 EXCEPT !.board = @ \ {c}, !.drvdata = @ \ {c}], c)

adv_pci_init_one(w, c, f) ==
  LET w1 == pci_enable_device([w EXCEPT !.board = @ \cup {c}], c, f)
      w2 == [w1 EXCEPT !.channels[c] = Chips[c], !.drvdata = @ \cup {c}]
      w3 == UntilError(LAMBDA v, i : adv_pci_add_chan(v, <<c, i>>, f), w2, Chips[c])
  IN  IF Fails(f, "board", <<c, 0>>) THEN Return(w, FALSE)
      ELSE IF w1.err THEN w1
      ELSE IF Chips[c] = 0 THEN Return(pci_disable_device(w1, c), TRUE)
      ELSE IF w3.err
      THEN Return(pci_disable_device(adv_pci_remove_one(w3, c, f), c), TRUE)
      ELSE w3

-----------------------------------------------------------------------------
(* Kvaser: the first device is the master, whose private data has the others *)

\* Mutant: the chips that answer, wherever they are.
number_of_sja1000_chip_all(c, f) ==
  Len(SelectSeq(Channels(Chips[c]), LAMBDA i : ~Absent(f, <<c, i>>)))

\* The chips up to the first that does not answer.
number_of_sja1000_chip(c, f) ==
  LET gone == {i \in 0 .. Chips[c] - 1 : Absent(f, <<c, i>>)}
  IN  IF gone = {} THEN Chips[c] ELSE CHOOSE i \in gone : \A j \in gone : i <= j

\* For the master: the slaves, itself, and the three blocks.  For a slave, whose
\* own slave_dev[] was never written: itself, and the blocks of the card.
kvaser_pci_del_chan(w, d, f) ==
  LET c == d[1]
      Del(v, i) == LET s == <<c, i>>
                   IN  IF s \in v.slot THEN free_sja1000dev(unregister_sja1000dev(v, s), s)
                       ELSE v
      w1 == IF <<c, "map0">> \notin w.blocks THEN Undefined(w, "conf_addr") ELSE w
      w2 == IF d[2] = 0 THEN EachChannel(Del, w1, w.channels[c])
            ELSE IF Dirty(f, c) THEN Undefined(w1, "slave_dev") ELSE w1
      w3 == unregister_sja1000dev(w2, d)
      w4 == IF d[2] = 0 THEN pci_iounmap(w3, <<c, "map1">>) ELSE w3
      w5 == pci_iounmap(pci_iounmap(w4, <<c, "map0">>), <<c, "map2">>)
  IN  free_sja1000dev(w5, d)

kvaser_pci_add_chan(w, d, f) ==
  LET c == d[1]
      w1 == alloc_sja1000dev(w, d, f)
      w2 == [w1 EXCEPT !.regs = @ \cup {d}, !.channels[c] = d[2] + 1,
                       !.slot = IF d[2] = 0 THEN @ ELSE @ \cup {d}]
      w3 == register_sja1000dev(w2, d, f)
  IN  IF w1.err THEN w1
      ELSE IF w3.err THEN Return(kvaser_pci_del_chan(w3, d, f), TRUE)
      ELSE IF d[2] = 0 THEN [w3 EXCEPT !.board = @ \cup {c}] ELSE w3

\* Here board says that master_dev is set, which add_chan does at its end.
kvaser_pci_init_one(w, c, f) ==
  LET w1 == pci_enable_device(w, c, f)
      w2 == pci_iomap(w1, c, "map0", f)
      w3 == pci_iomap(w2, c, "map2", f)
      w4 == pci_iomap(w3, c, "map1", f)
      n  == number_of_sja1000_chip(c, f)
      w5 == UntilError(LAMBDA v, i : kvaser_pci_add_chan(v, <<c, i>>, f), w4, n)
      w6 == IF c \in w5.board THEN kvaser_pci_del_chan(w5, <<c, 0>>, f) ELSE w5
      Unmap(v) == pci_iounmap(pci_iounmap(pci_iounmap(v, <<c, "map0">>), <<c, "map2">>),
                              <<c, "map1">>)
      Fail(v) == Return(pci_disable_device(v, c), TRUE)
  IN  IF w1.err \/ w1.ub # "" THEN w1
      ELSE IF w2.err THEN Fail(w2)
      ELSE IF w3.err THEN Fail(Unmap(w3))
      ELSE IF w4.err \/ n = 0 THEN Fail(Unmap(w4))
      ELSE IF w5.err THEN Fail(Unmap(w6))
      ELSE [w5 EXCEPT !.drvdata = @ \cup {c}]

kvaser_pci_remove_one(w, c, f) ==
  pci_disable_device([kvaser_pci_del_chan(w, <<c, 0>>, f) EXCEPT !.board = @ \ {c}], c)

-----------------------------------------------------------------------------
(* EMS: the channels found are counted, and as many entries are removed      *)

ems_pci_del_card(w, c) ==
  LET Del(v, i) == LET d == <<c, i>>
                   IN  IF d \notin v.slot THEN v
                       ELSE free_sja1000dev(unregister_sja1000dev(v, d), d)
      w1 == EachChannel(Del, w, w.channels[c])
      w2 == pci_iounmap(pci_iounmap(w1, <<c, "map1">>), <<c, "map0">>)
  IN  pci_disable_device([w2 EXCEPT !.board = @ \ {c}], c)

\* The entry of a channel that is not there keeps the freed device.
EmsAddChannel(w, d, f) ==
  LET w1 == alloc_sja1000dev(w, d, f)
      w2 == [w1 EXCEPT !.slot = @ \cup {d}, !.regs = @ \cup {d}]
      w3 == register_sja1000dev(w2, d, f)
  IN  IF w1.err THEN w1
      ELSE IF Absent(f, d) THEN Return(free_sja1000dev(w2, d), FALSE)
      ELSE IF w3.err THEN Return(free_sja1000dev(w3, d), TRUE)
      ELSE [w3 EXCEPT !.channels[d[1]] = @ + 1]

\* The test of pci_enable_device is for a negative result and its error codes are
\* positive: the probe goes on with a device that is not enabled.
ems_pci_add_card(w, c, f) ==
  LET w1 == pci_enable_device(w, c, f)
      w2 == [w1 EXCEPT !.board = @ \cup {c}, !.drvdata = @ \cup {c}, !.channels[c] = 0]
      w3 == pci_iomap(w2, c, "map0", f)
      w4 == pci_iomap(w3, c, "map1", f)
      w5 == UntilError(LAMBDA v, i : EmsAddChannel(v, <<c, i>>, f), w4, Chips[c])
  IN  IF w1.ub # "" THEN w1
      ELSE IF Fails(f, "board", <<c, 0>>) THEN Return(pci_disable_device(w1, c), TRUE)
      ELSE IF w3.err THEN Return(ems_pci_del_card(w3, c), TRUE)
      ELSE IF w4.err THEN Return(ems_pci_del_card(w4, c), TRUE)
      ELSE IF w5.err THEN Return(ems_pci_del_card(w5, c), TRUE)
      ELSE w5

-----------------------------------------------------------------------------
(* Fintek: mapping and handle are managed, released after remove             *)

\* Both entries of net_dev[], of a card structure that malloc returned.
f81601_pci_remove(w, c, f) ==
  LET Del(v, i) == LET d == <<c, i>>
                   IN  IF d \in v.slot THEN free_sja1000dev(unregister_sja1000dev(v, d), d)
                       ELSE IF Dirty(f, c) THEN Undefined(v, "net_dev") ELSE v
  IN  EachChannel(Del, w, 2)

F81601AddChannel(w, d, f) ==
  LET w1 == alloc_sja1000dev(w, d, f)
      w2 == register_sja1000dev([w1 EXCEPT !.regs = @ \cup {d}], d, f)
  IN  IF w1.err THEN w1
      ELSE IF w2.err THEN Return(free_sja1000dev(w2, d), TRUE)
      ELSE [w2 EXCEPT !.slot = @ \cup {d}]

f81601_pci_probe(w, c, f) ==
  LET w1 == pcim_enable_device(w, c, f)
      w2 == [w1 EXCEPT !.board = @ \cup {c}, !.drvdata = @ \cup {c}]
      w3 == pci_iomap(w2, c, "map0", f)
      w4 == UntilError(LAMBDA v, i : F81601AddChannel(v, <<c, i>>, f), w3, Chips[c])
  IN  IF w1.ub # "" THEN w1
      ELSE IF Fails(f, "board", <<c, 0>>) THEN Return(w1, TRUE)
      ELSE IF w3.err THEN Return(f81601_pci_remove(w3, c, f), TRUE)
      ELSE IF w4.err THEN Return(f81601_pci_remove(w4, c, f), TRUE)
      ELSE w4

-----------------------------------------------------------------------------
(* PEAK and PLX: probe_all_driver_selections passes NULL for the table entry *)
(* of the device, and both drivers take driver_data from it.                 *)

peak_pci_probe(w, c, f) ==
  LET w1 == pci_enable_device(w, c, f)
      w2 == pci_iomap(w1, c, "map0", f)
      w3 == pci_iomap(w2, c, "map1", f)
  IN  IF w1.err \/ w1.ub # "" THEN w1
      ELSE IF w2.err THEN Return(pci_disable_device(w2, c), TRUE)
      ELSE IF w3.err
      THEN Return(pci_disable_device(pci_iounmap(w3, <<c, "map0">>), c), TRUE)
      ELSE Undefined(w3, "ent NULL")

plx_pci_add_card(w, c, f) == Undefined(w, "ent NULL")

-----------------------------------------------------------------------------
(* The virtual card: no PCI device, registers in memory of the board         *)

\* block <<c, "map0">> is board->reg_base.
vcan_del_all_channels(w, c) ==
  LET Del(v, i) == LET d == <<c, i>>
                   IN  IF d \notin v.slot THEN v
                       ELSE [free_sja1000dev(unregister_sja1000dev(v, d), d)
                               EXCEPT !.slot = @ \ {d}]
      w1 == EachChannel(Del, w, w.channels[c])
  IN  IF c \notin w.drvdata THEN w
      ELSE IF <<c, "map0">> \notin w.blocks THEN Undefined(w1, "double free")
      ELSE [w1 EXCEPT !.blocks = @ \ {<<c, "map0">>}]

vcan_add_chan(w, d, f) ==
  LET w1 == alloc_sja1000dev(w, d, f)
      w2 == register_sja1000dev([w1 EXCEPT !.regs = @ \cup {d}, !.slot = @ \cup {d}], d, f)
  IN  IF w1.err THEN w1
      ELSE IF w2.err THEN Return(vcan_del_all_channels(w2, d[1]), TRUE)
      ELSE w2

vcan_remove_one(w, c, f) ==
  IF c \notin w.drvdata /\ Dirty(f, c) THEN Undefined(w, "driver_data")
  ELSE [vcan_del_all_channels(w, c) EXCEPT !.board = @ \ {c}, !.drvdata = @ \ {c}]

vcan_init_one(w, c, f) ==
  LET w1 == [w EXCEPT !.board = @ \cup {c}, !.drvdata = @ \cup {c},
                      !.channels[c] = Chips[c], !.blocks = @ \cup {<<c, "map0">>}]
      w2 == UntilError(LAMBDA v, i : vcan_add_chan(v, <<c, i>>, f), w1, Chips[c])
  IN  IF Fails(f, "board", <<c, 0>>) THEN Return(w, FALSE)
      ELSE IF w2.err THEN Return(vcan_remove_one(w2, c, f), TRUE)
      ELSE w2
=============================================================================
