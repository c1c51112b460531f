------------------------------ MODULE CardTables ------------------------------
(***************************************************************************)
(* What the card drivers know of their cards: the PCI ids by which a card  *)
(* is given to a driver (pci.c and the id tables), and where the registers *)
(* of each channel are.  The functions are pure.                           *)
(***************************************************************************)
EXTENDS Integers, Sequences, FiniteSetsExt

ANY == -1             \* PCI_ANY_ID
PLX == \h10b5         \* PCI_VENDOR_ID_PLX

-----------------------------------------------------------------------------
(* Driver selection.  An entry is <<vendor, device, subvendor, subdevice>>.  *)

ADVANTECH == \h13fe
adv_devices == {\h1680, \h3680, \h2052, \h1681, \hc001, \hc002, \hc004, \hc101, \hc102, \hc104,
                \hc201, \hc202, \hc204, \hc301, \hc302, \hc304, \h00c5, \h00d7}
adv_pci_tbl == {<<ADVANTECH, d, ANY, ANY>> : d \in adv_devices}

kvaser_pci_tbl == {<<\h10e8, \h8406, ANY, ANY>>, <<\h1a07, \h0008, ANY, ANY>>}

ems_pci_tbl == {<<\h110a, \h2104, ANY, ANY>>, <<PLX, \h9030, PLX, \h4000>>,
                <<PLX, \h9030, PLX, \h4002>>, <<\h125b, \h9110, \ha000, \h4010>>}

peak_pci_tbl == {<<\h001c, d, ANY, ANY>> : d \in {1, 3, 4, 5, 6, 7, 8, 9}}

ESD == \h12fe
plx_pci_tbl ==
  {<<\h144a, \h7841, ANY, ANY>>, <<PLX, \h9050, ESD, \h0004>>, <<PLX, \h9030, ESD, \h010b>>,
   <<PLX, \h9030, ESD, \h0501>>, <<PLX, \h9056, ESD, \h0009>>, <<PLX, \h9056, ESD, \h000e>>,
   <<PLX, \h9056, ESD, \h0200>>, <<PLX, \h9050, ANY, \h2540>>, <<PLX, \h2715, ANY, ANY>>,
   <<PLX, \h3432, ANY, ANY>>, <<\h1498, \h032a, ANY, ANY>>, <<PLX, \h9030, \h12c4, \h0900>>,
   <<PLX, \h9030, \he1c5, \h0301>>, <<\h1393, \h0100, ANY, ANY>>,
   <<PLX, \h9030, \h3000, \h1001>>, <<PLX, \h9030, \h3000, \h1002>>}

f81601_pci_tbl == {<<\h1c29, \h1703, ANY, ANY>>}

Tables == <<[driver |-> "adv", tbl |-> adv_pci_tbl], [driver |-> "kvaser", tbl |-> kvaser_pci_tbl],
            [driver |-> "ems", tbl |-> ems_pci_tbl], [driver |-> "peak", tbl |-> peak_pci_tbl],
            [driver |-> "plx", tbl |-> plx_pci_tbl], [driver |-> "f81601", tbl |-> f81601_pci_tbl]>>

\* Mutant: only the vendor is compared.
check_driver_support_vendor(tbl, vid, did) == \E e \in tbl : e[1] = vid

check_driver_support(tbl, vid, did) == \E e \in tbl : e[1] = vid /\ e[2] = did

\* The driver process_driver_selection gives a device to: the first whose table has
\* its vendor and device.
SelectedDriver(vid, did) ==
  LET hits == {i \in DOMAIN Tables : check_driver_support(Tables[i].tbl, vid, did)}
  IN  IF hits = {} THEN "none" ELSE Tables[Min(hits)].driver

-----------------------------------------------------------------------------
(* Registers: the channels of a card as [bar, base, scale, size], the bytes  *)
(* of the channel being base .. base + size - 1 of the BAR: those mapped for *)
(* it, or those up to the next channel if all are mapped as a whole          *)

PORTS == 0 .. 31      \* SJA1000_MOD .. SJA1000_CDR

number_of_sja1000_chips(id) ==
  IF id \in {\h1680, \h2052, \h00c5, \h00d7} THEN 2 ELSE IF id = \h1681 THEN 1 ELSE id % 8

adv_pci_bar_no(id) == IF id \in {\h1680, \h2052, \h1681} THEN 2 ELSE 0

adv_spaced == {\hc201, \hc202, \hc204, \hc301, \hc302, \hc304, \h00c5, \h00d7}

\* Mutant: the spaced cards are forgotten.
adv_pci_bar_offset_forgets(id) == IF id \in {\h1680, \h2052, \h1681} THEN 0 ELSE \h100

adv_pci_bar_offset(id) ==
  IF id \in adv_spaced THEN \h400 ELSE IF id \in {\h1680, \h2052, \h1681} THEN 0 ELSE \h100

adv_pci_bar_len(id) ==
  IF id \in adv_spaced THEN \h400 ELSE IF id \in {\h1680, \h1681, \h2052, \h3680} THEN \h80 ELSE \h100

adv_pci_is_multi_bar(id) == id \in {\h1680, \h2052, \h1681}

adv_pci_reg_shift(id) == IF id \in adv_spaced THEN 2 ELSE 0

adv_channels(id) ==
  [i \in 1 .. number_of_sja1000_chips(id) |->
     [bar |-> adv_pci_bar_no(id) + (IF adv_pci_is_multi_bar(id) THEN i - 1 ELSE 0),
      base |-> adv_pci_bar_offset(id) * (i - 1), scale |-> 2 ^ adv_pci_reg_shift(id),
      size |-> adv_pci_bar_len(id)]]

\* Versions 1 to 3; the controller area is mapped as a whole, with a reset at 0.
ems_channels(version) ==
  [i \in 1 .. (IF version = 1 THEN 2 ELSE 4) |->
     [bar |-> IF version = 1 THEN 1 ELSE IF version = 2 THEN 2 ELSE 0,
      base |-> IF version = 3 THEN \h100 * (i - 1) ELSE \h400 + \h200 * (i - 1),
      scale |-> IF version = 1 THEN 4 ELSE 1,
      size |-> IF version = 3 THEN \h100 ELSE \h200]]

kvaser_channels == [i \in 1 .. 4 |-> [bar |-> 1, base |-> \h20 * (i - 1), scale |-> 1, size |-> \h20]]
f81601_channels == [i \in 1 .. 2 |-> [bar |-> 0, base |-> \h80 * (i - 1), scale |-> 1, size |-> \h80]]
vcan_channels == [i \in 1 .. 16 |-> [bar |-> 0, base |-> \h100 * (i - 1), scale |-> 1, size |-> \h100]]

PEAK_PCI_CHAN_SIZE == \h400

\* The subsystem id says how many channels a PEAK card has.
PeakCount(sub_sys_id) ==
  IF sub_sys_id >= 12 THEN 4 ELSE IF sub_sys_id >= 10 THEN 3 ELSE IF sub_sys_id >= 4 THEN 2 ELSE 1

peak_channels(sub_sys_id) ==
  [i \in 1 .. PeakCount(sub_sys_id) |->
     [bar |-> 1, base |-> PEAK_PCI_CHAN_SIZE * (i - 1), scale |-> 4, size |-> PEAK_PCI_CHAN_SIZE]]

\* plx_pci_card_info: the BAR of the bridge's registers, whether the bridge is a PLX9056
\* (or PEX8311), the channels as <<bar, offset, size>>, and the other bytes the card's
\* reset function writes.
PlxCard(conf, p9056, a, b, reset) ==
  [conf |-> conf, p9056 |-> p9056, map |-> <<a, b>>, reset |-> reset]
plx_pci_card_info ==
  [adlink        |-> PlxCard(1, FALSE, <<2, 0, \h80>>, <<2, \h80, \h80>>, {}),
   adlink_se     |-> PlxCard(0, FALSE, <<2, 0, \h80>>, <<2, \h80, \h80>>, {}),
   esd200        |-> PlxCard(0, FALSE, <<2, 0, \h80>>, <<2, \h100, \h80>>, {}),
   esd266        |-> PlxCard(0, TRUE, <<2, 0, \h80>>, <<2, \h100, \h80>>, {}),
   esd2000       |-> PlxCard(0, TRUE, <<2, 0, \h80>>, <<2, \h100, \h80>>, {}),
   ixxat         |-> PlxCard(0, FALSE, <<2, 0, \h80>>, <<2, \h200, \h80>>, {}),
   marathon_pci  |-> PlxCard(0, FALSE, <<2, 0, 0>>, <<4, 0, 0>>, {<<3, 0>>, <<5, 0>>}),
   marathon_pcie |-> PlxCard(0, TRUE, <<2, 0, 0>>, <<3, \h80, 0>>, {<<2, 32>>, <<3, \h80 + 32>>}),
   tews          |-> PlxCard(0, FALSE, <<2, 0, \h80>>, <<2, \h100, \h80>>, {}),
   cti           |-> PlxCard(0, FALSE, <<2, 0, \h80>>, <<2, \h100, \h80>>, {}),
   elcus         |-> PlxCard(1, FALSE, <<2, 0, \h80>>, <<3, 0, \h80>>, {}),
   moxa          |-> PlxCard(0, FALSE, <<0, 0, \h80>>, <<1, 0, \h80>>, {}),
   asem          |-> PlxCard(0, FALSE, <<2, 0, 0>>, <<4, 0, 0>>, {<<0, \h54>>})]

\* A size of 0 maps the BAR to its end, which is past every offset of the table.
BarEnd == 2 ^ 20

plx_channels(ci) ==
  [i \in 1 .. 2 |->
     [bar |-> ci.map[i][1], base |-> ci.map[i][2], scale |-> 1,
      size |-> IF ci.map[i][3] = 0 THEN BarEnd - ci.map[i][2] ELSE ci.map[i][3]]]

\* The bytes of INTCSR and CNTRL, and those written at a reset.
plx_own(ci) ==
  {<<ci.conf, b>> : b \in IF ci.p9056 THEN \h68 .. \h6f ELSE \h4c .. \h53} \cup ci.reset

-----------------------------------------------------------------------------
\* Every kind of card: its channels; the bytes asked for when the channels are mapped as a
\* whole, 0 when each is mapped by itself or the BAR whatever its length; and the bytes of
\* the card's own registers that the driver accesses in a BAR channels may be in (the EMS
\* reset is at the start of the controller area; the other drivers have theirs in BARs
\* without channels).
Layout(card, chans, area, own) == [card |-> card, chans |-> chans, area |-> area, own |-> own]
Layouts ==
  {Layout(<<"adv", id>>, adv_channels(id), 0, {}) : id \in adv_devices}
  \cup {Layout(<<"ems", v>>, ems_channels(v), 4096, {<<ems_channels(v)[1].bar, 0>>}) : v \in 1 .. 3}
  \cup {Layout(<<"peak", sub>>, peak_channels(sub), PEAK_PCI_CHAN_SIZE * PeakCount(sub), {}) :
           sub \in {3, 4, 9, 10, 11, 12}}
  \cup {Layout(<<"plx", k>>, plx_channels(plx_pci_card_info[k]), 0, plx_own(plx_pci_card_info[k])) :
           k \in DOMAIN plx_pci_card_info}
  \cup {Layout(<<"kvaser">>, kvaser_channels, \h80, {}), Layout(<<"f81601">>, f81601_channels, 0, {}),
        Layout(<<"vcan">>, vcan_channels, 10 * 16 * \h100, {})}

Overlap(a, b) == a.bar = b.bar /\ a.base < b.base + b.size /\ b.base < a.base + a.size

\* Ports lie in the bytes mapped for the channel, those in the area, none in another's.
Separate(l) ==
  \A i \in DOMAIN l.chans :
    LET a == l.chans[i]
    IN  /\ \A p \in PORTS : p * a.scale < a.size
        /\ l.area # 0 => a.base + a.size <= l.area
        /\ \A j \in DOMAIN l.chans \ {i} : ~Overlap(a, l.chans[j])

\* The bytes the ports of the channels are at.
Touched(l) ==
  UNION {{<<l.chans[i].bar, l.chans[i].base + p * l.chans[i].scale>> : p \in PORTS} : i \in DOMAIN l.chans}
=============================================================================
