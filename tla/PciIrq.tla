-------------------------------- MODULE PciIrq --------------------------------
(***************************************************************************)
(* How a card's interrupts are set up: which MSI capability is enabled     *)
(* (pci-capability.c, options -d and -e), the groups of interrupts of the  *)
(* devices (config.c), the attach table with its way of masking            *)
(* (interrupt.c, interrupt.h).  The devices are enabled in turn, and the   *)
(* channels of each request its interrupt.                                 *)
(***************************************************************************)
EXTENDS Integers, Sequences, Functions

CONSTANTS PciDevices,    \* the devices, their options and failures: see below
          MAX_ATTACH,    \* MAX_IRQ_ATTACH_COUNT
          MAX_HANDLERS,  \* MAX_HANDLERS_PER_IRQ
          MaxDevices, MaxRequests

Caps == {"msi", "msix"}

-----------------------------------------------------------------------------
(* Capabilities.  A device is                                                *)
(*   pcie, ext, reg  whether it has PCIe; the MSI capabilities found in the  *)
(*              PCIe extended space and in the regular one                   *)
(*   pvm, nvecs per vector masking; the number of vectors                    *)
(*   e, d       the capabilities named by options -e and -d for its ids      *)
(*   fails      the library call that fails: "read", "set", "enable",        *)
(*              "already" (enable, as it was enabled before: EALREADY),      *)
(*              "mask", "disable" (mask fails, and disable after it), "none" *)
(*   junk       what the memory of is_msi and is_msix held before            *)
(*   irqs       its interrupts, which the PCI server allots                  *)

ASSUME PciAssumption ==
  /\ PciDevices \subseteq
       [pcie : BOOLEAN, ext : SUBSET Caps, reg : SUBSET Caps, pvm : BOOLEAN, nvecs : Nat,
        e : SUBSET Caps, d : SUBSET Caps, junk : BOOLEAN,
        fails : {"none", "read", "set", "enable", "already", "mask", "disable"}, irqs : Seq(Nat)]
  /\ \A dev \in PciDevices : dev.irqs # <<>> /\ IsInjective(dev.irqs)
  /\ MAX_ATTACH \in Nat /\ MAX_HANDLERS \in Nat \ {0, 1}

\* MSI-X is disabled unless -e names it, and -d takes precedence.
DisabledCaps(dev) == ({"msix"} \ dev.e) \cup dev.d

\* pcie_init: pcie_cap stays unset without the capability.
FoundCap(dev) ==
  LET In(space) == IF "msix" \in space \ DisabledCaps(dev) THEN "msix"
                   ELSE IF "msi" \in space \ DisabledCaps(dev) THEN "msi" ELSE "none"
      extended == IF dev.pcie THEN In(dev.ext) ELSE "none"
  IN  IF extended # "none" THEN extended ELSE In(dev.reg)

\* msix_uninit: the structure is freed even if disabling it fails.
msix_uninit(dev, c) ==
  [c EXCEPT !.msi_cap = FALSE, !.enabled = IF dev.fails = "disable" THEN @ ELSE "none"]

\* msi_cap: it is not NULL; enabled: the capability the device uses.
msix_init(dev) ==
  LET cap == FoundCap(dev)
      none == [msi_cap |-> FALSE, enabled |-> "none", is_msi |-> dev.junk, is_msix |-> dev.junk]
      read == [none EXCEPT !.msi_cap = TRUE]
      on == [read EXCEPT !.enabled = cap]
      msi == [on EXCEPT !.is_msi = dev.pvm, !.is_msix = FALSE]
  IN  IF cap = "none" \/ dev.fails = "read" THEN none
      ELSE IF dev.nvecs < 1 \/ dev.fails \in {"set", "enable"} THEN read
      ELSE IF dev.fails = "already" THEN on
      ELSE IF cap = "msix" THEN [on EXCEPT !.is_msix = TRUE]
      ELSE IF dev.fails \in {"mask", "disable"} THEN msix_uninit(dev, [on EXCEPT !.is_msi = TRUE])
      ELSE msi

\* Mutant: whether the capability could be enabled is not asked.
MaskKindUnasked(c) ==
  IF c.msi_cap
  THEN IF c.is_msix THEN "msix" ELSE IF c.is_msi THEN "msi" ELSE "msi_legacy"
  ELSE "regular"

\* The mask and unmask functions request_threaded_irq chooses.
MaskKind(c) ==
  IF c.msi_cap /\ c.enabled # "none"
  THEN IF c.is_msix THEN "msix" ELSE IF c.is_msi THEN "msi" ELSE "msi_legacy"
  ELSE "regular"

\* What stops further interrupts while one is handled: InterruptAttachEvent masks the
\* line for the two kinds handled at that level, irq_loop calls mask for the others.
MaskedAt(kind) == IF kind \in {"msi_legacy", "regular"} THEN "line" ELSE kind

\* What unmask lets through; the three MSI kinds do nothing without msi_cap.
UnmaskedAt(kind, c) ==
  IF kind = "regular" THEN "line"
  ELSE IF ~c.msi_cap THEN "nothing"
  ELSE MaskedAt(kind)

-----------------------------------------------------------------------------
(* Groups.  irq_group is the array gen, of the groups 1 .. n, each           *)
(* [dev, cap]; an entry of irq_to_group_map is [array, index].               *)

VARIABLES
  irqGroups,   \* [gen, groups, map]
  irqAttach,   \* irq_attach: a sequence of [irq, entry, group, kind, devs, count], devs being
               \* the handlers written and count num_handlers
  requests,    \* the groups whose interrupts channels 1, 2, .. requested
  attaching,   \* the interrupt of the group that is attached next, 0 if no request is under way
  refused      \* a request failed

irqVars == <<irqGroups, irqAttach, requests, attaching, refused>>

NoGroup == [array |-> 0, index |-> 0]

IrqInit ==
  /\ irqGroups = [gen |-> 0, groups |-> <<>>, map |-> <<>>]
  /\ irqAttach = <<>> /\ requests = <<>> /\ attaching = 0 /\ refused = FALSE

\* The map grows to the largest interrupt, top.
irq_to_group_add(g, irqs, top) ==
  LET size == IF Len(g.map) < top + 1 THEN top + 1 ELSE Len(g.map)
      old(i) == IF i <= Len(g.map) THEN g.map[i] ELSE NoGroup
  IN  [g EXCEPT !.map = [i \in 1 .. size |->
         IF i - 1 \in Range(irqs) THEN [array |-> g.gen, index |-> Len(g.groups)] ELSE old(i)]]

\* The groups with the device's, in a new array; the old one is freed.
NewGroups(dev, map) ==
  [gen |-> irqGroups.gen + 1, map |-> map,
   groups |-> Append(irqGroups.groups, [dev |-> dev, cap |-> msix_init(dev)])]

\* Mutant: the map is not redirected to the new array.
irq_group_add_keeps(dev) ==
  \E top \in Range(dev.irqs) :
    /\ \A i \in Range(dev.irqs) : i <= top
    /\ irqGroups' = irq_to_group_add(NewGroups(dev, irqGroups.map), dev.irqs, top)

\* The entries of the map that point into the old array are redirected.
irq_group_add(dev) ==
  LET Redirect(e) == IF e # NoGroup /\ e.array = irqGroups.gen THEN [e EXCEPT !.array = irqGroups.gen + 1] ELSE e
      map == [i \in 1 .. Len(irqGroups.map) |-> Redirect(irqGroups.map[i])]
  IN  \E top \in Range(dev.irqs) :
        /\ \A i \in Range(dev.irqs) : i <= top
        /\ irqGroups' = irq_to_group_add(NewGroups(dev, map), dev.irqs, top)

\* pci_enable_device, the interrupts.
EnableIrqs(dev) ==
  /\ attaching = 0 /\ ~refused /\ Len(irqGroups.groups) < MaxDevices
  /\ irq_group_add(dev)
  /\ UNCHANGED <<irqAttach, requests, attaching, refused>>

-----------------------------------------------------------------------------
(* request_threaded_irq, called for the channels of the device enabled last.  *)

LastIrq == irqGroups.groups[Len(irqGroups.groups)].dev.irqs[1]

\* The group the map has for the interrupt.
RequestIrq ==
  /\ attaching = 0 /\ ~refused /\ irqGroups.groups # <<>> /\ Len(requests) < MaxRequests
  /\ requests' = Append(requests, irqGroups.map[LastIrq + 1].index) /\ attaching' = 1
  /\ UNCHANGED <<irqGroups, irqAttach, refused>>

\* The group of the request under way, and its interrupt in turn.
Group == irqGroups.groups[requests[Len(requests)]]
Irq == Group.dev.irqs[attaching]

AttachNext ==
  /\ attaching' = IF attaching = Len(Group.dev.irqs) THEN 0 ELSE attaching + 1
  /\ UNCHANGED <<irqGroups, requests, refused>>

AttachFails == attaching' = 0 /\ refused' = TRUE /\ UNCHANGED <<irqGroups, requests>>

AttachTableFull ==
  attaching > 0 /\ Len(irqAttach) = MAX_ATTACH /\ AttachFails /\ UNCHANGED irqAttach

\* The first handler of an interrupt: the entry is counted and written, and then
\* InterruptAttachEvent or InterruptAttach is called.
NewEntry ==
  /\ attaching > 0 /\ Len(irqAttach) # MAX_ATTACH
  /\ \A k \in DOMAIN irqAttach : irqAttach[k].irq # Irq
  /\ irqAttach' = Append(irqAttach,
       [irq |-> Irq, entry |-> attaching - 1, group |-> requests[Len(requests)],
        kind |-> MaskKind(Group.cap), devs |-> <<Len(requests)>>, count |-> 1])

AttachNew == NewEntry /\ AttachNext

\* The call fails; the entry stays.
AttachRejected == NewEntry /\ AttachFails

\* Another handler of an interrupt in the table: it is counted before the limit is tested.
AttachShared(k) ==
  LET count == irqAttach[k].count + 1
      e == [irqAttach[k] EXCEPT !.count = count]
  IN  /\ attaching > 0 /\ Len(irqAttach) # MAX_ATTACH /\ irqAttach[k].irq = Irq
      /\ IF count >= MAX_HANDLERS
         THEN AttachFails /\ irqAttach' = [irqAttach EXCEPT ![k] = e]
         ELSE AttachNext /\ irqAttach' = [irqAttach EXCEPT ![k] = [e EXCEPT !.devs = Append(@, Len(requests))]]

IrqNext ==
  \/ \E dev \in PciDevices : EnableIrqs(dev)
  \/ RequestIrq \/ AttachTableFull \/ AttachNew \/ AttachRejected
  \/ \E k \in DOMAIN irqAttach : AttachShared(k)

IrqSpec == IrqInit /\ [][IrqNext]_irqVars

-----------------------------------------------------------------------------

\* The level a device signals at.
Signals(dev, c) ==
  IF c.enabled = "msix" \/ (c.enabled = "msi" /\ dev.pvm) THEN c.enabled ELSE "line"

\* For every device, options and failing call: an interrupt that was masked to be
\* handled is unmasked at the same level afterwards, and the level is the one the device
\* it was attached for signals at: the entry of an MSI-X or of an MSI capability with
\* masking, the line otherwise.  is_msi and is_msix may be left unwritten when msix_init
\* fails; the exceptions are a capability that stays enabled because it could not be
\* disabled, whose interrupts are then masked as a line, and one that was enabled before,
\* whose level is then what the memory of is_msi and is_msix held.  A capability that -d names is
\* never enabled, nor MSI-X unless -e names it.
InterruptRearmed ==
  /\ \A k \in DOMAIN irqAttach :
       LET kind == irqAttach[k].kind
           g == irqGroups.groups[irqAttach[k].group]
       IN  /\ UnmaskedAt(kind, g.cap) = MaskedAt(kind)
           /\ MaskedAt(kind) = Signals(g.dev, g.cap) \/ g.dev.fails \in {"disable", "already"}
  /\ \A n \in DOMAIN irqGroups.groups :
       LET g == irqGroups.groups[n]
       IN  g.cap.enabled \notin g.dev.d /\ (g.cap.enabled = "msix" => "msix" \in g.dev.e)

\* The map: no entry points into an array that was freed, each points to the last group
\* that has its interrupt, and there is one for every interrupt of a group.
Mapped(gen, map, groups) ==
  /\ \A i \in DOMAIN map : map[i] # NoGroup =>
       /\ map[i].array = gen
       /\ map[i].index \in DOMAIN groups
       /\ i - 1 \in Range(groups[map[i].index].dev.irqs)
       /\ \A n \in DOMAIN groups : i - 1 \in Range(groups[n].dev.irqs) => n <= map[i].index
  /\ \A n \in DOMAIN groups : \A irq \in Range(groups[n].dev.irqs) :
       irq + 1 \in DOMAIN map /\ map[irq + 1] # NoGroup

\* The handlers of an interrupt that are channel r.
Handlers(irq, r) ==
  {p \in (DOMAIN irqAttach) \X (1 .. MAX_HANDLERS) :
     LET e == irqAttach[p[1]] IN e.irq = irq /\ p[2] \in DOMAIN e.devs /\ e.devs[p[2]] = r}

\* After any devices have been enabled and any channels have requested their interrupt: no
\* entry of the map points into an array that was freed, each points to the last group
\* that has its interrupt, and unless a table was full or an interrupt could not be attached
\* every channel is a handler, exactly once, of every interrupt of its device.  A full table
\* is reported before an entry is written past its end.
IrqRouted ==
  /\ Mapped(irqGroups.gen, irqGroups.map, irqGroups.groups)
  /\ ~refused => \A r \in DOMAIN requests : r < Len(requests) \/ attaching = 0 =>
       \A irq \in Range(irqGroups.groups[requests[r]].dev.irqs) :
         \E h \in Handlers(irq, r) : Handlers(irq, r) = {h}
  /\ Len(irqAttach) <= MAX_ATTACH
  /\ \A k \in DOMAIN irqAttach : Len(irqAttach[k].devs) < MAX_HANDLERS
=============================================================================
