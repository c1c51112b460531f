------------------------------- MODULE PciProofs -------------------------------
(***************************************************************************)
(* What a PCI card is given: the interrupts of any devices and requests    *)
(* (PciIrq) and the address spaces of any BARs (IoSpace).  Each part       *)
(* defines its inductive invariant first.                                  *)
(***************************************************************************)
EXTENDS PciIrq, IoSpace, WellFoundedInduction, TLAPS

\* Every device is masked and unmasked at the level it signals at.
Rearmed(dev, c) ==
  /\ UnmaskedAt(MaskKind(c), c) = MaskedAt(MaskKind(c))
  /\ MaskedAt(MaskKind(c)) = Signals(dev, c) \/ dev.fails \in {"disable", "already"}
  /\ c.enabled \notin dev.d
  /\ c.enabled = "msix" => "msix" \in dev.e

\* pcie_init and msix_init look only for capabilities that the options allow.
LEMMA FoundCapAllowed ==
  ASSUME NEW dev \in PciDevices
  PROVE  /\ FoundCap(dev) \in {"none", "msi", "msix"}
         /\ FoundCap(dev) # "none" => FoundCap(dev) \notin dev.d
         /\ FoundCap(dev) = "msix" => "msix" \in dev.e
  BY PciAssumption DEF FoundCap, DisabledCaps

\* msix_init leaves every device, whatever call fails, with the masking it signals at.
LEMMA RearmedAlways ==
  ASSUME NEW dev \in PciDevices
  PROVE  Rearmed(dev, msix_init(dev))
  <1> DEFINE cap == FoundCap(dev)
             c == msix_init(dev)
  <1>1. dev.pvm \in BOOLEAN /\ dev.junk \in BOOLEAN /\ dev.d \subseteq Caps /\ dev.nvecs \in Nat
    BY PciAssumption
  <1>2. /\ cap \in {"none", "msi", "msix"} /\ (cap # "none" => cap \notin dev.d)
        /\ (cap = "msix" => "msix" \in dev.e)
    BY FoundCapAllowed
  <1>3. "none" \notin dev.d
    BY <1>1 DEF Caps
  <1> HIDE DEF cap
  <1>4. CASE cap = "none" \/ dev.fails = "read"
    <2>1. c = [msi_cap |-> FALSE, enabled |-> "none", is_msi |-> dev.junk, is_msix |-> dev.junk]
      BY <1>4 DEF msix_init, cap
    <2> HIDE DEF c
    <2> QED BY <1>3, <2>1 DEF Rearmed, MaskKind, UnmaskedAt, MaskedAt, Signals, c
  <1>5. CASE ~(cap = "none" \/ dev.fails = "read") /\ (dev.nvecs < 1 \/ dev.fails \in {"set", "enable"})
    <2>1. c = [msi_cap |-> TRUE, enabled |-> "none", is_msi |-> dev.junk, is_msix |-> dev.junk]
      BY <1>5 DEF msix_init, cap
    <2> HIDE DEF c
    <2> QED BY <1>3, <2>1 DEF Rearmed, MaskKind, UnmaskedAt, MaskedAt, Signals, c
  <1>6. CASE /\ ~(cap = "none" \/ dev.fails = "read") /\ ~(dev.nvecs < 1 \/ dev.fails \in {"set", "enable"})
             /\ dev.fails # "already"
             /\ cap = "msix"
    <2>1. c = [msi_cap |-> TRUE, enabled |-> "msix", is_msi |-> dev.junk, is_msix |-> TRUE]
      BY <1>6 DEF msix_init, cap
    <2> HIDE DEF c
    <2> QED BY <1>2, <1>6, <2>1 DEF Rearmed, MaskKind, UnmaskedAt, MaskedAt, Signals, c
  <1>7. CASE /\ ~(cap = "none" \/ dev.fails = "read") /\ ~(dev.nvecs < 1 \/ dev.fails \in {"set", "enable"})
             /\ dev.fails # "already"
             /\ cap # "msix" /\ dev.fails \in {"mask", "disable"}
    <2>1. c = [msi_cap |-> FALSE, enabled |-> IF dev.fails = "disable" THEN "msi" ELSE "none",
               is_msi |-> TRUE, is_msix |-> dev.junk]
      BY <1>2, <1>7 DEF msix_init, msix_uninit, cap
    <2> HIDE DEF c
    <2> QED BY <1>2, <1>3, <1>7, <2>1 DEF Rearmed, MaskKind, UnmaskedAt, MaskedAt, Signals, c
  <1>8. CASE /\ ~(cap = "none" \/ dev.fails = "read") /\ ~(dev.nvecs < 1 \/ dev.fails \in {"set", "enable"})
             /\ dev.fails # "already"
             /\ cap # "msix" /\ dev.fails \notin {"mask", "disable"}
    <2>1. c = [msi_cap |-> TRUE, enabled |-> "msi", is_msi |-> dev.pvm, is_msix |-> FALSE]
      BY <1>2, <1>8 DEF msix_init, cap
    <2> HIDE DEF c
    <2> QED BY <1>1, <1>2, <1>8, <2>1 DEF Rearmed, MaskKind, UnmaskedAt, MaskedAt, Signals, c
  <1>9. CASE /\ ~(cap = "none" \/ dev.fails = "read") /\ ~(dev.nvecs < 1 \/ dev.fails \in {"set", "enable"})
             /\ dev.fails = "already"
    <2>1. c = [msi_cap |-> TRUE, enabled |-> cap, is_msi |-> dev.junk, is_msix |-> dev.junk]
      BY <1>9 DEF msix_init, cap
    <2> HIDE DEF c
    <2> QED BY <1>2, <1>9, <2>1 DEF Rearmed, MaskKind, UnmaskedAt, MaskedAt, Signals, c
  <1> QED BY <1>4, <1>5, <1>6, <1>7, <1>8, <1>9

-----------------------------------------------------------------------------

MapEntries == [array : Nat, index : Nat]
PciGroups == {[dev |-> dev, cap |-> msix_init(dev)] : dev \in PciDevices}
AttachEntries == [irq : Nat, entry : Nat, group : Nat, kind : {"msix", "msi", "msi_legacy", "regular"},
                  devs : Seq(Nat), count : Nat]

IrqTypeOK ==
  /\ irqGroups.gen \in Nat /\ irqGroups.groups \in Seq(PciGroups)
  /\ irqGroups.map \in Seq(MapEntries)
  /\ irqAttach \in Seq(AttachEntries)
  /\ requests \in Seq(Nat) /\ attaching \in Nat /\ refused \in BOOLEAN

\* The interrupts of request r.
Wanted(r) == irqGroups.groups[requests[r]].dev.irqs

\* A request is for a group there is; the one under way is at one of its interrupts.
RequestsKnown ==
  /\ \A r \in DOMAIN requests : requests[r] \in DOMAIN irqGroups.groups
  /\ attaching > 0 => requests # <<>> /\ attaching \in DOMAIN Wanted(Len(requests)) /\ ~refused

\* An entry is masked as its group is; a channel is in it once, and only if its request has
\* got there.
EntryOK(e, gs, reqs, a, ref) ==
  /\ e.group \in DOMAIN gs /\ e.kind = MaskKind(gs[e.group].cap)
  /\ Len(e.devs) < MAX_HANDLERS /\ (~ref => e.count = Len(e.devs))
  /\ \A h \in DOMAIN e.devs : e.devs[h] \in DOMAIN reqs
  /\ \A h, m \in DOMAIN e.devs : e.devs[m] = e.devs[h] => m = h
  /\ \A h \in DOMAIN e.devs : e.devs[h] = Len(reqs) /\ a > 0 =>
       \E i \in 1 .. a - 1 : gs[reqs[Len(reqs)]].dev.irqs[i] = e.irq

EntrySound(e) == EntryOK(e, irqGroups.groups, requests, attaching, refused)

\* There is one entry for an interrupt.
AttachSound ==
  /\ \A j, k \in DOMAIN irqAttach : irqAttach[j].irq = irqAttach[k].irq => j = k
  /\ Len(irqAttach) <= MAX_ATTACH
  /\ \A k \in DOMAIN irqAttach : EntrySound(irqAttach[k])

\* What a request has got to is attached.
AttachComplete ==
  ~refused => \A r \in DOMAIN requests : \A i \in DOMAIN Wanted(r) :
    r < Len(requests) \/ attaching = 0 \/ i < attaching =>
      \E k \in DOMAIN irqAttach : irqAttach[k].irq = Wanted(r)[i]
        /\ \E h \in DOMAIN irqAttach[k].devs : irqAttach[k].devs[h] = r

MapSound == Mapped(irqGroups.gen, irqGroups.map, irqGroups.groups)

IrqInv == IrqTypeOK /\ MapSound /\ RequestsKnown /\ AttachSound /\ AttachComplete

-----------------------------------------------------------------------------

\* What PciAssumption says of a group.
LEMMA PciGroupFacts ==
  ASSUME NEW g \in PciGroups
  PROVE  /\ g.dev \in PciDevices /\ g.cap = msix_init(g.dev)
         /\ g.dev.irqs \in Seq(Nat) /\ Len(g.dev.irqs) > 0 /\ Len(g.dev.irqs) \in Nat
         /\ DOMAIN g.dev.irqs = 1 .. Len(g.dev.irqs) /\ Range(g.dev.irqs) \subseteq Nat
         /\ \A i, j \in 1 .. Len(g.dev.irqs) : g.dev.irqs[i] = g.dev.irqs[j] => i = j
  <1>1. PICK dev \in PciDevices : g = [dev |-> dev, cap |-> msix_init(dev)]
    BY DEF PciGroups
  <1>2. dev.irqs \in Seq(Nat) /\ dev.irqs # <<>> /\ IsInjective(dev.irqs)
    BY PciAssumption
  <1> QED BY <1>1, <1>2 DEF Range, IsInjective

\* What irq_group_add makes of the map when there are n groups in array gen.
MapAdded(gen, map, map1, n, irqs) ==
  /\ DOMAIN map \subseteq DOMAIN map1
  /\ \A irq \in Range(irqs) : irq + 1 \in DOMAIN map1
  /\ \A i \in DOMAIN map1 :
       /\ i - 1 \in Range(irqs) => map1[i] # NoGroup /\ map1[i].array = gen + 1 /\ map1[i].index = n + 1
       /\ i - 1 \notin Range(irqs) /\ i \notin DOMAIN map => map1[i] = NoGroup
       /\ i - 1 \notin Range(irqs) /\ i \in DOMAIN map =>
            IF map[i] # NoGroup /\ map[i].array = gen
            THEN map1[i] # NoGroup /\ map1[i].array = gen + 1 /\ map1[i].index = map[i].index
            ELSE map1[i] = map[i]

\* An entry of the map that is redirected stays an entry.
LEMMA Rearranged ==
  ASSUME NEW e \in MapEntries, NEW a \in Nat
  PROVE  LET f == [e EXCEPT !.array = a]
         IN  f \in MapEntries /\ f.array = a /\ f.index = e.index
  BY DEF MapEntries

\* irq_group_add appends the group, in a new array, and makes the map as MapAdded says.
LEMMA GroupAddFacts ==
  ASSUME IrqTypeOK, NEW dev \in PciDevices, irq_group_add(dev)
  PROVE  /\ irqGroups'.gen = irqGroups.gen + 1
         /\ irqGroups'.groups = Append(irqGroups.groups, [dev |-> dev, cap |-> msix_init(dev)])
         /\ irqGroups'.map \in Seq(MapEntries)
         /\ MapAdded(irqGroups.gen, irqGroups.map, irqGroups'.map, Len(irqGroups.groups), dev.irqs)
  <1> DEFINE gs == Append(irqGroups.groups, [dev |-> dev, cap |-> msix_init(dev)])
             gen == irqGroups.gen
             old == irqGroups.map
             Redirect(e) == IF e # NoGroup /\ e.array = gen THEN [e EXCEPT !.array = gen + 1] ELSE e
             map == [i \in 1 .. Len(old) |-> Redirect(old[i])]
             irqs == dev.irqs
  <1>1. PICK top \in Range(irqs) :
          /\ \A i \in Range(irqs) : i <= top
          /\ irqGroups' = irq_to_group_add(NewGroups(dev, map), irqs, top)
    BY DEF irq_group_add
  <1>2. irqs \in Seq(Nat) /\ Range(irqs) \subseteq Nat
    BY PciAssumption DEF Range
  <1>3. /\ old \in Seq(MapEntries) /\ gen \in Nat /\ Len(old) \in Nat /\ Len(map) = Len(old)
        /\ DOMAIN old = 1 .. Len(old)
    BY DEF IrqTypeOK
  <1> DEFINE size == IF Len(old) < top + 1 THEN top + 1 ELSE Len(old)
             entry(i) == IF i - 1 \in Range(irqs) THEN [array |-> gen + 1, index |-> Len(gs)]
                         ELSE IF i <= Len(old) THEN map[i] ELSE NoGroup
             new == [i \in 1 .. size |-> entry(i)]
  <1>4. irqGroups' = [gen |-> gen + 1, map |-> new, groups |-> gs]
    <2> HIDE DEF gs, map
    <2> QED BY <1>1, <1>3 DEF irq_to_group_add, NewGroups, gs
  <1>5. Len(gs) = Len(irqGroups.groups) + 1 /\ Len(irqGroups.groups) \in Nat
    BY DEF IrqTypeOK
  <1>6. \A i \in 1 .. Len(old) : map[i] = Redirect(old[i]) /\ old[i] \in MapEntries
    BY <1>3
  <1> HIDE DEF gen, old, map, gs
  <1>7. \A e \in MapEntries :
          /\ Redirect(e) \in MapEntries
          /\ IF e # NoGroup /\ e.array = gen
             THEN /\ Redirect(e) # NoGroup
                                /\ Redirect(e).array = gen + 1 /\ Redirect(e).index = e.index
             ELSE Redirect(e) = e
    <2> SUFFICES ASSUME NEW e \in MapEntries
                 PROVE  /\ Redirect(e) \in MapEntries
                        /\ IF e # NoGroup /\ e.array = gen
                           THEN /\ Redirect(e) # NoGroup
                                /\ Redirect(e).array = gen + 1 /\ Redirect(e).index = e.index
                           ELSE Redirect(e) = e
      OBVIOUS
    <2>1. CASE e # NoGroup /\ e.array = gen
      <3> DEFINE f == [e EXCEPT !.array = gen + 1]
      <3>1. Redirect(e) = f
        BY <2>1
      <3>2. f \in MapEntries /\ f.array = gen + 1 /\ f.index = e.index
        <4>1. gen + 1 \in Nat
          BY <1>3
        <4> QED BY <4>1, Rearranged
      <3> HIDE DEF f, Redirect
      <3>3. f # NoGroup
        BY <1>3, <3>2 DEF NoGroup
      <3> QED BY <2>1, <3>1, <3>2, <3>3
    <2>2. CASE ~(e # NoGroup /\ e.array = gen)
      <3>1. Redirect(e) = e
        BY <2>2
      <3> HIDE DEF Redirect
      <3> QED BY <2>2, <3>1
    <2> QED BY <2>1, <2>2
  <1>8. /\ size \in Nat /\ Len(old) <= size /\ \A irq \in Range(irqs) : irq + 1 \in 1 .. size
        /\ \A i \in 1 .. Len(old) : i \in 1 .. size
    BY <1>1, <1>2, <1>3
  <1> HIDE DEF Redirect, size
  <1>9. \A i \in 1 .. size : entry(i) \in MapEntries
    <2>1. NoGroup \in MapEntries /\ [array |-> gen + 1, index |-> Len(gs)] \in MapEntries
      BY <1>3, <1>5 DEF NoGroup, MapEntries
    <2> QED BY <1>3, <1>6, <1>7, <1>8, <2>1
  <1>10. ASSUME NEW i \in 1 .. size
         PROVE  /\ i - 1 \in Range(irqs) =>
                     /\ entry(i) # NoGroup /\ entry(i).array = gen + 1
                     /\ entry(i).index = Len(irqGroups.groups) + 1
                /\ i - 1 \notin Range(irqs) /\ i \notin DOMAIN old => entry(i) = NoGroup
                /\ i - 1 \notin Range(irqs) /\ i \in DOMAIN old =>
                     IF old[i] # NoGroup /\ old[i].array = gen
                     THEN entry(i) # NoGroup /\ entry(i).array = gen + 1 /\ entry(i).index = old[i].index
                     ELSE entry(i) = old[i]
    <2>1. CASE i - 1 \in Range(irqs)
      BY <1>3, <1>5, <2>1 DEF NoGroup
    <2>2. CASE i - 1 \notin Range(irqs) /\ i \notin DOMAIN old
      BY <1>3, <1>8, <2>2
    <2>3. CASE i - 1 \notin Range(irqs) /\ i \in DOMAIN old
      <3>1. i \in 1 .. Len(old) /\ entry(i) = Redirect(old[i])
        BY <1>3, <1>6, <2>3
      <3> HIDE DEF entry
      <3> QED BY <1>6, <1>7, <2>3, <3>1
    <2> QED BY <2>1, <2>2, <2>3
  <1> HIDE DEF entry
  <1>11. /\ new \in Seq(MapEntries) /\ DOMAIN new = 1 .. size
         /\ \A i \in 1 .. size : new[i] = entry(i)
    BY <1>8, <1>9
  <1> HIDE DEF new
  <1>12. MapAdded(gen, old, new, Len(irqGroups.groups), irqs)
    BY <1>3, <1>8, <1>10, <1>11 DEF MapAdded
  <1> QED BY <1>4, <1>11, <1>12 DEF gs, gen, old

\* A map that was right stays right: what pointed into the old array points into the new
\* one, and the interrupts of the new group to it.
LEMMA MapStep ==
  ASSUME NEW gen \in Nat, NEW map, NEW map1, NEW gs, NEW gs1, NEW dev,
         NEW n \in Nat, DOMAIN gs = 1 .. n, DOMAIN gs1 = 1 .. n + 1,
         \A m \in 1 .. n : gs1[m] = gs[m], gs1[n + 1].dev = dev,
         \A m \in 1 .. n + 1 : Range(gs1[m].dev.irqs) \subseteq Nat,
         Mapped(gen, map, gs), MapAdded(gen, map, map1, n, dev.irqs)
  PROVE  Mapped(gen + 1, map1, gs1)
  <1>0. /\ \A m \in 1 .. n + 1 : m = n + 1 \/ m \in 1 .. n
        /\ \A m \in 1 .. n : m \in 1 .. n + 1 /\ m <= n + 1
        /\ n + 1 \in 1 .. n + 1 /\ n + 1 <= n + 1
    OBVIOUS
  <1>1. ASSUME NEW i \in DOMAIN map1, map1[i] # NoGroup
        PROVE  /\ map1[i].array = gen + 1
               /\ map1[i].index \in DOMAIN gs1
               /\ i - 1 \in Range(gs1[map1[i].index].dev.irqs)
               /\ \A m \in DOMAIN gs1 : i - 1 \in Range(gs1[m].dev.irqs) => m <= map1[i].index
    <2>1. CASE i - 1 \in Range(dev.irqs)
      <3>1. map1[i].array = gen + 1 /\ map1[i].index = n + 1
        BY <2>1 DEF MapAdded
      <3> QED BY <1>0, <2>1, <3>1
    <2>2. CASE i - 1 \notin Range(dev.irqs)
      <3>1. i \in DOMAIN map /\ map[i] # NoGroup
        BY <1>1, <2>2 DEF MapAdded
      <3>2. /\ map[i].array = gen /\ map[i].index \in 1 .. n
            /\ i - 1 \in Range(gs[map[i].index].dev.irqs)
            /\ \A m \in 1 .. n : i - 1 \in Range(gs[m].dev.irqs) => m <= map[i].index
        BY <3>1 DEF Mapped
      <3>3. map1[i].array = gen + 1 /\ map1[i].index = map[i].index
        BY <2>2, <3>1, <3>2 DEF MapAdded
      <3> QED BY <1>0, <2>2, <3>2, <3>3
    <2> QED BY <2>1, <2>2
  <1>2. ASSUME NEW m \in DOMAIN gs1, NEW irq \in Range(gs1[m].dev.irqs)
        PROVE  irq + 1 \in DOMAIN map1 /\ map1[irq + 1] # NoGroup
    <2>1. irq \in Nat /\ (irq + 1) - 1 = irq
      OBVIOUS
    <2>2. CASE irq \in Range(dev.irqs)
      <3>1. irq + 1 \in DOMAIN map1
        BY <2>2 DEF MapAdded
      <3> QED BY <2>1, <2>2, <3>1 DEF MapAdded
    <2>3. CASE irq \notin Range(dev.irqs)
      <3>1. m \in 1 .. n /\ gs1[m] = gs[m]
        BY <1>0, <1>2, <2>3
      <3>2. irq + 1 \in DOMAIN map /\ map[irq + 1] # NoGroup
        BY <1>2, <3>1 DEF Mapped
      <3>3. map[irq + 1].array = gen /\ irq + 1 \in DOMAIN map1
        BY <3>2 DEF Mapped, MapAdded
      <3> QED BY <2>1, <2>3, <3>2, <3>3 DEF MapAdded
    <2> QED BY <2>2, <2>3
  <1> QED BY <1>1, <1>2 DEF Mapped

\* Enabling another device keeps IrqInv.
LEMMA EnableInv ==
  ASSUME IrqInv, NEW dev \in PciDevices, EnableIrqs(dev)
  PROVE  IrqInv'
  <1> DEFINE gs == irqGroups.groups
             gs1 == irqGroups'.groups
             new == [dev |-> dev, cap |-> msix_init(dev)]
  <1>1. IrqTypeOK /\ MapSound /\ RequestsKnown /\ AttachSound /\ AttachComplete
    BY DEF IrqInv
  <1>2. /\ irqGroups'.gen = irqGroups.gen + 1 /\ gs1 = Append(gs, new)
        /\ irqGroups'.map \in Seq(MapEntries)
        /\ MapAdded(irqGroups.gen, irqGroups.map, irqGroups'.map, Len(gs), dev.irqs)
    BY <1>1, GroupAddFacts DEF EnableIrqs
  <1>3. /\ irqAttach' = irqAttach /\ requests' = requests /\ attaching' = attaching
        /\ refused' = refused /\ attaching = 0
    BY DEF EnableIrqs
  <1>4. /\ gs \in Seq(PciGroups) /\ new \in PciGroups
    BY <1>1 DEF IrqTypeOK, PciGroups
  <1> HIDE DEF new
  <1>5. /\ gs1 \in Seq(PciGroups) /\ Len(gs1) = Len(gs) + 1 /\ Len(gs) \in Nat
        /\ DOMAIN gs = 1 .. Len(gs) /\ DOMAIN gs1 = 1 .. Len(gs) + 1
        /\ \A n \in DOMAIN gs : n \in DOMAIN gs1 /\ gs1[n] = gs[n]
        /\ gs1[Len(gs) + 1] = new
    BY <1>2, <1>4
  <1>6. IrqTypeOK'
    BY <1>1, <1>2, <1>3, <1>5 DEF IrqTypeOK
  <1>7. \A r \in DOMAIN requests : requests[r] \in DOMAIN gs /\ Wanted(r)' = Wanted(r)
    BY <1>1, <1>3, <1>5 DEF RequestsKnown, Wanted
  <1>8. RequestsKnown'
    BY <1>3, <1>5, <1>7 DEF RequestsKnown
  <1>9. AttachSound'
    BY <1>1, <1>3, <1>5 DEF AttachSound, EntrySound, EntryOK
  <1>10. AttachComplete'
    BY <1>1, <1>3, <1>7 DEF AttachComplete
  <1>11. MapSound'
    <2>1. irqGroups.gen \in Nat /\ new.dev = dev
      BY <1>1 DEF IrqTypeOK, new
    <2>2. \A m \in 1 .. Len(gs) + 1 : Range(gs1[m].dev.irqs) \subseteq Nat
      BY <1>5, PciGroupFacts
    <2>3. Mapped(irqGroups.gen, irqGroups.map, gs)
      BY <1>1 DEF MapSound
    <2>4. Mapped(irqGroups.gen + 1, irqGroups'.map, gs1)
      <3> DEFINE n == Len(gs)
                 gen == irqGroups.gen
                 map == irqGroups.map
                 map1 == irqGroups'.map
      <3>1. /\ n \in Nat /\ DOMAIN gs = 1 .. n /\ DOMAIN gs1 = 1 .. n + 1 /\ gs1[n + 1].dev = dev
            /\ \A m \in 1 .. n : gs1[m] = gs[m]
        BY <1>5, <2>1
      <3>2. gen \in Nat /\ Mapped(gen, map, gs) /\ MapAdded(gen, map, map1, n, dev.irqs)
        BY <1>2, <2>1, <2>3
      <3>3. \A m \in 1 .. n + 1 : Range(gs1[m].dev.irqs) \subseteq Nat
        BY <2>2
      <3> HIDE DEF gs, gs1, n, gen, map, map1
      <3>4. Mapped(gen + 1, map1, gs1)
        BY ONLY <3>1, <3>2, <3>3, MapStep
      <3> QED BY <3>4 DEF gen, map1
    <2> QED BY <1>2, <2>4 DEF MapSound
  <1> QED BY <1>6, <1>8, <1>9, <1>10, <1>11 DEF IrqInv

\* Nothing is attached at the start.
LEMMA IrqInitInv ==
  ASSUME IrqInit
  PROVE  IrqInv
  <1>1. irqGroups = [gen |-> 0, groups |-> <<>>, map |-> <<>>] /\ irqAttach = <<>> /\ requests = <<>>
        /\ attaching = 0 /\ refused = FALSE
    BY DEF IrqInit
  <1>2. IrqTypeOK
    <2>1. /\ <<>> \in Seq(PciGroups) /\ <<>> \in Seq(MapEntries)
          /\ <<>> \in Seq(AttachEntries) /\ <<>> \in Seq(Nat)
      OBVIOUS
    <2>2. irqGroups.gen = 0 /\ irqGroups.groups = <<>> /\ irqGroups.map = <<>>
      BY <1>1
    <2> QED BY <1>1, <2>1, <2>2 DEF IrqTypeOK
  <1>3. MapSound
    BY <1>1 DEF MapSound, Mapped
  <1>4. RequestsKnown
    BY <1>1 DEF RequestsKnown
  <1>5. AttachSound
    BY <1>1, PciAssumption DEF AttachSound
  <1>6. AttachComplete
    BY <1>1 DEF AttachComplete
  <1> QED BY <1>2, <1>3, <1>4, <1>5, <1>6 DEF IrqInv

\* The request under way, where there is one.
Current == requests[Len(requests)]

\* The request under way is for a group there is, and at one of its interrupts.
LEMMA CurrentFacts ==
  ASSUME IrqTypeOK, RequestsKnown, attaching > 0
  PROVE  /\ Len(requests) \in DOMAIN requests /\ Current \in DOMAIN irqGroups.groups
         /\ Group \in PciGroups /\ Group.dev.irqs = Wanted(Len(requests))
         /\ attaching \in 1 .. Len(Group.dev.irqs) /\ ~refused
         /\ Current \in Nat /\ Len(requests) \in Nat /\ DOMAIN requests = 1 .. Len(requests)
  <1>1. /\ requests \in Seq(Nat) /\ requests # <<>> /\ irqGroups.groups \in Seq(PciGroups) /\ ~refused
        /\ attaching \in DOMAIN Wanted(Len(requests))
    BY DEF IrqTypeOK, RequestsKnown
  <1>2. Len(requests) \in DOMAIN requests /\ Len(requests) \in Nat /\ DOMAIN requests = 1 .. Len(requests)
    BY <1>1
  <1>3. Current \in DOMAIN irqGroups.groups /\ Current \in Nat
    BY <1>1, <1>2 DEF RequestsKnown, Current
  <1>4. Group \in PciGroups /\ Group.dev.irqs = Wanted(Len(requests))
    BY <1>1, <1>3 DEF Group, Wanted, Current
  <1>5. DOMAIN Group.dev.irqs = 1 .. Len(Group.dev.irqs)
    BY <1>4, PciGroupFacts
  <1> QED BY <1>1, <1>2, <1>3, <1>4, <1>5

\* A request finds its group in the map: RequestIrq keeps IrqInv.
LEMMA RequestInv ==
  ASSUME IrqInv, RequestIrq
  PROVE  IrqInv'
  <1> DEFINE gs == irqGroups.groups
             irq == LastIrq
             n == irqGroups.map[irq + 1].index
             len == Len(requests)
  <1>1. IrqTypeOK /\ MapSound /\ RequestsKnown /\ AttachSound /\ AttachComplete
    BY DEF IrqInv
  <1>2. /\ attaching = 0 /\ ~refused /\ gs # <<>> /\ requests' = Append(requests, n) /\ attaching' = 1
        /\ irqGroups' = irqGroups /\ irqAttach' = irqAttach /\ refused' = refused
    BY DEF RequestIrq
  <1>3. gs \in Seq(PciGroups) /\ Len(gs) \in DOMAIN gs /\ gs[Len(gs)] \in PciGroups
    BY <1>1, <1>2 DEF IrqTypeOK
  <1>4. irq \in Range(gs[Len(gs)].dev.irqs)
    <2>1. 1 \in DOMAIN gs[Len(gs)].dev.irqs
      BY <1>3, PciGroupFacts
    <2> QED BY <2>1 DEF LastIrq, Range
  <1>5. irq + 1 \in DOMAIN irqGroups.map /\ n \in DOMAIN gs
    BY <1>1, <1>3, <1>4 DEF MapSound, Mapped
  <1>6. n \in Nat /\ gs[n] \in PciGroups
    BY <1>3, <1>5
  <1> HIDE DEF n
  <1>7. /\ requests \in Seq(Nat) /\ len \in Nat /\ DOMAIN requests = 1 .. len
        /\ requests' \in Seq(Nat) /\ Len(requests') = len + 1 /\ DOMAIN requests' = 1 .. len + 1
        /\ requests'[len + 1] = n /\ \A r \in 1 .. len : requests'[r] = requests[r]
    BY <1>1, <1>2, <1>6 DEF IrqTypeOK
  <1>8. /\ \A r \in 1 .. len : Wanted(r)' = Wanted(r)
        /\ Wanted(Len(requests))' = gs[n].dev.irqs
    BY <1>2, <1>7 DEF Wanted
  <1>9. 1 \in DOMAIN gs[n].dev.irqs
    BY <1>6, PciGroupFacts
  <1>10. IrqTypeOK' /\ MapSound'
    BY <1>1, <1>2, <1>7 DEF IrqTypeOK, MapSound
  <1>11. RequestsKnown'
    <2>1. \A r \in DOMAIN requests' : requests'[r] \in DOMAIN gs
      <3>1. \A r \in 1 .. len : requests[r] \in DOMAIN gs
        BY <1>1, <1>7 DEF RequestsKnown
      <3>2. \A r \in 1 .. len + 1 : r = len + 1 \/ r \in 1 .. len
        BY <1>7
      <3> QED BY <1>5, <1>7, <3>1, <3>2
    <2>2. requests' # <<>> /\ 1 \in DOMAIN Wanted(Len(requests))'
      BY <1>7, <1>8, <1>9
    <2> QED BY <1>2, <2>1, <2>2 DEF RequestsKnown
  <1>12. AttachSound'
    BY <1>1, <1>2, <1>7 DEF AttachSound, EntrySound, EntryOK
  <1>13. AttachComplete'
    <2> SUFFICES ASSUME NEW r \in 1 .. len + 1, NEW i \in DOMAIN Wanted(r)', r < len + 1 \/ i < 1
                 PROVE  \E k \in DOMAIN irqAttach : /\ irqAttach[k].irq = Wanted(r)'[i]
                          /\ \E h \in DOMAIN irqAttach[k].devs : irqAttach[k].devs[h] = r
      BY <1>2, <1>7 DEF AttachComplete
    <2>1. r \in 1 .. len
      <3> SUFFICES ASSUME r = len + 1 PROVE FALSE
        BY <1>7
      <3>1. Wanted(r)' = gs[n].dev.irqs
        BY <1>2, <1>7 DEF Wanted
      <3> QED BY <1>6, <1>7, <3>1, PciGroupFacts
    <2> QED BY <1>1, <1>2, <1>7, <1>8, <2>1 DEF AttachComplete
  <1> QED BY <1>10, <1>11, <1>12, <1>13 DEF IrqInv

\* A full attach table is reported and leaves everything attached as it was.
LEMMA TableFullInv ==
  ASSUME IrqInv, AttachTableFull
  PROVE  IrqInv'
  <1>1. IrqTypeOK /\ MapSound /\ RequestsKnown /\ AttachSound
    BY DEF IrqInv
  <1>2. /\ attaching' = 0 /\ refused' = TRUE /\ irqAttach' = irqAttach
        /\ irqGroups' = irqGroups /\ requests' = requests
    BY DEF AttachTableFull, AttachFails
  <1>3. IrqTypeOK' /\ MapSound' /\ RequestsKnown'
    BY <1>1, <1>2 DEF IrqTypeOK, MapSound, RequestsKnown
  <1>4. AttachSound'
    BY <1>1, <1>2 DEF AttachSound, EntrySound, EntryOK
  <1>5. AttachComplete'
    BY <1>2 DEF AttachComplete
  <1> QED BY <1>3, <1>4, <1>5 DEF IrqInv

\* Once an interrupt is attached the request goes on to the next, or ends after the last.
LEMMA AttachNextFacts ==
  ASSUME IrqTypeOK, RequestsKnown, attaching > 0, AttachNext
  PROVE  /\ irqGroups' = irqGroups /\ requests' = requests /\ refused' = refused /\ ~refused
         /\ attaching' \in Nat /\ RequestsKnown'
         /\ \A r \in DOMAIN requests : Wanted(r)' = Wanted(r)
         /\ attaching' > 0 => attaching' = attaching + 1
         /\ attaching' = 0 => attaching = Len(Wanted(Len(requests)))
  <1> DEFINE irqs == Wanted(Len(requests))
  <1>1. /\ Group \in PciGroups /\ Group.dev.irqs = irqs /\ attaching \in 1 .. Len(irqs) /\ ~refused
        /\ Len(requests) \in DOMAIN requests
    BY CurrentFacts
  <1>2. Len(irqs) \in Nat /\ DOMAIN irqs = 1 .. Len(irqs)
    BY <1>1, PciGroupFacts
  <1>3. /\ irqGroups' = irqGroups /\ requests' = requests /\ refused' = refused
        /\ attaching' = IF attaching = Len(irqs) THEN 0 ELSE attaching + 1
    BY <1>1 DEF AttachNext
  <1>4. \A r \in DOMAIN requests : Wanted(r)' = Wanted(r)
    BY <1>3 DEF Wanted
  <1>5. Wanted(Len(requests))' = irqs
    BY <1>3 DEF Wanted
  <1> HIDE DEF irqs
  <1>6. RequestsKnown'
    <2>1. attaching' > 0 => attaching' \in DOMAIN irqs
      BY <1>1, <1>2, <1>3
    <2>2. requests # <<>>
      BY DEF RequestsKnown
    <2> QED BY <1>1, <1>3, <1>5, <2>1, <2>2 DEF RequestsKnown
  <1>7. /\ attaching' \in Nat /\ (attaching' > 0 => attaching' = attaching + 1)
        /\ (attaching' = 0 => attaching = Len(irqs))
    <2>1. attaching \in Nat /\ attaching > 0
      BY <1>1, <1>2
    <2>2. CASE attaching = Len(irqs)
      BY <1>3, <2>2
    <2>3. CASE attaching # Len(irqs)
      BY <1>3, <2>1, <2>3
    <2> QED BY <2>2, <2>3
  <1> QED BY <1>1, <1>3, <1>4, <1>6, <1>7 DEF irqs

\* The interrupts of a request are those of its group, counted from 1.
LEMMA WantedNat ==
  ASSUME IrqTypeOK, RequestsKnown, NEW r \in DOMAIN requests
  PROVE  /\ irqGroups.groups[requests[r]] \in PciGroups
         /\ \A i \in DOMAIN Wanted(r) : i \in Nat
  <1>1. irqGroups.groups[requests[r]] \in PciGroups
    BY DEF IrqTypeOK, RequestsKnown
  <1>2. DOMAIN Wanted(r) = 1 .. Len(Wanted(r)) /\ Len(Wanted(r)) \in Nat
    BY <1>1, PciGroupFacts DEF Wanted
  <1> QED BY <1>1, <1>2

\* What the request has got to after a step it had got to before, except the interrupt just
\* attached.
LEMMA Advanced ==
  ASSUME NEW R \in Nat, NEW r \in 1 .. R, NEW n \in Nat, NEW i \in Nat, NEW a \in 1 .. n, NEW a1 \in Nat,
         a1 > 0 => a1 = a + 1, a1 = 0 => a = n, r = R => i <= n,
         r < R \/ a1 = 0 \/ i < a1, ~(r = R /\ i = a)
  PROVE  r < R \/ i < a
  OBVIOUS

\* An entry that the step does not touch stays sound.
LEMMA EntryKept ==
  ASSUME NEW e, NEW gs, NEW reqs, NEW ref, NEW a \in Nat, NEW a1 \in Nat, a > 0, a1 > 0 => a1 = a + 1,
         EntryOK(e, gs, reqs, a, ref)
  PROVE  EntryOK(e, gs, reqs, a1, ref)
  <1>1. \A i \in 1 .. a - 1 : a1 > 0 => i \in 1 .. a1 - 1
    OBVIOUS
  <1> QED BY <1>1 DEF EntryOK

\* Entry e1 is e with channel R, which it did not have, as another handler.
Grown(e, e1, n, R) ==
  /\ e1.irq = e.irq /\ e1.group = e.group /\ e1.kind = e.kind /\ e1.count = e.count + 1
  /\ Len(e.devs) = n /\ DOMAIN e.devs = 1 .. n /\ Len(e1.devs) = n + 1 /\ DOMAIN e1.devs = 1 .. n + 1
  /\ e1.devs[n + 1] = R /\ \A h \in 1 .. n : e1.devs[h] = e.devs[h] /\ e.devs[h] # R
  /\ e.count + 1 < MAX_HANDLERS

\* An entry that gets the channel of the request as another handler stays sound.
LEMMA EntryGrown ==
  ASSUME NEW e, NEW e1, NEW gs, NEW reqs, NEW R \in Nat, NEW n \in Nat, NEW a \in Nat, NEW a1 \in Nat,
         R = Len(reqs), DOMAIN reqs = 1 .. R, R > 0, a > 0, a1 > 0 => a1 = a + 1,
         Grown(e, e1, n, R), gs[reqs[R]].dev.irqs[a] = e.irq,
         EntryOK(e, gs, reqs, a, FALSE)
  PROVE  EntryOK(e1, gs, reqs, a1, FALSE)
  <1>1. \A m \in 1 .. n + 1 : m = n + 1 \/ m \in 1 .. n
    OBVIOUS
  <1>2. e.count = n
    BY DEF EntryOK, Grown
  <1>3. /\ \A h \in 1 .. n : e.devs[h] \in DOMAIN reqs
        /\ \A h, m \in 1 .. n : e.devs[m] = e.devs[h] => m = h
    BY DEF EntryOK, Grown
  <1>4. \A h \in 1 .. n + 1 : e1.devs[h] \in DOMAIN reqs
    <2>1. R \in DOMAIN reqs
      OBVIOUS
    <2> QED BY <1>1, <1>3, <2>1 DEF Grown
  <1>5. \A h, m \in 1 .. n + 1 : e1.devs[m] = e1.devs[h] => m = h
    <2>1. e1.devs[n + 1] = R /\ \A h \in 1 .. n : e1.devs[h] = e.devs[h] /\ e.devs[h] # R
      BY DEF Grown
    <2> QED BY <1>1, <1>3, <2>1
  <1>6. a1 > 0 => a \in 1 .. a1 - 1
    OBVIOUS
  <1>7. e1.group \in DOMAIN gs /\ e1.kind = MaskKind(gs[e1.group].cap)
    BY DEF EntryOK, Grown
  <1> QED BY <1>2, <1>4, <1>5, <1>6, <1>7 DEF EntryOK, Grown

\* A first handler of an interrupt keeps IrqInv.
LEMMA AttachNewInv ==
  ASSUME IrqInv, AttachNew
  PROVE  IrqInv'
  <1> DEFINE R == Len(requests)
             irqs == Wanted(R)
             len == Len(irqAttach)
             new == [irq |-> Irq, entry |-> attaching - 1, group |-> Current,
                     kind |-> MaskKind(Group.cap), devs |-> <<R>>, count |-> 1]
  <1>1. IrqTypeOK /\ MapSound /\ RequestsKnown /\ AttachSound /\ AttachComplete
    BY DEF IrqInv
  <1>2. /\ attaching > 0 /\ len # MAX_ATTACH /\ AttachNext /\ irqAttach' = Append(irqAttach, new)
        /\ \A k \in DOMAIN irqAttach : irqAttach[k].irq # Irq
    BY DEF AttachNew, NewEntry, Current
  <1>3. /\ Current \in DOMAIN irqGroups.groups /\ Group = irqGroups.groups[Current]
        /\ Group \in PciGroups /\ Group.dev.irqs = irqs /\ attaching \in 1 .. Len(irqs) /\ ~refused
        /\ R \in DOMAIN requests /\ Current \in Nat /\ R \in Nat /\ DOMAIN requests = 1 .. R
    BY <1>1, <1>2, CurrentFacts DEF Group, Current
  <1>4. /\ irqGroups' = irqGroups /\ requests' = requests /\ refused' = refused
        /\ attaching' \in Nat /\ RequestsKnown' /\ \A r \in DOMAIN requests : Wanted(r)' = Wanted(r)
        /\ attaching' > 0 => attaching' = attaching + 1
        /\ attaching' = 0 => attaching = Len(irqs)
    BY <1>1, <1>2, AttachNextFacts
  <1>5. Irq = irqs[attaching] /\ Irq \in Nat /\ DOMAIN irqs = 1 .. Len(irqs) /\ Len(irqs) \in Nat
    BY <1>3, PciGroupFacts DEF Irq
  <1>6. new \in AttachEntries
    <2>1. MaskKind(Group.cap) \in {"msix", "msi", "msi_legacy", "regular"}
      BY DEF MaskKind
    <2> QED BY <1>3, <1>5, <2>1 DEF AttachEntries
  <1>7. /\ new.irq = Irq /\ new.group = Current /\ new.kind = MaskKind(Group.cap)
        /\ new.devs = <<R>> /\ new.count = 1
    OBVIOUS
  <1> HIDE DEF new, irqs
  <1>8. /\ irqAttach' \in Seq(AttachEntries) /\ Len(irqAttach') = len + 1 /\ len \in Nat
        /\ DOMAIN irqAttach = 1 .. len /\ DOMAIN irqAttach' = 1 .. len + 1
        /\ irqAttach'[len + 1] = new /\ \A k \in 1 .. len : irqAttach'[k] = irqAttach[k]
    BY <1>1, <1>2, <1>6 DEF IrqTypeOK
  <1>9. IrqTypeOK' /\ MapSound'
    BY <1>1, <1>4, <1>8 DEF IrqTypeOK, MapSound
  <1>10. AttachSound'
    <2>1. \A j, k \in DOMAIN irqAttach' : irqAttach'[j].irq = irqAttach'[k].irq => j = k
      BY <1>1, <1>2, <1>7, <1>8 DEF AttachSound
    <2>2. Len(irqAttach') <= MAX_ATTACH
      <3>1. len <= MAX_ATTACH /\ MAX_ATTACH \in Nat
        BY <1>1, PciAssumption DEF AttachSound
      <3> HIDE DEF len
      <3> QED BY ONLY <1>2, <1>8, <3>1
    <2>3. ASSUME NEW k \in 1 .. len PROVE EntrySound(irqAttach[k])'
      <3> DEFINE f == irqAttach[k]
      <3>1. EntryOK(f, irqGroups.groups, requests, attaching, refused) /\ irqAttach'[k] = f
        BY <1>1, <1>8 DEF AttachSound, EntrySound
      <3> HIDE DEF f
      <3>2. EntryOK(f, irqGroups.groups, requests, attaching', refused)
        BY <1>3, <1>4, <3>1, EntryKept
      <3> QED BY <1>4, <3>1, <3>2 DEF EntrySound
    <2>4. EntrySound(irqAttach[Len(irqAttach)])'
      <3>1. /\ irqAttach[Len(irqAttach)]' = new /\ 1 < MAX_HANDLERS
            /\ Len(<<R>>) = 1 /\ DOMAIN <<R>> = {1} /\ <<R>>[1] = R
        BY <1>8, PciAssumption
      <3>2. attaching' > 0 => attaching \in 1 .. attaching' - 1
        BY <1>3, <1>4
      <3>3. irqGroups.groups[requests[R]].dev.irqs = irqs
        BY DEF Wanted, irqs
      <3>4. \A h \in DOMAIN new.devs : h = 1 /\ new.devs[h] = R
        BY <1>7, <3>1
      <3>5. EntryOK(new, irqGroups.groups, requests, attaching', refused)
        BY <1>3, <1>5, <1>7, <3>1, <3>2, <3>3, <3>4 DEF EntryOK
      <3> QED BY <1>4, <3>1, <3>5 DEF EntrySound
    <2>5. \A k \in DOMAIN irqAttach' : EntrySound(irqAttach[k])'
      BY <1>8, <2>3, <2>4
    <2> QED BY <2>1, <2>2, <2>5 DEF AttachSound
  <1>11. AttachComplete'
    <2> SUFFICES ASSUME NEW r \in DOMAIN requests, NEW i \in DOMAIN Wanted(r),
                        r < R \/ attaching' = 0 \/ i < attaching'
                 PROVE  \E k \in DOMAIN irqAttach' : /\ irqAttach'[k].irq = Wanted(r)[i]
                          /\ \E h \in DOMAIN irqAttach'[k].devs : irqAttach'[k].devs[h] = r
      BY <1>3, <1>4 DEF AttachComplete
    <2>1. CASE r = R /\ i = attaching
      <3>1. /\ len + 1 \in DOMAIN irqAttach' /\ irqAttach'[len + 1].irq = Wanted(r)[i]
            /\ 1 \in DOMAIN irqAttach'[len + 1].devs /\ irqAttach'[len + 1].devs[1] = r
        BY <1>5, <1>7, <1>8, <2>1 DEF irqs
      <3> QED BY <3>1
    <2>2. CASE ~(r = R /\ i = attaching)
      <3>1. r < R \/ i < attaching
        <4>1. i \in Nat /\ (r = R => i <= Len(irqs))
          BY <1>1, <1>3, <1>5, WantedNat DEF irqs
        <4> QED BY <1>3, <1>4, <1>5, <2>2, <4>1, Advanced
      <3>2. PICK k \in DOMAIN irqAttach : /\ irqAttach[k].irq = Wanted(r)[i]
                          /\ \E h \in DOMAIN irqAttach[k].devs : irqAttach[k].devs[h] = r
        BY <1>1, <1>3, <3>1 DEF AttachComplete
      <3> QED BY <1>8, <3>2
    <2> QED BY <2>1, <2>2
  <1> QED BY <1>4, <1>9, <1>10, <1>11 DEF IrqInv

\* An interrupt that could not be attached leaves its entry, which keeps IrqInv: the program
\* stops.
LEMMA AttachRejectedInv ==
  ASSUME IrqInv, AttachRejected
  PROVE  IrqInv'
  <1> DEFINE R == Len(requests)
             len == Len(irqAttach)
             new == [irq |-> Irq, entry |-> attaching - 1, group |-> Current,
                     kind |-> MaskKind(Group.cap), devs |-> <<R>>, count |-> 1]
  <1>1. IrqTypeOK /\ MapSound /\ RequestsKnown /\ AttachSound
    BY DEF IrqInv
  <1>2. /\ attaching > 0 /\ len # MAX_ATTACH /\ irqAttach' = Append(irqAttach, new)
        /\ \A k \in DOMAIN irqAttach : irqAttach[k].irq # Irq
    BY DEF AttachRejected, NewEntry, Current
  <1>3. attaching' = 0 /\ refused' = TRUE /\ irqGroups' = irqGroups /\ requests' = requests
    BY DEF AttachRejected, AttachFails
  <1>4. /\ Current \in DOMAIN irqGroups.groups /\ Group = irqGroups.groups[Current]
        /\ Group \in PciGroups /\ attaching \in 1 .. Len(Group.dev.irqs)
        /\ R \in DOMAIN requests /\ Current \in Nat /\ R \in Nat
    BY <1>1, <1>2, CurrentFacts DEF Group, Current
  <1>5. Irq \in Nat
    <2> DEFINE irqs == Group.dev.irqs
    <2>1. irqs \in Seq(Nat) /\ attaching \in 1 .. Len(irqs) /\ Irq = irqs[attaching]
      BY <1>4, PciGroupFacts DEF Irq
    <2> HIDE DEF irqs
    <2> QED BY <2>1
  <1>6. new \in AttachEntries
    <2>1. MaskKind(Group.cap) \in {"msix", "msi", "msi_legacy", "regular"}
      BY DEF MaskKind
    <2> DEFINE i == attaching - 1
               kind == MaskKind(Group.cap)
               devs == <<R>>
    <2>2. i \in Nat /\ devs \in Seq(Nat)
      BY <1>4
    <2> HIDE DEF i, kind, devs
    <2>3. [irq |-> Irq, entry |-> i, group |-> Current, kind |-> kind, devs |-> devs, count |-> 1]
            \in AttachEntries
      BY <1>4, <1>5, <2>1, <2>2 DEF AttachEntries, kind
    <2> QED BY <2>3 DEF i, kind, devs
  <1>7. new.irq = Irq /\ new.group = Current /\ new.kind = MaskKind(Group.cap) /\ new.devs = <<R>>
    OBVIOUS
  <1> HIDE DEF new
  <1>8. /\ irqAttach' \in Seq(AttachEntries) /\ Len(irqAttach') = len + 1 /\ len \in Nat
        /\ DOMAIN irqAttach = 1 .. len /\ DOMAIN irqAttach' = 1 .. len + 1
        /\ irqAttach'[len + 1] = new /\ \A k \in 1 .. len : irqAttach'[k] = irqAttach[k]
    BY <1>1, <1>2, <1>6 DEF IrqTypeOK
  <1>9. IrqTypeOK' /\ MapSound' /\ RequestsKnown'
    BY <1>1, <1>3, <1>8 DEF IrqTypeOK, MapSound, RequestsKnown
  <1>10. AttachSound'
    <2>1. \A j, k \in DOMAIN irqAttach' : irqAttach'[j].irq = irqAttach'[k].irq => j = k
      BY <1>1, <1>2, <1>7, <1>8 DEF AttachSound
    <2>2. Len(irqAttach') <= MAX_ATTACH
      <3>1. len <= MAX_ATTACH /\ MAX_ATTACH \in Nat
        BY <1>1, PciAssumption DEF AttachSound
      <3> HIDE DEF len
      <3> QED BY ONLY <1>2, <1>8, <3>1
    <2>3. ASSUME NEW k \in 1 .. len PROVE EntrySound(irqAttach[k])'
      <3>1. EntrySound(irqAttach[k]) /\ irqAttach'[k] = irqAttach[k]
        BY <1>1, <1>8 DEF AttachSound
      <3>2. EntryOK(irqAttach[k], irqGroups.groups, requests, 0, TRUE)
        BY <3>1 DEF EntrySound, EntryOK
      <3> QED BY <1>3, <3>1, <3>2 DEF EntrySound
    <2>4. EntrySound(irqAttach[Len(irqAttach)])'
      <3>1. /\ irqAttach[Len(irqAttach)]' = new /\ 1 < MAX_HANDLERS
            /\ Len(<<R>>) = 1 /\ DOMAIN <<R>> = {1} /\ <<R>>[1] = R
        BY <1>8, PciAssumption
      <3>2. EntryOK(new, irqGroups.groups, requests, 0, TRUE)
        BY <1>4, <1>7, <3>1 DEF EntryOK
      <3> QED BY <1>3, <3>1, <3>2 DEF EntrySound
    <2>5. \A k \in DOMAIN irqAttach' : EntrySound(irqAttach[k])'
      BY <1>8, <2>3, <2>4
    <2> QED BY <2>1, <2>2, <2>5 DEF AttachSound
  <1>11. AttachComplete'
    BY <1>3 DEF AttachComplete
  <1> QED BY <1>9, <1>10, <1>11 DEF IrqInv

\* Counting a handler changes nothing else of the entry.
LEMMA EntryCounted ==
  ASSUME NEW e \in AttachEntries, NEW c \in Nat
  PROVE  LET e1 == [e EXCEPT !.count = c]
         IN  /\ e1 \in AttachEntries /\ e1.irq = e.irq /\ e1.group = e.group /\ e1.kind = e.kind
             /\ e1.devs = e.devs /\ e1.count = c
  BY DEF AttachEntries

\* Writing a handler changes nothing else of the entry.
LEMMA EntryShared ==
  ASSUME NEW e \in AttachEntries, NEW r \in Nat
  PROVE  LET e1 == [e EXCEPT !.devs = Append(@, r)]
         IN  /\ e1 \in AttachEntries /\ e1.irq = e.irq /\ e1.group = e.group /\ e1.kind = e.kind
             /\ e1.devs = Append(e.devs, r) /\ e1.count = e.count
  <1>1. e.devs \in Seq(Nat) /\ Append(e.devs, r) \in Seq(Nat)
    BY DEF AttachEntries
  <1>2. \A d \in Seq(Nat) : [e EXCEPT !.devs = d] \in AttachEntries
    BY DEF AttachEntries
  <1>3. [e EXCEPT !.devs = Append(e.devs, r)] \in AttachEntries
    BY <1>1, <1>2
  <1> QED BY <1>3 DEF AttachEntries

\* A handler refused because the entry is full is counted, which keeps IrqInv: the
\* program stops.
LEMMA SharedRefusedInv ==
  ASSUME IrqInv, NEW k \in DOMAIN irqAttach, AttachFails,
         irqAttach' = [irqAttach EXCEPT ![k] = [irqAttach[k] EXCEPT !.count = irqAttach[k].count + 1]]
  PROVE  IrqInv'
  <1> DEFINE e == irqAttach[k]
             e1 == [e EXCEPT !.count = e.count + 1]
  <1>1. IrqTypeOK /\ MapSound /\ RequestsKnown /\ AttachSound
    BY DEF IrqInv
  <1>2. attaching' = 0 /\ refused' = TRUE /\ irqGroups' = irqGroups /\ requests' = requests
    BY DEF AttachFails
  <1>3. /\ irqAttach \in Seq(AttachEntries) /\ e \in AttachEntries /\ Len(irqAttach) \in Nat
        /\ DOMAIN irqAttach = 1 .. Len(irqAttach)
    BY <1>1 DEF IrqTypeOK
  <1>4. /\ e1 \in AttachEntries /\ e1.irq = e.irq /\ e1.group = e.group
        /\ e1.kind = e.kind /\ e1.devs = e.devs
    <2>1. e \in AttachEntries
      BY <1>3
    <2> HIDE DEF e
    <2>2. e.count + 1 \in Nat
      BY ONLY <2>1 DEF AttachEntries
    <2> QED BY <2>1, <2>2, EntryCounted
  <1>5. irqAttach' = [irqAttach EXCEPT ![k] = e1]
    OBVIOUS
  <1> HIDE DEF e1
  <1>6. /\ irqAttach' \in Seq(AttachEntries) /\ DOMAIN irqAttach' = DOMAIN irqAttach
        /\ Len(irqAttach') = Len(irqAttach)
        /\ \A j \in DOMAIN irqAttach : irqAttach'[j] = IF j = k THEN e1 ELSE irqAttach[j]
    BY <1>3, <1>4, <1>5
  <1>7. \A j \in DOMAIN irqAttach :
          /\ irqAttach'[j].irq = irqAttach[j].irq /\ irqAttach'[j].group = irqAttach[j].group
          /\ irqAttach'[j].kind = irqAttach[j].kind /\ irqAttach'[j].devs = irqAttach[j].devs
    BY <1>4, <1>6
  <1>8. IrqTypeOK' /\ MapSound' /\ RequestsKnown'
    BY <1>1, <1>2, <1>6 DEF IrqTypeOK, MapSound, RequestsKnown
  <1>9. \A j \in DOMAIN irqAttach : EntrySound(irqAttach[j])'
    BY <1>1, <1>2, <1>7 DEF AttachSound, EntrySound, EntryOK
  <1>10. AttachSound'
    BY <1>1, <1>6, <1>7, <1>9 DEF AttachSound
  <1>11. AttachComplete'
    BY <1>2 DEF AttachComplete
  <1> QED BY <1>8, <1>10, <1>11 DEF IrqInv

\* Another handler of an interrupt keeps IrqInv: the channel is not in the entry yet,
\* because the interrupts of its group are distinct.
LEMMA SharedAttachedInv ==
  ASSUME IrqInv, NEW k \in DOMAIN irqAttach, attaching > 0, irqAttach[k].irq = Irq, AttachNext,
         irqAttach[k].count + 1 < MAX_HANDLERS,
         irqAttach' = [irqAttach EXCEPT ![k] =
           [[irqAttach[k] EXCEPT !.count = irqAttach[k].count + 1] EXCEPT !.devs = Append(@, Len(requests))]]
  PROVE  IrqInv'
  <1> DEFINE R == Len(requests)
             irqs == Wanted(R)
             e == irqAttach[k]
             c == [e EXCEPT !.count = e.count + 1]
             e1 == [c EXCEPT !.devs = Append(@, R)]
  <1>1. IrqTypeOK /\ MapSound /\ RequestsKnown /\ AttachSound /\ AttachComplete
    BY DEF IrqInv
  <1>2. /\ irqAttach \in Seq(AttachEntries) /\ e \in AttachEntries /\ Len(irqAttach) \in Nat
        /\ DOMAIN irqAttach = 1 .. Len(irqAttach) /\ EntrySound(e)
    BY <1>1 DEF IrqTypeOK, AttachSound
  <1>3. /\ Group.dev.irqs = irqs /\ Group \in PciGroups /\ attaching \in 1 .. Len(irqs) /\ ~refused
        /\ R \in DOMAIN requests /\ R \in Nat /\ DOMAIN requests = 1 .. R
    BY <1>1, CurrentFacts
  <1>4. /\ irqGroups' = irqGroups /\ requests' = requests /\ refused' = refused
        /\ attaching' \in Nat /\ RequestsKnown' /\ \A r \in DOMAIN requests : Wanted(r)' = Wanted(r)
        /\ attaching' > 0 => attaching' = attaching + 1
        /\ attaching' = 0 => attaching = Len(irqs)
    BY <1>1, AttachNextFacts
  <1>5. /\ Irq = irqs[attaching] /\ DOMAIN irqs = 1 .. Len(irqs) /\ Len(irqs) \in Nat
        /\ \A i, j \in 1 .. Len(irqs) : irqs[i] = irqs[j] => i = j
    BY <1>3, PciGroupFacts DEF Irq
  <1>6. /\ e1 \in AttachEntries /\ e1.irq = e.irq /\ e1.group = e.group /\ e1.kind = e.kind
        /\ e1.devs = Append(e.devs, R) /\ e1.count = e.count + 1
    <2>1. e.count + 1 \in Nat
      <3>1. e \in AttachEntries
        BY <1>2
      <3> HIDE DEF e
      <3> QED BY ONLY <3>1 DEF AttachEntries
    <2> HIDE DEF e, R
    <2>2. /\ c \in AttachEntries /\ c.irq = e.irq /\ c.group = e.group /\ c.kind = e.kind
          /\ c.devs = e.devs /\ c.count = e.count + 1
      BY <1>2, <2>1, EntryCounted
    <2> HIDE DEF c
    <2> QED BY <1>3, <2>2, EntryShared
  <1>7. irqAttach' = [irqAttach EXCEPT ![k] = e1]
    OBVIOUS
  <1>8. e.devs \in Seq(Nat) /\ e.count \in Nat /\ e.irq = Irq /\ e.count + 1 < MAX_HANDLERS
    BY <1>2 DEF AttachEntries
  <1> HIDE DEF e1, irqs
  <1>9. /\ irqAttach' \in Seq(AttachEntries) /\ DOMAIN irqAttach' = DOMAIN irqAttach
        /\ Len(irqAttach') = Len(irqAttach) /\ irqAttach'[k] = e1
        /\ \A j \in DOMAIN irqAttach : j # k => irqAttach'[j] = irqAttach[j]
    BY <1>2, <1>6, <1>7
  <1>10. IrqTypeOK' /\ MapSound'
    BY <1>1, <1>4, <1>9 DEF IrqTypeOK, MapSound
  <1> DEFINE n == Len(e.devs)
  <1>11. /\ n \in Nat /\ DOMAIN e.devs = 1 .. n /\ Len(e1.devs) = n + 1 /\ DOMAIN e1.devs = 1 .. n + 1
         /\ e1.devs[n + 1] = R /\ \A h \in 1 .. n : e1.devs[h] = e.devs[h]
    BY <1>3, <1>6, <1>8
  <1>12. \A h \in 1 .. n : e.devs[h] # R
    <2> SUFFICES ASSUME NEW h \in 1 .. n, e.devs[h] = R PROVE FALSE
      OBVIOUS
    <2>1. PICK i \in 1 .. attaching - 1 : irqs[i] = e.irq
      BY <1>2, <1>11 DEF EntrySound, EntryOK, irqs, Wanted
    <2>2. i \in 1 .. Len(irqs) /\ i # attaching
      BY <1>3, <1>5
    <2> QED BY <1>3, <1>5, <1>8, <2>1, <2>2
  <1>13. EntrySound(irqAttach[k])'
    <2>1. EntryOK(e, irqGroups.groups, requests, attaching, FALSE)
      <3>1. refused = FALSE
        BY <1>1, <1>3 DEF IrqTypeOK
      <3> QED BY <1>2, <3>1 DEF EntrySound
    <2>2. irqGroups.groups[requests[R]].dev.irqs[attaching] = e.irq
      BY <1>5, <1>8 DEF Wanted, irqs
    <2>3. attaching \in Nat /\ attaching > 0 /\ R > 0
      BY <1>3
    <2>4. irqAttach[k]' = e1 /\ refused' = FALSE
      BY <1>1, <1>3, <1>4, <1>9 DEF IrqTypeOK
    <2>5. EntryOK(e1, irqGroups.groups, requests, attaching', FALSE)
      <3> DEFINE gs == irqGroups.groups
      <3>1. Grown(e, e1, n, R)
        BY <1>6, <1>8, <1>11, <1>12 DEF Grown
      <3>2. attaching' \in Nat /\ (attaching' > 0 => attaching' = attaching + 1)
        BY <1>4
      <3>3. R \in Nat /\ n \in Nat /\ R = Len(requests) /\ DOMAIN requests = 1 .. R
        BY <1>3, <1>11
      <3>4. EntryOK(e, gs, requests, attaching, FALSE) /\ gs[requests[R]].dev.irqs[attaching] = e.irq
        BY <2>1, <2>2
      <3> HIDE DEF n, e, R, gs
      <3>5. EntryOK(e1, gs, requests, attaching', FALSE)
        BY ONLY <2>3, <3>1, <3>2, <3>3, <3>4, EntryGrown
      <3> QED BY <3>5 DEF gs
    <2> QED BY <1>4, <2>4, <2>5 DEF EntrySound
  <1>14. ASSUME NEW j \in DOMAIN irqAttach, j # k
         PROVE  EntrySound(irqAttach[j])'
    <2> DEFINE f == irqAttach[j]
    <2>1. EntryOK(f, irqGroups.groups, requests, attaching, refused) /\ irqAttach'[j] = f
      BY <1>1, <1>9, <1>14 DEF AttachSound, EntrySound
    <2> HIDE DEF f
    <2>2. EntryOK(f, irqGroups.groups, requests, attaching', refused)
      BY <1>3, <1>4, <2>1, EntryKept
    <2> QED BY <1>4, <2>1, <2>2 DEF EntrySound
  <1>15. AttachSound'
    <2>1. \A i, j \in DOMAIN irqAttach' : irqAttach'[i].irq = irqAttach'[j].irq => i = j
      BY <1>1, <1>6, <1>9 DEF AttachSound
    <2>2. \A j \in DOMAIN irqAttach' : EntrySound(irqAttach[j])'
      BY <1>9, <1>13, <1>14
    <2> QED BY <1>1, <1>9, <2>1, <2>2 DEF AttachSound
  <1>16. AttachComplete'
    <2> SUFFICES ASSUME NEW r \in DOMAIN requests, NEW i \in DOMAIN Wanted(r),
                        r < R \/ attaching' = 0 \/ i < attaching'
                 PROVE  \E j \in DOMAIN irqAttach' : /\ irqAttach'[j].irq = Wanted(r)[i]
                          /\ \E h \in DOMAIN irqAttach'[j].devs : irqAttach'[j].devs[h] = r
      BY <1>3, <1>4 DEF AttachComplete
    <2>1. CASE r = R /\ i = attaching
      <3>1. /\ k \in DOMAIN irqAttach' /\ irqAttach'[k].irq = Wanted(r)[i]
            /\ n + 1 \in DOMAIN irqAttach'[k].devs /\ irqAttach'[k].devs[n + 1] = r
        BY <1>5, <1>6, <1>8, <1>9, <1>11, <2>1 DEF irqs
      <3> QED BY <3>1
    <2>2. CASE ~(r = R /\ i = attaching)
      <3>1. r < R \/ i < attaching
        <4>1. i \in Nat /\ (r = R => i <= Len(irqs))
          BY <1>1, <1>3, <1>5, WantedNat DEF irqs
        <4> QED BY <1>3, <1>4, <1>5, <2>2, <4>1, Advanced
      <3>2. PICK j \in DOMAIN irqAttach : /\ irqAttach[j].irq = Wanted(r)[i]
                          /\ \E h \in DOMAIN irqAttach[j].devs : irqAttach[j].devs[h] = r
        BY <1>1, <1>3, <3>1 DEF AttachComplete
      <3>3. CASE j # k
        BY <1>9, <3>2, <3>3
      <3>4. CASE j = k
        <4>1. PICK h \in 1 .. n : e.devs[h] = r
          BY <1>11, <3>2, <3>4
        <4>2. /\ k \in DOMAIN irqAttach' /\ irqAttach'[k].irq = Wanted(r)[i]
              /\ h \in DOMAIN irqAttach'[k].devs /\ irqAttach'[k].devs[h] = r
          BY <1>6, <1>9, <1>11, <3>2, <3>4, <4>1
        <4> QED BY <4>2
      <3> QED BY <3>3, <3>4
    <2> QED BY <2>1, <2>2
  <1> QED BY <1>4, <1>10, <1>15, <1>16 DEF IrqInv

\* request_threaded_irq for an interrupt in the table keeps IrqInv.
LEMMA AttachSharedInv ==
  ASSUME IrqInv, NEW k \in DOMAIN irqAttach, AttachShared(k)
  PROVE  IrqInv'
  <1>1. attaching > 0 /\ irqAttach[k].irq = Irq
    BY DEF AttachShared
  <1>2. irqAttach[k].count + 1 \in Nat /\ MAX_HANDLERS \in Nat
    <2>1. irqAttach[k] \in AttachEntries
      BY DEF IrqInv, IrqTypeOK
    <2> QED BY <2>1, PciAssumption DEF AttachEntries
  <1>3. CASE irqAttach[k].count + 1 >= MAX_HANDLERS
    BY <1>3, SharedRefusedInv DEF AttachShared
  <1>4. CASE ~(irqAttach[k].count + 1 >= MAX_HANDLERS)
    <2>1. AttachNext /\ irqAttach' = [irqAttach EXCEPT ![k] =
            [[irqAttach[k] EXCEPT !.count = irqAttach[k].count + 1] EXCEPT !.devs = Append(@, Len(requests))]]
      BY <1>4 DEF AttachShared
    <2>2. irqAttach[k].count + 1 < MAX_HANDLERS
      BY <1>2, <1>4
    <2> QED BY <1>1, <2>1, <2>2, SharedAttachedInv
  <1> QED BY <1>3, <1>4

\* IrqInv holds for any devices and any requests of their channels.
THEOREM IrqInvariance ==
  IrqSpec => []IrqInv
  <1>1. IrqInit => IrqInv
    BY IrqInitInv
  <1>2. IrqInv /\ [IrqNext]_irqVars => IrqInv'
    <2> SUFFICES ASSUME IrqInv, [IrqNext]_irqVars PROVE IrqInv'
      OBVIOUS
    <2>1. CASE \E dev \in PciDevices : EnableIrqs(dev)
      BY <2>1, EnableInv
    <2>2. CASE RequestIrq
      BY <2>2, RequestInv
    <2>3. CASE AttachTableFull
      BY <2>3, TableFullInv
    <2>4. CASE AttachNew
      BY <2>4, AttachNewInv
    <2>5. CASE AttachRejected
      BY <2>5, AttachRejectedInv
    <2>6. CASE \E k \in DOMAIN irqAttach : AttachShared(k)
      BY <2>6, AttachSharedInv
    <2>7. CASE UNCHANGED irqVars
      <3>1. /\ irqGroups' = irqGroups /\ irqAttach' = irqAttach /\ requests' = requests
            /\ attaching' = attaching /\ refused' = refused
        BY <2>7 DEF irqVars
      <3>2. IrqTypeOK' /\ MapSound' /\ RequestsKnown'
        BY <3>1 DEF IrqInv, IrqTypeOK, MapSound, RequestsKnown, Wanted
      <3>3. AttachSound'
        BY <3>1 DEF IrqInv, AttachSound, EntrySound
      <3>4. AttachComplete'
        BY <3>1 DEF IrqInv, AttachComplete, Wanted
      <3> QED BY <3>2, <3>3, <3>4 DEF IrqInv
    <2> QED BY <2>1, <2>2, <2>3, <2>4, <2>5, <2>6, <2>7 DEF IrqNext
  <1> QED BY <1>1, <1>2, PTL DEF IrqSpec

\* For any devices, options and failing calls, an interrupt that irq_loop masks is unmasked
\* at the same level, the one its device signals at.
THEOREM InterruptsRearmed ==
  IrqSpec => []InterruptRearmed
  <1>1. IrqInv => InterruptRearmed
    <2> SUFFICES ASSUME IrqInv PROVE InterruptRearmed
      OBVIOUS
    <2>1. IrqTypeOK /\ AttachSound
      BY DEF IrqInv
    <2>2. ASSUME NEW n \in DOMAIN irqGroups.groups
          PROVE  Rearmed(irqGroups.groups[n].dev, irqGroups.groups[n].cap)
      <3>1. irqGroups.groups[n] \in PciGroups
        BY <2>1 DEF IrqTypeOK
      <3> QED BY <3>1, PciGroupFacts, RearmedAlways
    <2>3. \A k \in DOMAIN irqAttach :
            /\ irqAttach[k].group \in DOMAIN irqGroups.groups
            /\ irqAttach[k].kind = MaskKind(irqGroups.groups[irqAttach[k].group].cap)
      BY <2>1 DEF AttachSound, EntrySound, EntryOK
    <2> QED BY <2>2, <2>3 DEF InterruptRearmed, Rearmed
  <1> QED BY <1>1, IrqInvariance, PTL

\* A channel whose request has ended is a handler, once, of each interrupt of its device.
LEMMA HandledOnce ==
  ASSUME IrqInv, ~refused, NEW r \in DOMAIN requests, r < Len(requests) \/ attaching = 0,
         NEW irq \in Range(irqGroups.groups[requests[r]].dev.irqs)
  PROVE  \E h \in Handlers(irq, r) : Handlers(irq, r) = {h}
  <1>1. AttachSound /\ AttachComplete /\ IrqTypeOK
    BY DEF IrqInv
  <1>2. PICK i \in DOMAIN Wanted(r) : Wanted(r)[i] = irq
    BY DEF Range, Wanted
  <1>3. PICK k \in DOMAIN irqAttach : irqAttach[k].irq = irq
                                      /\ \E h \in DOMAIN irqAttach[k].devs : irqAttach[k].devs[h] = r
    BY <1>1, <1>2 DEF AttachComplete
  <1>4. PICK h \in DOMAIN irqAttach[k].devs : irqAttach[k].devs[h] = r
    BY <1>3
  <1>5. h \in 1 .. MAX_HANDLERS
    <2>1. Len(irqAttach[k].devs) < MAX_HANDLERS
      BY <1>1 DEF AttachSound, EntrySound, EntryOK
    <2>2. irqAttach[k] \in AttachEntries
      BY <1>1 DEF IrqTypeOK
    <2>3. irqAttach[k].devs \in Seq(Nat)
      BY <2>2 DEF AttachEntries
    <2>4. h \in 1 .. Len(irqAttach[k].devs) /\ Len(irqAttach[k].devs) \in Nat
      BY <2>3
    <2> QED BY <2>1, <2>4, PciAssumption
  <1>6. <<k, h>> \in Handlers(irq, r)
    BY <1>3, <1>4, <1>5 DEF Handlers
  <1>7. ASSUME NEW p \in Handlers(irq, r) PROVE p = <<k, h>>
    <2>1. /\ p = <<p[1], p[2]>> /\ p[1] \in DOMAIN irqAttach /\ irqAttach[p[1]].irq = irq
          /\ p[2] \in DOMAIN irqAttach[p[1]].devs /\ irqAttach[p[1]].devs[p[2]] = r
      BY DEF Handlers
    <2>2. p[1] = k
      BY <1>1, <1>3, <2>1 DEF AttachSound
    <2>3. p[2] = h
      BY <1>1, <1>4, <2>1, <2>2 DEF AttachSound, EntrySound, EntryOK
    <2> QED BY <2>1, <2>2, <2>3
  <1> QED BY <1>6, <1>7

\* For any devices, any lists of interrupts they share, any number of channels and any
\* limits: the map has no entry into a freed array, no table is written past its end, and
\* every channel is a handler, exactly once, of every interrupt of its device.
THEOREM InterruptsRouted ==
  IrqSpec => []IrqRouted
  <1>1. IrqInv => IrqRouted
    BY HandledOnce DEF IrqInv, MapSound, AttachSound, EntrySound, EntryOK, IrqRouted
  <1> QED BY <1>1, IrqInvariance, PTL

-----------------------------------------------------------------------------
(* The address spaces                                                      *)

End(bar) == bar.addr + bar.size

Spaces == [begin : Nat, end : Nat]

SpaceTypeOK ==
  /\ bars \in Seq(Bars) /\ threshold \in Nat /\ usable \subseteq DOMAIN bars
  /\ ioSpace \in Spaces /\ memSpace \in Spaces

Ports(I) == {b \in {bars[i] : i \in I} : b.io}
Memory(I) == {b \in {bars[i] : i \in I} : ~b.io}

\* The space of the BARs K of one kind: nothing, or what is around them.
Encloses(space, K) ==
  \/ space = NoSpace /\ K = {}
  \/ /\ space.begin > 0 /\ space.end > 0
     /\ \A b \in K : space.begin <= b.addr /\ End(b) <= space.end
     /\ \E b \in K : End(b) = space.end

SpacesAround == Encloses(ioSpace, Ports(DOMAIN bars)) /\ Encloses(memSpace, Memory(DOMAIN bars))

\* After a clash no BAR is usable, and until then all are.
UsableFirst ==
  /\ ~Clash(ioSpace, memSpace) => usable = DOMAIN bars
  /\ \A i \in usable, j \in DOMAIN bars : j <= i => j \in usable

\* The threshold is the end of the usable ports, and these are below usable memory.
ThresholdSound ==
  /\ \A b \in Ports(usable) : End(b) <= threshold
  /\ threshold = 0 \/ \E b \in Ports(usable) : End(b) = threshold
  /\ \A b \in Ports(usable), c \in Memory(usable) : End(b) <= c.addr

SpaceInv == SpaceTypeOK /\ SpacesAround /\ UsableFirst /\ ThresholdSound

-----------------------------------------------------------------------------

\* What BarAssumption says of a BAR.
LEMMA BarFacts ==
  ASSUME NEW b \in Bars
  PROVE  /\ b.io \in BOOLEAN /\ b.addr \in Nat /\ b.size \in Nat /\ b.ptr \in Nat /\ b.addr > 0 /\ b.size > 0
         /\ End(b) \in Nat /\ End(b) > b.addr
  BY BarAssumption DEF End

\* pci_enable_device widens the space of a kind to enclose one more BAR of it; the space
\* never shrinks, and is set from then on.
LEMMA WidenEncloses ==
  ASSUME NEW space \in Spaces, NEW K \in SUBSET Bars, NEW bar \in Bars, Encloses(space, K)
  PROVE  /\ Widen(space, bar) \in Spaces
         /\ Encloses(Widen(space, bar), K \cup {bar})
         /\ space.end <= Widen(space, bar).end
         /\ space.begin # 0 => Widen(space, bar).begin <= space.begin
         /\ Widen(space, bar).begin # 0 /\ Widen(space, bar).end # 0
  <1> DEFINE w == Widen(space, bar)
             end == End(bar)
  <1>1. /\ space.begin \in Nat /\ space.end \in Nat /\ bar.addr \in Nat /\ bar.addr > 0
        /\ end \in Nat /\ end > bar.addr /\ \A b \in K : b.addr \in Nat /\ End(b) \in Nat
    BY BarFacts DEF Spaces
  <1>2. CASE space = NoSpace /\ K = {}
    <2>1. w = [begin |-> bar.addr, end |-> end] /\ space.begin = 0 /\ space.end = 0
      BY <1>2 DEF Widen, NoSpace, End
    <2>2. w.begin = bar.addr /\ w.end = end /\ w \in Spaces
      BY <1>1, <2>1 DEF Spaces
    <2> HIDE DEF w
    <2> QED BY <1>1, <1>2, <2>1, <2>2 DEF Encloses, w
  <1>3. CASE /\ space.begin > 0 /\ space.end > 0
             /\ \A b \in K : space.begin <= b.addr /\ End(b) <= space.end
             /\ \E b \in K : End(b) = space.end
    <2> DEFINE lo == IF space.begin > bar.addr THEN bar.addr ELSE space.begin
               hi == IF space.end < end THEN end ELSE space.end
    <2>1. w = [begin |-> lo, end |-> hi]
      BY <1>1, <1>3 DEF Widen, End
    <2>2. /\ lo \in Nat /\ hi \in Nat /\ lo > 0 /\ hi > 0 /\ lo <= bar.addr /\ lo <= space.begin
          /\ end <= hi /\ space.end <= hi /\ (hi = end \/ hi = space.end)
      BY <1>1, <1>3
    <2> HIDE DEF lo, hi
    <2>3. w.begin = lo /\ w.end = hi /\ w \in Spaces
      BY <2>1, <2>2 DEF Spaces
    <2> HIDE DEF w
    <2>4. \A b \in K \cup {bar} : lo <= b.addr /\ End(b) <= hi
      BY <1>1, <1>3, <2>2
    <2>5. \E b \in K \cup {bar} : End(b) = hi
      BY <1>3, <2>2
    <2> QED BY <1>1, <2>2, <2>3, <2>4, <2>5 DEF Encloses, w
  <1> QED BY <1>2, <1>3 DEF Encloses

\* Every BAR that pci_enable_device reads keeps SpaceInv: a clash is never undone, so the
\* BARs that passed are the first ones, and the threshold is the end of their ports.
LEMMA ReadBaInv ==
  ASSUME SpaceInv, NEW bar \in Bars, ReadBa(bar)
  PROVE  SpaceInv'
  <1> DEFINE n == Len(bars)
             all == DOMAIN bars
             P == Ports(all)
             M == Memory(all)
  <1>1. SpaceTypeOK /\ SpacesAround /\ UsableFirst /\ ThresholdSound
    BY DEF SpaceInv
  <1>2. /\ bars' = Append(bars, bar)
        /\ ioSpace' = IF bar.io THEN Widen(ioSpace, bar) ELSE ioSpace
        /\ memSpace' = IF bar.io THEN memSpace ELSE Widen(memSpace, bar)
    BY DEF ReadBa
  <1>3. /\ bars' \in Seq(Bars) /\ n \in Nat /\ Len(bars') = n + 1 /\ bars'[n + 1] = bar
        /\ all = 1 .. n /\ DOMAIN bars' = all \cup {n + 1} /\ n + 1 \notin all
        /\ \A i \in all : bars'[i] = bars[i] /\ bars[i] \in Bars
    BY <1>1, <1>2 DEF SpaceTypeOK
  <1>4. P \in SUBSET Bars /\ M \in SUBSET Bars
    BY <1>3 DEF Ports, Memory
  <1>5. bar.io \in BOOLEAN
    BY BarFacts
  <1>6. Ports(DOMAIN bars)' = IF bar.io THEN P \cup {bar} ELSE P
    BY <1>3, <1>5 DEF Ports
  <1>7. Memory(DOMAIN bars)' = IF bar.io THEN M ELSE M \cup {bar}
    BY <1>3, <1>5 DEF Memory
  <1>8. \A I \in SUBSET all : Ports(I)' = Ports(I) /\ Memory(I)' = Memory(I)
    BY <1>3 DEF Ports, Memory
  <1>9. ioSpace \in Spaces /\ memSpace \in Spaces /\ Encloses(ioSpace, P) /\ Encloses(memSpace, M)
    BY <1>1 DEF SpaceTypeOK, SpacesAround
  <1> HIDE DEF P, M
  <1>10. /\ ioSpace' \in Spaces /\ Encloses(ioSpace', Ports(DOMAIN bars)') /\ ioSpace.end <= ioSpace'.end
    <2>1. CASE bar.io
      <3>1. ioSpace' = Widen(ioSpace, bar) /\ Ports(DOMAIN bars)' = P \cup {bar}
        BY <1>2, <1>6, <2>1
      <3> QED BY <1>4, <1>9, <3>1, WidenEncloses
    <2>2. CASE ~bar.io
      <3>1. ioSpace' = ioSpace /\ Ports(DOMAIN bars)' = P
        BY <1>2, <1>6, <2>2
      <3> QED BY <1>9, <3>1 DEF Spaces
    <2> QED BY <2>1, <2>2
  <1>11. /\ memSpace' \in Spaces /\ Encloses(memSpace', Memory(DOMAIN bars)')
         /\ memSpace.begin # 0 => memSpace'.begin <= memSpace.begin /\ memSpace'.begin # 0
    <2>1. CASE bar.io
      <3>1. memSpace' = memSpace /\ Memory(DOMAIN bars)' = M
        BY <1>2, <1>7, <2>1
      <3> QED BY <1>9, <3>1 DEF Spaces
    <2>2. CASE ~bar.io
      <3>1. memSpace' = Widen(memSpace, bar) /\ Memory(DOMAIN bars)' = M \cup {bar}
        BY <1>2, <1>7, <2>2
      <3> QED BY <1>4, <1>9, <3>1, WidenEncloses
    <2> QED BY <2>1, <2>2
  <1>12. Clash(ioSpace, memSpace) => Clash(ioSpace', memSpace')
    BY <1>9, <1>10, <1>11 DEF Clash, Spaces
  <1>13. SpacesAround'
    BY <1>10, <1>11 DEF SpacesAround
  <1>14. CASE Clash(ioSpace', memSpace')
    <2>1. threshold' = threshold /\ usable' = usable
      BY <1>14 DEF ReadBa
    <2>2. SpaceTypeOK'
      BY <1>1, <1>3, <1>10, <1>11, <2>1 DEF SpaceTypeOK
    <2>3. UsableFirst'
      <3>1. \A i \in usable : i \in 1 .. n
        BY <1>1, <1>3 DEF SpaceTypeOK
      <3>2. ASSUME NEW i \in usable, NEW j \in DOMAIN bars', j <= i
            PROVE  j \in usable
        <4>1. j \in 1 .. n
          BY ONLY <1>3, <3>1, <3>2
        <4> QED BY <1>1, <1>3, <3>2, <4>1 DEF UsableFirst
      <3> QED BY <1>14, <2>1, <3>2 DEF UsableFirst
    <2>4. Ports(usable)' = Ports(usable) /\ Memory(usable)' = Memory(usable)
      BY <1>1, <1>3, <2>1 DEF SpaceTypeOK, Ports, Memory
    <2>5. ThresholdSound'
      BY <1>1, <2>1, <2>4 DEF ThresholdSound
    <2> QED BY <1>13, <2>2, <2>3, <2>5 DEF SpaceInv
  <1>15. CASE ~Clash(ioSpace', memSpace')
    <2>1. threshold' = ioSpace'.end /\ usable' = DOMAIN bars'
      BY <1>1, <1>3, <1>12, <1>15 DEF ReadBa, UsableFirst
    <2>2. SpaceTypeOK'
      BY <1>3, <1>10, <1>11, <2>1 DEF SpaceTypeOK, Spaces
    <2>3. UsableFirst'
      BY <2>1 DEF UsableFirst
    <2> DEFINE P1 == Ports(DOMAIN bars)'
               M1 == Memory(DOMAIN bars)'
    <2>4. Ports(usable)' = P1 /\ Memory(usable)' = M1
      BY <2>1 DEF Ports, Memory
    <2>5. P1 \subseteq Bars /\ M1 \subseteq Bars
      BY <1>3, <1>4, <1>6, <1>7
    <2> HIDE DEF P1, M1
    <2>6. ThresholdSound'
      <3>1. \A b \in P1 : End(b) <= ioSpace'.end
        BY <1>10 DEF Encloses, P1
      <3>2. ioSpace'.end = 0 \/ \E b \in P1 : End(b) = ioSpace'.end
        BY <1>10 DEF Encloses, P1, NoSpace
      <3>3. ASSUME NEW b \in P1, NEW c \in M1 PROVE End(b) <= c.addr
        <4>1. End(b) <= ioSpace'.end /\ ioSpace'.end # 0
          BY <1>10 DEF Encloses, P1
        <4>2. memSpace'.begin <= c.addr /\ memSpace'.begin # 0
          BY <1>11 DEF Encloses, M1
        <4>3. ioSpace'.end <= memSpace'.begin
          BY <1>10, <1>11, <1>15, <4>1, <4>2 DEF Clash, Spaces
        <4> QED BY <1>10, <1>11, <2>5, <4>1, <4>2, <4>3, BarFacts DEF Spaces
      <3> QED BY <2>1, <2>4, <3>1, <3>2, <3>3 DEF ThresholdSound
    <2> QED BY <1>13, <2>2, <2>3, <2>6 DEF SpaceInv
  <1> QED BY <1>14, <1>15

\* SpaceInv holds whatever BARs are read in whatever order.
THEOREM SpaceInvariance ==
  SpaceSpec => []SpaceInv
  <1>1. SpaceInit => SpaceInv
    BY DEF SpaceInit, SpaceInv, SpaceTypeOK, SpacesAround, UsableFirst, ThresholdSound, Encloses, Ports,
           Memory,
           Spaces, NoSpace
  <1>2. SpaceInv /\ [SpaceNext]_spaceVars => SpaceInv'
    <2> SUFFICES ASSUME SpaceInv, [SpaceNext]_spaceVars PROVE SpaceInv'
      OBVIOUS
    <2>1. CASE SpaceNext
      BY <2>1, ReadBaInv DEF SpaceNext
    <2>2. CASE UNCHANGED spaceVars
      <3>1. /\ bars' = bars /\ ioSpace' = ioSpace /\ memSpace' = memSpace
            /\ threshold' = threshold /\ usable' = usable
        BY <2>2 DEF spaceVars
      <3>2. /\ Ports(DOMAIN bars)' = Ports(DOMAIN bars) /\ Memory(DOMAIN bars)' = Memory(DOMAIN bars)
            /\ Ports(usable)' = Ports(usable) /\ Memory(usable)' = Memory(usable)
        BY <3>1 DEF Ports, Memory
      <3>3. SpaceTypeOK' /\ UsableFirst'
        BY <3>1 DEF SpaceInv, SpaceTypeOK, UsableFirst
      <3>4. SpacesAround'
        BY <3>1, <3>2 DEF SpaceInv, SpacesAround
      <3>5. ThresholdSound'
        BY <3>1, <3>2 DEF SpaceInv, ThresholdSound
      <3> QED BY <3>3, <3>4, <3>5 DEF SpaceInv
    <2> QED BY <2>1, <2>2
  <1> QED BY <1>1, <1>2, PTL DEF SpaceSpec

\* get_bar finds a BAR that has the address, and none after the one it is looked up for.
LEMMA FirstBar ==
  ASSUME bars \in Seq(Bars), NEW i \in DOMAIN bars, NEW addr \in Nat, Has(bars[i], addr)
  PROVE  /\ get_bar(addr) \in DOMAIN bars /\ Has(bars[get_bar(addr)], addr) /\ get_bar(addr) <= i
  <1> DEFINE S == {j \in DOMAIN bars : Has(bars[j], addr)}
             First(j) == Has(bars[j], addr) /\ \A k \in 1 .. j - 1 : ~Has(bars[k], addr)
  <1>1. S \subseteq Nat /\ S # {} /\ DOMAIN bars = 1 .. Len(bars) /\ Len(bars) \in Nat
    OBVIOUS
  <1>2. PICK j \in S : \A k \in S : ~(<<k, j>> \in OpToRel(<, Nat))
    BY <1>1, WFMin, NatLessThanWellFounded
  <1>3. \A k \in S : ~(k < j)
    BY <1>1, <1>2 DEF OpToRel
  <1>4. First(j)
    <2>1. Has(bars[j], addr) /\ j \in 1 .. Len(bars)
      BY <1>1, <1>2
    <2>2. ASSUME NEW k \in 1 .. j - 1, Has(bars[k], addr) PROVE FALSE
      <3>1. k \in DOMAIN bars /\ k < j
        BY <1>1, <2>1
      <3> QED BY <1>3, <2>2, <3>1
    <2> QED BY <2>1, <2>2
  <1>5. get_bar(addr) \in DOMAIN bars /\ First(get_bar(addr))
    BY <1>2, <1>4 DEF get_bar
  <1> QED BY <1>1, <1>5

\* For any BARs, any number of them and any order, read8 .. write32 and ioremap use the
\* address space of the BAR, if it was read without a clash.
THEOREM AccessesRouted ==
  SpaceSpec => []AccessRouted
  <1>1. SpaceInv => AccessRouted
    <2> SUFFICES ASSUME SpaceInv, NEW i \in usable, NEW width \in {1, 2, 4},
                        NEW off \in 0 .. bars[i].size - width
                 PROVE  /\ bars[get_bar(bars[i].addr + off)].io <=> bars[i].io
                        /\ IsPortAccess(bars[i].ptr + off, width) <=> bars[i].io
      BY DEF AccessRouted
    <2> DEFINE b == bars[i]
               addr == b.addr + off
               f == get_bar(addr)
               c == bars[f]
    <2>1. SpaceTypeOK /\ UsableFirst /\ ThresholdSound
      BY DEF SpaceInv
    <2>2. i \in DOMAIN bars /\ b \in Bars /\ bars \in Seq(Bars) /\ threshold \in Nat
      BY <2>1 DEF SpaceTypeOK
    <2>3. /\ b.io \in BOOLEAN /\ b.addr \in Nat /\ b.size \in Nat /\ b.ptr \in Nat /\ End(b) = b.addr + b.size
      BY <2>2, BarFacts DEF End
    <2> HIDE DEF b
    <2>4. off \in Nat /\ off + width <= b.size /\ addr \in Nat /\ Has(b, addr)
      BY <2>3 DEF Has, b
    <2>5. f \in DOMAIN bars /\ Has(c, addr) /\ f <= i
      BY <2>2, <2>4, FirstBar DEF b
    <2>6. f \in usable /\ c \in Bars
      BY <2>1, <2>2, <2>5 DEF UsableFirst
    <2>7. c.io \in BOOLEAN /\ c.addr \in Nat /\ c.size \in Nat /\ End(c) = c.addr + c.size
      BY <2>6, BarFacts DEF End
    <2>8. b \in IF b.io THEN Ports(usable) ELSE Memory(usable)
      BY DEF Ports, Memory, b
    <2>9. c \in IF c.io THEN Ports(usable) ELSE Memory(usable)
      BY <2>6 DEF Ports, Memory
    <2> HIDE DEF c, addr, f
    <2>10. c.io <=> b.io
      <3>1. CASE b.io /\ ~c.io
        <4>1. End(b) <= c.addr
          BY <2>1, <2>8, <2>9, <3>1 DEF ThresholdSound
        <4> QED BY <2>3, <2>4, <2>5, <2>7, <4>1 DEF Has
      <3>2. CASE ~b.io /\ c.io
        <4>1. End(c) <= b.addr
          BY <2>1, <2>8, <2>9, <3>2 DEF ThresholdSound
        <4> QED BY <2>3, <2>4, <2>5, <2>7, <4>1 DEF Has
      <3> QED BY <2>3, <2>7, <3>1, <3>2
    <2>11. IsPortAccess(b.ptr + off, width) <=> b.io
      <3>1. CASE b.io
        <4>1. b.ptr = b.addr /\ End(b) <= threshold
          BY <2>1, <2>2, <2>8, <3>1, BarAssumption DEF ThresholdSound
        <4>2. b.ptr + off + width - 1 < threshold
          BY <2>2, <2>3, <2>4, <4>1
        <4> QED BY <3>1, <4>2 DEF IsPortAccess
      <3>2. CASE ~b.io
        <4>1. threshold <= b.ptr
          <5>1. CASE threshold = 0
            BY <2>3, <5>1
          <5>2. CASE \E d \in Ports(usable) : End(d) = threshold
            <6>1. PICK d \in Ports(usable) : End(d) = threshold
              BY <5>2
            <6>2. d \in Bars /\ d.io
              BY <2>1 DEF Ports, SpaceTypeOK
            <6> QED BY <2>2, <3>2, <6>1, <6>2, BarAssumption DEF End
          <5> QED BY <2>1, <5>1, <5>2 DEF ThresholdSound
        <4>2. width \in Nat /\ width >= 1
          OBVIOUS
        <4>3. ~(b.ptr + off + width - 1 < threshold)
          BY ONLY <2>2, <2>3, <2>4, <4>1, <4>2
        <4> QED BY <3>2, <4>3 DEF IsPortAccess
      <3> QED BY <2>3, <3>1, <3>2
    <2> QED BY <2>10, <2>11 DEF b, c, f, addr
  <1> QED BY <1>1, SpaceInvariance, PTL
=============================================================================
