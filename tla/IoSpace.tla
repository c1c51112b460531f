-------------------------------- MODULE IoSpace --------------------------------
(***************************************************************************)
(* Whether an access to a register is an I/O instruction or a memory       *)
(* access: pci_enable_device (pci.c) reads the base address registers      *)
(* (BARs) of the devices in turn and keeps the ranges of ports and of      *)
(* memory, and read8 .. write32 (linux/io.h) compare an address with the   *)
(* end of the ports.                                                       *)
(***************************************************************************)
EXTENDS Integers, Sequences

CONSTANTS Bars,      \* the BARs: [io, addr, size, ptr], ptr being where it is mapped
          MaxBars

\* mmap_device_io gives the port itself, mmap_device_memory an address above the ports;
\* no BAR that is in use is at 0.
ASSUME BarAssumption ==
  /\ Bars \subseteq [io : BOOLEAN, addr : Nat \ {0}, size : Nat \ {0}, ptr : Nat]
  /\ \A b \in Bars : b.io => b.ptr = b.addr
  /\ \A b, c \in Bars : b.io /\ ~c.io => b.addr + b.size <= c.ptr

VARIABLES
  bars,        \* bar_list_root: the BARs in the order they were read
  ioSpace,     \* pci_io_addr_space_begin and _end
  memSpace,    \* pci_mem_addr_space_begin and _end
  threshold,   \* io_port_addr_threshold
  usable       \* the BARs whose reading ended without a clash

spaceVars == <<bars, ioSpace, memSpace, threshold, usable>>

NoSpace == [begin |-> 0, end |-> 0]

SpaceInit ==
  /\ bars = <<>> /\ ioSpace = NoSpace /\ memSpace = NoSpace /\ threshold = 0 /\ usable = {}

\* A bound of 0 says that there is no BAR of the kind yet.
Widen(space, bar) ==
  LET end == bar.addr + bar.size
  IN  IF space.begin = 0 \/ space.end = 0 THEN [begin |-> bar.addr, end |-> end]
      ELSE [begin |-> IF space.begin > bar.addr THEN bar.addr ELSE space.begin,
            end |-> IF space.end < end THEN end ELSE space.end]

Clash(io, mem) == io.end > mem.begin /\ io.end # 0 /\ mem.begin # 0

\* Mutant: the last byte of the ports is left out.
ReadBaShort(bar) ==
  /\ Len(bars) < MaxBars
  /\ bars' = Append(bars, bar)
  /\ ioSpace' = IF bar.io THEN Widen(ioSpace, bar) ELSE ioSpace
  /\ memSpace' = IF bar.io THEN memSpace ELSE Widen(memSpace, bar)
  /\ IF Clash(ioSpace', memSpace')
     THEN UNCHANGED <<threshold, usable>>
     ELSE threshold' = ioSpace'.end - 1 /\ usable' = usable \cup {Len(bars')}

\* pci_enable_device, one BAR; a clash of ports and memory ends the call, and the next
\* BAR is one of another device.
ReadBa(bar) ==
  /\ Len(bars) < MaxBars
  /\ bars' = Append(bars, bar)
  /\ ioSpace' = IF bar.io THEN Widen(ioSpace, bar) ELSE ioSpace
  /\ memSpace' = IF bar.io THEN memSpace ELSE Widen(memSpace, bar)
  /\ IF Clash(ioSpace', memSpace')
     THEN UNCHANGED <<threshold, usable>>
     ELSE threshold' = ioSpace'.end /\ usable' = usable \cup {Len(bars')}

SpaceNext == \E bar \in Bars : ReadBa(bar)

SpaceSpec == SpaceInit /\ [][SpaceNext]_spaceVars

-----------------------------------------------------------------------------

Has(bar, addr) == addr >= bar.addr /\ addr < bar.addr + bar.size

\* The first BAR that has the address; ioremap maps by its kind.
get_bar(addr) ==
  CHOOSE i \in DOMAIN bars : Has(bars[i], addr) /\ \A j \in 1 .. i - 1 : ~Has(bars[j], addr)

\* read8 .. write32: an I/O instruction if the last byte of the access is below the
\* threshold.
IsPortAccess(addr, width) == addr + width - 1 < threshold

\* Whatever BARs the cards have and in whatever order they are read, every access within
\* a BAR that was read without a clash goes to the address space of that BAR, then and
\* after any further BARs: ioremap finds a BAR of its kind at each of its addresses,
\* although ports and memory are numbered separately, and the threshold that read8 ..
\* write32 compare with lies above all its ports and below all mapped memory.
AccessRouted ==
  \A i \in usable, width \in {1, 2, 4} : \A off \in 0 .. bars[i].size - width :
    /\ bars[get_bar(bars[i].addr + off)].io <=> bars[i].io
    /\ IsPortAccess(bars[i].ptr + off, width) <=> bars[i].io
=============================================================================
