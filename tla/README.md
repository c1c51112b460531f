# A verification development for dev-can-linux

dev-can-linux is a QNX driver for CAN-bus cards.  It runs the Linux SJA1000
drivers inside a QNX resource manager: a layer of its own (`src/src/*.c`) stands
in for the parts of the Linux kernel the drivers call, and serves the clients.
This directory models the driver in TLA+, checks the models with TLC on small
instances and proves theorems about them, for every instance, with TLAPS.

All paths below are relative to `src/src/`; `can/` abbreviates
`kernel/drivers/net/can/`.

## The system

| Part | Source | Modules |
|---|---|---|
| message queue | `queue.c`, `include/queue.h` | `LossyFifo`, `CanRing`, `CanQueue` |
| transmit path | `resmgr.c`, `netif.c`, `can/sja1000/sja1000.c` | `WritePath`, `TxPath`, `FrameCodec`, `Life` |
| receive path and clients | `netif.c`, `resmgr.c`, `include/resmgr.h` | `RxClient`, `FrameCodec`, `FrameTools` |
| interrupts: handler, table, masking | `interrupt.c`, `can/sja1000/sja1000.c` | `TxPath`, `ErrorState`, `PciIrq`, `Life` |
| error states, bus-off, restart timer | `can/dev/dev.c`, `netif.c`, `timer.c` | `TxPath`, `ErrorState`, `Timer` |
| sk_buffs and the pool of blocks | `can/dev/skb.c`, `fixed.c` | `TxPath`, `FixedPool` |
| sessions | `session.c` | `Life`, `NetDev` |
| registration of devices and files | `resmgr.c`, `can/dev/dev.c` | `NetDev` |
| bit timing | `can/dev/bittiming.c`, `calc_bittiming.c`, `netlink.c` | `BitTiming` |
| PCI layer and cards | `pci.c`, `pci-capability.c`, `include/pci.h`, `can/sja1000/*_pci.c`, `f81601.c`, `vcan.c` | `CardTables`, `IoSpace`, `PciIrq`, `Cards`, `NetDev` |
| options, start-up, shutdown | `main.c`, `config.c` | `Options`, `Program`, `Life` |
| tools and client header | `tools/`, `dev-can-linux/commands.h` | `FrameCodec`, `FrameTools`, `BitTiming` |

Threads: `main`; one `irq_loop` for the whole driver; one `netif_tx` and one
`timer_loop` per device; one `rx_loop` per open receive channel; a resource-manager
thread pool per channel.

A write goes from a resource-manager thread through `enqueue` into the
`tx_queue` of the device, where `netif_tx` waits in `dequeue`.  `start_xmit` stops
the queue, fills the controller's only transmit buffer and parks the sk_buff in
the only echo slot.  The transmit interrupt empties the slot and asks for the
queue to be started, which `irq_loop` does after the handler.  A bus-off arms the
restart timer; the timer thread flushes the slot, restarts the controller and
asks for the queue to be started.  A received frame goes from `irq_loop` into the
`rx_queue` of every client of the device, where `rx_loop` waits in `dequeue_peek`
and has the resource manager repeat the blocked read.  SIGINT has `main` remove the
cards while the other threads still run.

What makes this hard: `netif_tx_lock` is empty and the registers, the echo slot
and `can.state` are shared by three threads; a queue's condition variable is
shared by its reader and the thread that destroys it; several tests are made
outside the mutex that protects what they test; the dequeues return pointers
into the ring; the shutdown joins few of the threads it frees memory under; probe
functions undo by hand what they did; the error interrupts say that a limit was
crossed, not which state is reached.  The hazards are listed, at their lines, in
`PROJECT.json`.

## Modules

### Queue: `LossyFifo`, `CanRing`, `CanQueue`

`LossyFifo` is what a queue promises: messages leave in the order of storing, and
only a full queue loses any.

`CanRing` has the fields of `queue_t`: `size`, `data`, `begin`, `end`.  A message is
its number in the order of storing.  `Store` is the insertion of `enqueue` with its
five ways of moving the indices, `Take` the removal shared by `dequeue` and
`dequeue_noblock`, `Reset` the end of `destroy_queue`.  `stored`, `taken` and `takes`
are history variables; `dropped` counts the calls of `dropped_packet`.

`CanQueue` adds the threads.  A section under `Q->mutex` is one step.  The test of
`session_up` before the lock is a step of its own (`CheckSession`), and so is the
caller's use of the returned pointer (`Use`).  `cond` holds the threads asleep in
`pthread_cond_wait`; `Signal` wakes one of them, and wake-ups may be spurious.
`Expire` removes a message older than the latency limit.  `LockDestroyed` is what a
thread meets that locks after the destruction.

### Transmit path: `TxPath`

Each access to something two threads share is a step: `StopQueue`, `LoadBuffer`,
`can_put_echo_skb` and `write_cmdreg` are the steps of `sja1000_start_xmit`;
`ReadIER` ... `netif_rx` those of `sja1000_interrupt`; `TestWakePending`,
`queue_start_signal` and `queue_awake` the end of `irq_loop`; `FlushFree` ...
`WakeQueue` those of `can_restart`, parameterised by the thread that runs it (the
timer's, or with option `-R` the IRQ thread).  The controller is external, modelled
from how the driver uses it: an interrupt register that is cleared by reading, a
status register, reset mode, one transmit buffer.  The queue is abstracted to
counts, which the theorems about `CanQueue` justify.  The status is read again after
the frames of a receive interrupt (`ReadSRAgain`).  With option `-R` only behaviours
without a bus-off are modelled.  `TakeEcho` clears the slot and then frees, as
`can_get_echo_skb` does; `can_free_echo_skb`, for one-shot mode, frees first, and
`start_xmit` waits for both.

### A write: `WritePath`

One `write()` to a file: `Enqueue` is a turn of the loop in `io_write`, `Transmit` a turn
of the loop in `netif_tx`, and between them is the `tx_queue`, an instance of `LossyFifo`.
The messages and what they become on the bus and at another client are those of
`FrameCodec`.  The queue is idle when the write begins and has no other writer.  A ring of 15
slots, what `register_netdev` asks for, implements a `LossyFifo` of 14
(`RingImplementsLossyFifo`), so `TxCapacity` is 14 in the driver.

### A receiving client: `RxClient`

One open file of a receive channel, composed with its queue (it extends
`CanQueue`): `rx_loop` is the queue's blocking reader, a resource-manager thread in
`io_read` or `io_devctl` its poller, `can_ocb_free` its owner.  `blocked` is
`rx.blocked_clients`, `buffer`, `read_size` and `offset` are what `io_read` keeps
between two requests: bytes of an unfinished read, and how much of the oldest
message was returned.  A client is interrupted by `io_unblock`, which leaves its entry
in the list.  `msg_again_callback` is one handler call made by `rx_loop`.

### The running program: `Life`

`main`, the SIGINT handler, `irq_loop`, the timer thread of a device with an
interrupt, the transmit thread of a virtual device, and clients that open and close,
around the session lists and their one mutex.  `sess`, `dev` and `cs` say what is
allocated, `flying` which threads were at work when the shutdown passed them.
Queues and registers are abstracted to being in use or destroyed.

### From command line to exit: `Options`, `NetDev`, `Cards`, `Program`

Probe and remove functions are sequential, so a C function is an operator from a
world to a world; `NetDev` says what a world holds.  Its field `ub` records the first
undefined behaviour, after which nothing is concluded.  A file registered is in the list
with or without its thread pool, depending on the call that failed.  `Cards` has the probe and
remove functions of all the drivers as folds over their channels, `Options` the effect of each
option, `Program` the order: parse, select, probe, check, run, remove.  A *plan* is
what goes wrong: any chips that do not answer, or any one call that fails (for any
channel), on memory that `malloc` left zero or not.  A *twin* is a second device with the
same ids, which is found, selected and probed as well.

### A card's registers and interrupts: `IoSpace`, `PciIrq`

`IoSpace`: `pci_enable_device` reads the base address registers (BARs) of the devices in
turn.  One BAR is one step, which widens the range of ports or of memory, looks for a
clash and moves `io_port_addr_threshold`.  `usable` are the BARs that were read without a
clash.  `get_bar` and `IsPortAccess` are what `ioremap` and `read8` .. `write32` decide.

`PciIrq`: devices are enabled in turn and their channels request interrupts.  A device
is its capabilities, the options that name it, the library call that fails on it and its
interrupts.  `EnableIrqs` makes its group, with what `msix_init` enabled, in a new array to
which `irq_to_group_map` is redirected; an entry of the map is the array and the index
it points to.  `RequestIrq` begins `request_threaded_irq`, and one interrupt of the group is
attached per step: a new entry, whose call may be rejected, another handler of an old
one, or a full table.  A refused request stops the program.

### The error state: `ErrorState`

The device as `sja1000_err`, `can_change_state`, `can_bus_off` and `can_restart` leave it, next to
the levels of the controller's two error counters.  One step is an interrupt, which says
that a limit was crossed and not where the counters are, with the error frame and what option `-R`
makes of it; the other the restart timer.  Counters that pass a limit and come back between two
interrupts are not modelled.  `told`, `always`, `entered`, `errors` and `named`
are history: what the driver should know.

### Calculations: `BitTiming`, `CardTables`, `FrameCodec`, `FrameTools`

Pure functions of the code as operators: the bit timing of a requested rate; the id
tables and register windows; the conversions of a message, a write and a timestamp
(`FrameCodec`; a stamp made while another client sets the clock, by every order of its
loads and the stores); the filter, `canread` and the way between two tools (`FrameTools`).  The windows are those of all six
card drivers and the virtual card, with what a driver writes to the card itself.  `Calculations`
puts one input to one of them in each behaviour and states what the result must satisfy,
against a reference definition (such as a search over all settings of the chip).

### `FixedPool`, `Timer`

The stack of free blocks under threads that allocate and free each other's sk_buffs,
one step per call; and the restart timer: its channel, its queued pulses and the
threads that a destroy and a new timer leave behind.

### Proofs and instances

`CanQueueProofs` (ring and queue), `TxPathProofs`, `LifeProofs`, `PoolTimerProofs`
(`FixedPool` and `Timer`), `PciProofs` (`PciIrq` and `IoSpace`) and `CardProofs`
(`ErrorState`, `FrameCodec` and `WritePath`) hold the theorems on these modules.  For `RxClient`,
`RxInvariants` has the inductive invariants, `RxReadProofs` the lemmas on what is read, and `RxTheorems` those on who
waits and the theorems.  `MCCanRing`, `MCCanQueue`, `MCTxPath`,
`MCRxClient`, `MCLife` and `MCProgram` instantiate the modules for TLC.

## Runs

| Run | Checks |
|---|---|
| `queue_tx` | ring and queue: contents, order, refinement of `LossyFifo`, no lost wake-up, destruction terminates, a waiting reader is served |
| `queue_rx` | a receive file with its queue: no blocked client is lost from the list or left hanging by close, the bytes of `read()` are those of the messages in order, blocked clients are served, close returns |
| `life` | the shutdown: what may be freed under which thread, sessions under their mutex, SIGINT ends the program, opens and closes are answered |
| `cards` | every bus with up to two cards, every plan, every pair of options: no undefined behaviour beyond the listed exceptions, no freed device in the interrupt table, what is still held at exit; the calculations; a write on its way to the bus; the address spaces, the interrupts, the error state, the pool and the timer |
| `tx_safety` | transmit buffer and echo slot are never used by two threads at once, sk_buffs are neither leaked nor freed twice, the timer restarts only a device that is bus-off |
| `tx_progress` | every message is sent or given up, every bus-off is recovered from, the queue is drained |
| `ring_loss` | *violated:* the loss the comments of `enqueue` announce |
| `queue_pointer` | *violated:* a returned message is stable ("multi-thread safe") |
| `queue_destroy` | *violated:* no thread locks a destroyed queue ("nice shutdown") |
| `tx_passive` | *violated:* a bus-off always starts the recovery timer |
| `tx_late` | *violated:* a restart happens only while the device is bus-off, if the delay may be shorter than the handler |
| `tx_optR` | *violated:* the echo slot is never occupied, with option `-R 128` |

The violated properties are what comments and messages of the source say; the
findings in `PROJECT.json` quote them.  Several passing properties hold with
exceptions, which are stated in the property and in the comment before it, because
the code has them: those of `MissingChipsSurvived` and `FailedCallSurvived` (a
missing chip or a failed call that a probe does not undo), `Released`,
`RequestedTiming` (a jump width other than 1, a division by zero), `RestartConfigured` (option `-b` without
register values), `OwnDriverSelected` (a PLX 9030 bridge), `InterruptRearmed`,
`FrameRoundTrip`, `WriteArrives`, `ErrorStateFollows`, `TimerSound` and `ReadsInOrder`.
Where the exception is a state, the property says so with "if and only if" when it
could be made that sharp.

### Bounds

* `queue_tx`: a ring of 4 slots has every position of `begin` and `end` relative to
  the array's edge, and 9 messages wrap it twice; the size-0 queue is part of the
  run.  Two producers give a pair of concurrent callers of one operation; the
  synchronisation does not count callers.
* `queue_rx`: two client threads, two requests, messages of 1, 3, 2 and 1 bytes,
  reads of 2 and 3; `READ_SIZE` = 2 stands for the 4096 bytes of a new read buffer.  The run starts from a full ring of 3 slots, so that the next
  message overflows it at any point of `io_read`, and from the ring drained by three
  reads of 2 bytes, so that a read blocks with a byte in its buffer and another
  replaces the buffer.  Both states are reached by frames and reads from the initial
  state of `RxClient`.
* `tx_*`: three messages let one be transmitted, one be dequeued early and one wait;
  two bus-offs let a second one meet the restart of the first.  `RxBurst` bounds the
  receive interrupts during one run of the handler below `SJA1000_MAX_IRQ`.
* `life`: one client and two SIGINTs; the theorems hold for any number.
* `cards`: one card of each driver with 2 channels (Kvaser 3), one or two cards on
  the bus, at most two options.  Probe and remove treat channels alike, and what a
  card leaves to the next is the world.  Bit timing: the clocks of the cards, 12
  rates and 448 settings at 5 rates; identifiers: the edges of every field they are
  cut into; `Wrap` = 16 stands for 2^32.  Writes: up to a few more bytes than `LenWrap` = 32 and than
  `TxCapacity` = 4 messages hold, so that both limits are passed.  BARs: up to 3 of 12 in any order.  Interrupts: one device with any
  capabilities, options and failures, or up to 3 that share interrupts, with 4 requests
  on tables of 4 entries and 4 handlers.  Errors: 3 interrupts with any levels
  and restarts between them.  For these three the theorems have no bound.  A pool of 4 blocks and 3 threads; 4 timers with delays on both
  sides of one second (50, 999, 1000, 2000 ms).

Deadlock is not checked: all the runs end when the bounds are used up, and the
program itself ends.

### Fairness

* `CanQueue`: the reader and the destroying thread are scheduled.  No fairness is
  assumed of producers, of `queue_start_signal` or of spurious wake-ups.
* `TxPath`: the three threads are scheduled, an armed timer expires, a requested
  transmission completes or ends in a bus-off, and other nodes keep sending.  The last
  is a real assumption: after a bus-off the queue is started by `irq_loop` only when
  another interrupt arrives, and the only ones to come are those of received frames.
* `RxClient`: `rx_loop`, a running handler and a closing thread are scheduled.  No
  message need arrive and no client need ask.
* `Life`: the threads are scheduled (weak fairness).  A thread that waits for the
  session mutex gets it if it is free again and again (strong fairness of
  `LockToDestroy`, `OpenLocks` and `CloseLocks`): QNX hands a mutex to the waiter of
  highest priority that waited longest.  SIGINT, opens and closes need never come.

### Assumptions

External behaviour, modelled from its use: a QNX mutex locked again by its owner
returns an error, which the code ignores, and unlocking a mutex of another thread
fails; a destroyed channel takes its queued pulses along, and a thread blocked on it
gets an error; handlers of one channel file run one at a time, although its
pool has many threads, because the framework locks the attribute of the file around
each (`lock_ocb` is left at its default); the codes of `pci_err_t` are not negative, so that a
test `< 0` of an enabled device never fails (`ems_pci_add_card`); the memory of a freed object keeps its content until it is allocated
again; the controller does what its registers are used for.  `can_msg.len`, in a QNX
header, is taken to be 8 bits wide (`LenWrap` = 256).

Options: `restart_ms` is below 1000 in `TxPath`, because `schedule_delayed_work` puts
it into `tv_nsec` (`Timer` has larger ones); option `-R` is below 256 in `TxPath`, because
above it `can_restart` and `netif_rx` call each other without end.  `DelayOutlastsIrq` says
that interrupts are served within `restart_ms`; `tx_late` drops it.

## Proofs

For every size of at least 3, every set of producers and pollers, both kinds of
reader:

* `RingTypeCorrect`, `RingHoldsNewest`, `RingTakesInOrder`,
  `RingDropsNotOvercounted` (`CanQueueProofs`).  `HoldsNewest` speaks of the
  sequence of messages held, which is awkward to induct on; the inductive
  invariant `SlotsHoldNewest` says for each slot between `begin` and `end` which
  message it holds, counted back from the newest, and is split by whether the
  occupied part wraps.
* `RingImplementsLossyFifo`: a step of the ring is a step of
  `LossyFifo` under the mapping that reads the slots from `begin` to `end`.
* `QueueImplementsRing`: each step of the threads is a step of
  the ring, so that `QueueHoldsNewest` and `QueueTakesInOrder` follow.
* `QueueTypeCorrect`, `QueueNoLostWakeup`, `QueueOwnerWaitsForReader`: the
  inductive invariant `SleepersOK` adds that the reader and the owner are never
  asleep together, which is why a signal to one sleeper of the shared condition
  variable is never a signal to the wrong one.

For any clients that share a receive file, any requests, interruptions and closes, any
message lengths and read sizes (`RxTheorems`):

* `RxImplementsQueue`: each step of the clients, of `rx_loop` and of
  a handler is a step of `CanQueue` or leaves the queue alone, so that what is
  proved of the queue holds of the file.
* `RxBlockedIsListed`, `RxNoneHangsAfterClose`, from the inductive invariant `WaitInv`.
  Neither is inductive alone: that a waiting client is in the list depends on whose
  request the handler has and whether `rx_loop` passed it on (`HandlerInv`), and, while
  nobody was interrupted, on the list holding only clients that wait and on
  `rx_loop` having a client whenever it left its wait (`ListInv`).
* `RxReadsInOrder`, from `ReadInv`.  The bytes to reason about are those returned and
  those in the buffer of an unfinished read together (`Got`).  `GotInv` says that they are in
  order; `PlaceInv` says where they end: inside the oldest message the ring
  holds (`offset` is not 0), with its last byte while `io_read` has yet to remove it (`Held`),
  or with the last byte of a message that has left the ring.  It also counts the
  messages that left the ring and are not among the bytes: there are no more than were
  lost.  An overflow while part of a message is read moves the oldest message under
  `offset`; it is one of the exceptions that `spoiled` records.  `ReadInv` uses the
  type invariant and `HoldsNewest` of the queue, carried over by `RxImplementsQueue`.

The lemmas on the steps assume what they use of cardinalities and of the removal from
the list (`CountingOK`, `RemovalOK`), which `RxTheorems` proves from the library on
finite sets, so that only that module carries the library.

For any number of messages, errors, bus-offs and interrupts, with and without option
`-R`, where `DelayOutlastsIrq` holds (`TxPathProofs`):

* `BufferIsFreeHolds`, `EchoIsTheFrameSentHolds`, `SkbsAccountedHolds` and
  `RestartsOnlyBusOffHolds`, from the inductive invariant `TxInv`.  The code has no lock, so the
  invariant says who has the right to the transmit buffer and the echo slot: it goes
  from the queue to `start_xmit`, to the controller, to the interrupt handler or the
  restart, and through `wake_pending` back to the queue.  `RestartInv` says when a restart can be
  scheduled or under way, `SkbInv` who owns each sk_buff, `LockInv` where the
  right is and that whoever does not have it is out of the way.  `DelayOutlastsIrq` is a
  hypothesis and not an assumption on the constants: `tx_late` shows that
  without it a device is restarted that is not bus-off.

For any clients and any number of SIGINTs (`LifeProofs`):

* `LifeBroadcastLive`, `LifeSessionLive`, `LifeFreedOnlyInFlight`, from the
  inductive invariant `IInv` of `LifeInvariant`.  Its parts are proved one on top of
  the other: `Shape` (ranges), `MutexInv` (who is in a section under the session
  mutex holds it, and only `main`, which never gives it back, frees), `ListInv` (a
  device's list holds the sessions allocated for it, each once, and the broadcast
  stands at one of them) and `FlyingInv` (what was at work when the shutdown passed
  it).  `ListInv` needs lemmas on removing an element from a sequence.

For a pool of any size and any threads (`PoolTimerProofs`): `PoolAlwaysSound`, by
`PoolSound` together with the types; the step is that the entry `fixed_free` writes
is just below the free ones.

For any delays and any finite set of timer threads (`PoolTimerProofs`):
`TimerAlwaysSound`, from `TimerSound` together with the types; the count of threads
left over goes through the cardinality of the threads alive.

For any devices with any interrupts, any number of channels and any table sizes
(`PciProofs`):

* `InterruptsRouted`, from the inductive invariant `IrqInv` of `IrqInvariance`.  `IrqRouted`
  speaks of requests that have ended; the invariant adds the one under way: the
  interrupts before `attaching` have the channel as a handler (`AttachComplete`), and an
  entry has it only if it is of one of those (`EntryOK`).  So the next interrupt does
  not have it yet, because the interrupts of a device differ, and it is added once.
  That the array written is never exceeded rests on the table being tested before each
  interrupt, and on the handlers being counted before their limit is.
  `MapSound` is kept because a redirected pointer keeps its index in the new array.
* `InterruptsRearmed`: an entry's way of masking is its group's (`EntryOK`), and what
  `msix_init` leaves is masked right in each of its outcomes (`RearmedAlways`).

For any BARs in any order (`PciProofs`): `AccessesRouted`, from `SpaceInv` of
`SpaceInvariance`.  The ranges only grow, so a clash is never undone: all the BARs are
usable up to a clash and none after it (`UsableFirst`).  `ThresholdSound` says that the
threshold is the end of the usable ports, below all usable memory.  `get_bar` finds
the first BAR that has an address, which is at or before the one looked for, so
usable, and ports and memory that are usable do not overlap.

For any delay, any option `-R` and any number of error interrupts and restarts
(`CardProofs`): `ErrorsFollowed`, from `ErrorInv` of `ErrorInvariance`.  It adds the
types, that the timer is armed only in bus-off, and what a wrong state is: error
passive, while the controller is error active or bus-off.  The proof is by the fields each function writes; `Toggling` is the core: the
state derived from the interrupt flags is the controller's if it was before, unless both
limits were crossed at once.

For messages of any identifier of 29 bits and any data (`CardProofs`):

* `FramesCarried`: what `cansend` sends `candump` prints, by what `netif_tx` and
  `sja1000_start_xmit` make of the identifier and what `sja1000_rx` and `netif_rx` make of
  it back; a standard identifier keeps its 11 bits.
* `WritesArrive`, that `WriteArrives` holds throughout `WriteSpec`, for every sequence of
  bytes, every queue size and every width of `can_msg.len`.  The inductive invariant
  `WriteInv` says that the queue holds the messages enqueued last, in a row, that those sent
  are before them and in order, and that without an overrun both together are all that
  were enqueued.  Each message is carried as by `FramesCarried` (`PiecesReceived`); a
  length that does not fit the field is cut to less than what is left, so that only one
  that fits arrives whole.
* `TimestampsFollow`, the part of `FrameRoundTrip` on timestamps, whichever of the three
  loads see the second setting, for all times and any count at which the milliseconds
  wrap: sums and differences taken modulo the count (`WrapSum`, `WrapDifference`).

The assumptions are `SizeAssumption` (the wrap of a full ring sets `begin` to 2, which
a ring of one or two messages does not have), `MaxStoredAssumption`,
`ThreadsAssumption`, `ClientAssumption`, `BoundsAssumption` and
`OptionsAssumption` (`TxPath`), `LifeAssumption`, `PoolAssumption`,
`TimerAssumption`, `WriteAssumption`, `LenWrapAssumption` (`can_msg.len` can hold 8), `WrapAssumption`
(the clock wraps at a positive count), and three on what is external.  `PciAssumption`: a group has at least one
interrupt (`pci_enable_device` makes none otherwise) and the PCI server gives a device no
interrupt twice; an entry has room for two handlers.  `BarAssumption`: a BAR in use has a size and is not at 0;
`mmap_device_io` returns the port itself, and `mmap_device_memory` an address
above all the ports.  `ErrorAssumption`: only the transmit counter reaches
bus-off.

The invariants `WaitInv`, `ReadInv`, `TxInv`, `IrqInv`, `SpaceInv`, `ErrorInv` and `WriteInv` were
checked by TLC on the instances of `queue_rx`, `tx_safety` and `cards` before they were
proved.

Model-checked only:

* all liveness properties: fairness is out of the prover's reach;
* `MissingChipsSurvived`, `FailedCallSurvived`, `HandledAlive` and `Released`: a probe is a fold over
  channels and a run over cards and options, so what they yield for every list takes an
  induction over data, which is out of reach too;
* of `FrameRoundTrip`, what `canread` prints (a fold over pieces), the filter (bits by
  powers of two, which no backend supports), the echo of option `-E`, and which
  files take a raw frame;
* `CalcSound` and `RequestedTiming`: `can_calc_bittiming` is a loop over divisors, and
  its result is compared by products and quotients of unknowns, which the SMT solver
  does not decide; `RestartConfigured`, because `can_changelink` takes the timing that
  loop finds;
* `OwnDriverSelected` and `WindowsDisjoint`, which have nothing to generalise: the tables of the drivers
  are finite and the run checks all of them.

## Not modelled

* Printing, logging and the parsing of options by the tools: output and text only.
* The kernel headers: declarations; constants and inline functions are translated
  where they are used.
* The PEAK and PLX drivers beyond their first use of the table entry, which
  `probe_all_driver_selections` passes as NULL, and with them `pci_read_config` and
  `pci_write_config`.  Their id tables and register windows are modelled.
* CAN FD, termination and the transceiver limit in `can/dev/`, which no supported
  card uses; `sja1000_reset_interrupt`, for an overrun quirk no card sets.
* The cards' own registers (EEPROM, GPIO, the time a reset takes) and hot unplug.
  `TxPath` has the limit on the interrupts of one run of the handler, but no run is
  long enough to reach it.
* A client's message with `len` above 8, which runs past `dat`.  In `CAN_DEVCTL_SET_TIMING`, that
  the chip is not in reset mode when its timing registers are written: the model has the
  values written.  In `io_read`, the bytes read once an overflow made `offset` exceed the
  oldest message (`ReadsInOrder` says nothing from there on).
* Failures of `ChannelCreate`, `timer_create` and `pthread_create` in `timer.c`, and of
  `malloc` for a blocked client or a read buffer.
* In `RxClient`, the devices of other clients; in `Life`, more than one device with an
  interrupt; `CAN_DEVCTL_SET_PRIO`, whose value nothing uses.
* Timing itself: a latency limit is a message that may expire at any time, a timer
  one that may.
