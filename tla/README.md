# A verification of chocolate_milk

chocolate_milk is a bare-metal x86 research kernel: a 16/32-bit bootloader that
loads itself and the kernel over PXE, a 64-bit multi-core kernel, and a few
libraries they share. This directory holds TLA+ modules translated from that
code, TLC configurations that check them on small instances, and TLAPS proofs.
`PROJECT.json` maps every definition to the lines it models and lists the
components, runs, mutants, findings, hazards and theorems.

## The system, part by part

| part | state | operations | interacts with | what is hard about it |
| --- | --- | --- | --- | --- |
| lock cells (`shared/lockcell`) | ticket, release, owner | lock, try_lock, drop | everything | every atomic access interleaves with other cores, interrupts and exceptions; counters wrap |
| interrupt masking (`kernel/src/core_locals.rs`) | disable count, depth counters, IF | enter_lock, exit_lock, handler entry and return | lock cells, dispatch | counter and flag change in two steps |
| range set (`shared/rangeset`, `bootloader/src/mm.rs`) | an array of ranges | insert, remove, allocate, the E820 scan | both allocators | loops that change the array they walk, limits, saturation |
| page lists (`kernel/src/mm.rs`) | linked nodes kept inside free pages, one list per core | pop, push, alloc_phys, free_phys | range set, page table, heap | the list is stored in the memory it gives out |
| page table (`shared/page_table`) | four levels of tables with use counts | map_init, map_raw, translate, free | both allocators | tables come and go, three page sizes, undo in the middle |
| bring-up (`stage0.asm`, bootloader `main.rs`, kernel `main.rs`, `acpi.rs`) | early stack flag, core ids, core states, barrier counters | load, launch, check in | panic, APIC | one shared stack, waits between cores, no timeouts |
| panic and soft reboot (`kernel/src/panic.rs`, NMI path of `interrupts.rs`) | pending panic, reboot request, core states | panic, disable_all_cores, soft_reboot | all of the above | any core, any moment, NMIs that latch |
| network stack (`kernel/src/net.rs`) | binds with packet queues, two locks | bind, unbind, recv, send, allocate | driver, DHCP | any user takes anyone's frames; packets are owned values |
| Intel driver (`kernel/src/e1000.rs`) | two rings shared with the card, spare packets | recv, send, allocate, release | card by DMA | the card acts at any time on its part of the rings |
| DHCP client (`kernel/src/dhcp.rs`) | a transaction | get_lease | network stack | packets of several servers and of earlier boots are under way; no timeouts |
| interrupt dispatch and APIC (`interrupts.rs`, `apic.rs`) | handler table, EOI table, drain mode, APIC registers | dispatch, EOI, timer, drain | lock cells, panic | an interrupt may arrive in any state of the drain |
| kernel heap (`kernel/src/mm.rs`) | next free address, one page table, a page list per core | alloc, dealloc, PhysContig | page lists, page table, TLBs | cores free what others allocated, and cache translations |
| ACPI and PCI (`acpi.rs`, `pci.rs`) | tables read once | parse, enumerate | bring-up, drivers | firmware data |
| PXE download (`bootloader/src/pxe.rs`) | a connection, the bytes so far | download, retry | bring-up, a TFTP server | every call may fail; the file changes between the calls |
| PE, images (`pe_parser`, `src/main.rs`) | none that lasts | parse, flatten | bring-up | error paths |
| serial, print, time, cpu, core_reqs, boot_args, mode switches | registers and small atomics | single steps | all | — |

## Modules

| module | models | role |
| --- | --- | --- |
| `CoreLocals` | disable counter, IF, frames of a core | used by `LockCell` |
| `LockCell` | one lock cell, all contexts of all cores | one action per atomic operation |
| `LockCellProofs` | | theorems about `LockCell` |
| `FreeMemory` | | what the range set promises: a set of addresses and the blocks handed out |
| `RangeSet` | the array, insert, remove, allocate_prefer, the two E820 passes | one action per loop turn; implements `FreeMemory` |
| `RangeSetProofs` | | theorems about `RangeSet` |
| `PageStacks` | | what the page lists promise: one stack of pages per core |
| `PageFreeList` | nodes in memory, pop, push, refill | implements `PageStacks` |
| `PageFreeListProofs` | | theorems about `PageFreeList` |
| `AddressSpace` | | what the page table promises: a set of mappings that changes by one page |
| `PageTable` | tables in memory, map_init, map_raw, translate, free | implements `AddressSpace` |
| `KernelHeap` | alloc, dealloc, PhysContig, the page table's lock, TLBs of all cores | composes page table and page lists, both abstracted |
| `KernelHeapProofs` | | theorems about `KernelHeap` |
| `KernelDownload` | the PXE calls of download, the retry loop, a server whose file changes | component of `Bringup` |
| `Bringup` | boot, barrier, panic, NMI, soft reboot of N processors | composes stage0, loader, download, kernel entry, ACPI states and the panic handler |
| `BringupProofs` | | theorems about `Bringup` and its download |
| `LocalApic` | handler table, EOIs, timer and teardown of the bootstrap core's APIC | composes `interrupts.rs`, `apic.rs` and the panic handler on one core |
| `LocalApicProofs` | | theorems about `LocalApic` |
| `DhcpClient` | get_lease, the network, the servers | |
| `DhcpClientProofs` | | theorems about `DhcpClient` |
| `IntelGbit` | the rings, the driver and the card | component of `NetDevice` |
| `UdpPorts` | | what the stack promises: a port has one user and delivers in order, once |
| `NetDevice` | binds, queues, leases, users on several cores | composes the stack and the driver; implements `UdpPorts` |
| `NetDeviceProofs` | | theorems about `NetDevice` |
| `MC*` | | values of the constants for TLC |

### Lock cells

A context is a frame of a core: its thread, a nested call inside its own
critical section, an interrupt handler or an exception handler. `pc` says where
the context is in `lock_int` or in `drop`; `ticket`, `release` and `owner` are
the three atomics, and `W` (2^32 in the code, 5 in the runs) is the modulus of
the counters. `CoreLocals` adds the disable counter and the interrupt flag with
counter and `cli`/`sti` as separate steps. Panics are end states of a context.

The model has one bound that the code does not enforce. `NoTicketWrap`: the
tickets do not go all the way round (2^32 of them in the code) while one try_lock
sits between its load of `release` and its compare-and-swap. Everything said
about lock cells, by runs and by proofs, is under this bound. The passing runs
number their cores 1 and 2: with a core 0 `DeadlockPanicIsReal` fails, which is
what `lock_fresh_owner` shows.

### Range set

`entries` is the array; `op` is the operation in progress and each turn of a
loop is an action, so the intermediate arrays are states. Addresses are
inclusive ranges up to `Max`; `UsizeMax` is the reach of a 32-bit pointer. The
refinement reads the free addresses as they will be once the operation in
progress is over. `WidthAssumption` says of the constants what the code has: an
alignment is a power of two, so it divides 2^64, and a preferred region is within
the reach of a pointer, because only the 64-bit kernel prefers one.

### Page lists

`mem` holds the contents of each page, read as a node; a page that is in use
holds junk. `stack` is a history variable: the pages of a core, oldest first.
`FreeListInv` says that following the nodes from `head` spells out that stack.

### Page table

`mem` holds the tables, `maps` is a history variable with what `translate`
finds. A table has `Fan` entries and addresses count small pages. One call is in
progress at a time (the callers hold the lock), with one step per page of the
loop in `map_init` and `free`. Running out of memory is an end state.

### Kernel heap

`KernelHeap` is what `PageTable` and `PageFreeList` leave out: several cores in
calls of the allocator at once. A table of the last level hangs off a directory,
a page list is a sequence and the range set a set of frames, so that the steps
between which cores interleave remain: the fetch_add on the next address, the
ticket of the page table's lock, each pop of a page, each entry written, each
page freed. `tlb` and `cached` are a core's translations and directory entries;
a walk may happen at any time, on any core, for any page (`Touch`), and only
the core that frees reloads CR3. `home` and `live` are history: the frame each
page was given, and the allocations in use. `astray` marks a directory entry
that a core still has although another core freed the table behind it.
Addresses are never used again, so `MaxVaddr` bounds how many calls there are; a
call begins when what is left suffices for it and for the calls that have begun
and not yet reserved their addresses (`CanReserve`), so that none gets stuck at
the bound.

### Bring-up

`pc` of each processor runs through stage 0, the bootloader, kernel entry, the
barrier, and the panic path; every access to memory that another processor also
accesses is a step. Keys on the serial port and panics are inputs that may come
at any step, at most `MaxKeys` and `MaxPanics` times. The bootloader fetches the
kernel with the steps of `KernelDownload`: any firmware call may fail
(`MaxFaults`), the server's file may be replaced at any moment (`MaxChanges`),
and an attempt that fails leaves its connection behind. A file is a version and
a length, and its bytes are told apart by version and position.

The properties of `Bringup` speak of the time up to and including the first soft
reboot (`FirstBoot`). A core that `disable_all_cores` passed over goes on into
the next boot, takes an identifier there, and may even get the one of the
bootstrap core: see `bringup_launched` and the known limits.

### Interrupts of the bootstrap core

`LocalApic` follows one core from its first interrupt table to the jump into the
bootloader. `bg` is where the background flow is, `vec` and `stage` the handler
on top of it, `irr` and `isr` the requested and in-service vectors. The timer
fires whenever it is running, vectors that nobody registered and NMIs of other
cores arrive at any step. A panic replaces what the core was doing, so that the
two loops of `Drop for Apic` meet the state an abandoned handler left. Maskable
interrupts do not nest (all gates are interrupt gates), the priority of vectors
decides which is delivered and which an EOI retires.

### DHCP

`net` holds every packet ever sent: one that is not lost can be received at any
time and any number of times. Two servers answer; a reset starts `get_lease` over
with a new transaction number while packets of the earlier call remain. A reply
is written in one of several forms, a destination and a list of options that may
hold one that the parser refuses. `Noise` is packets with the number of a call
that are not meant for it: no reply (op, lengths or cookie differ), or sent to
another card or to all. The transaction number is the low word of the time stamp counter in the code and
taken to be a new one each call.

### Network

`IntelGbit` has the descriptors, the registers rdh, rdt, tdh and tdt, and the
buffers. The card receives into the slots from rdh up to rdt and transmits those
from tdh up to tdt, between any two steps of the driver. In `NetDevice` a user
is a caller on some core; the steps of an operation are separated where it waits
for a lock or where the card can see a difference. The two locks are plain
holders here (their own behaviour is the subject of `LockCell`). What a packet
contains is the port it is for, or that it is not UDP (`udp` stands for the
header checks), or the message a user wrote; the contents of a packet are
forgotten when it is released and written before they are read again. The card
is assumed not to deliver frames longer than 1514 bytes (the driver leaves long
packets disabled in rctl), and there is memory for the packets needed.

## Runs

All runs check with TLC exhaustively. Every property has a mutant: a plausible
slip in the definition that models the code, under which the property fails.

| run | instance | shows |
| --- | --- | --- |
| `lock_no_preempt` | two cores, interrupt and exception handlers on one, lock from `new_no_preempt` | mutual exclusion; interrupts are off from the ticket until the release, and on again once the thread is outside of the lock's code |
| `lock_nested` | two cores, nested calls and interrupts on one, lock from `new` | ticket order, detection of self-deadlock and only of that, progress of every waiter |
| `lock_fresh_owner` | cores 0 and 1, first use of the lock | violation: the first use can raise "Deadlock detected" without one |
| `rangeset` | 10 addresses, 3 array entries, overlapping reports, one preferred region | reserved memory stays out, precision of the search and of the capacity panic, refinement of `FreeMemory` |
| `page_lists` | 2 cores, 6 pages, 2 slots per node, batches of 3 | consistency of the lists, refinement of `PageStacks` |
| `page_table` | 2 entries per table, 11 frames, 6 kinds of requests | counts, frames used for one thing only, no panic in `free`, all or nothing, refinement of `AddressSpace` |
| `heap` | 2 cores, 4 frames, batches of 2, 4 entries per table, blocks of 1 and 2 pages, until memory runs out | an access reaches the frame that was mapped unless the core holds a stale directory entry, no frame is lost or used twice at any step, every call returns |
| `bringup` | 3 processors, 1 key, 1 panic, 1 failed firmware call, 1 replaced file | one core at a time in the bootloader, the barrier, panics stop the tasks and are reported, the kernel is one whole file, at most one core is left at the first soft reboot, which ends in a new kernel; one panic or key alone never resets the machine |
| `bringup_launched` | 3 processors, 1 key | violation: a launched core is not stopped before the soft reboot |
| `local_apic` | 3 stray interrupts of 2 vectors around the timer's, 3 NMIs, 2 keys | EOIs match deliveries, the firmware gets back what it had, the teardown ends |
| `dhcp` | 2 servers, 2 addresses, 2 calls, 1 lost packet, a complete and a damaged form of reply | a lease is granted by the server it names to this call, requests are for what was offered, the call returns unless a packet is lost, refused or unusable |
| `net_device` | 2 users, 2 ports, 3 receive and 2 transmit descriptors, 1 spare packet, up to 3 frames and 2 packets sent by one user, 4 in all | one owner per packet, DMA stays inside its buffers, send returns after the packet went out, refinement of `UdpPorts`, no call hangs |

The bounds are small, and chosen so that the cases of the code occur. Two slots
per node make a list grow over a node's end and shrink back. Two entries per
table are the least that make a table with one entry left differ from an empty
one, and the requests overlap each other, cross the end of a table, run into the
non-canonical hole and end at the last address. Three array entries are few
enough for the capacity panic. Both rings of the card wrap around, though
not both in one behaviour. The receive ring holds two frames at once and fills
up; the transmit ring never holds more than one packet because `send` waits for
it. Four frames are few enough to run out in the middle of a call with the lock
held, and enough for a table to be freed and its frame to be used as a page while
another core remembers it as a table. Three processors are the least with a core
online, one on its way up and one that waits for it; the proofs cover the
invariants for any number. Three versions of the file, a whole number of packets,
a longer one that ends in a short packet and one shorter than a packet, make the
size, the connection and the packets disagree. Of the stray vectors one has a lower and one a higher priority
than the timer; three strays and three NMIs interrupt the teardown again and
again, also from inside a panic of its own.

Deadlock is checked in `page_lists` and `net_device`. It is not in the others,
where the system may stop: all cores panicked or halted, the kernel ran out of
memory, the range set's array overflowed, the lease is there.

## Fairness

* `LockCell`: strong fairness of every context's steps. A core executes its
  instructions; strong because an interrupt may take the core away again and
  again, yet each handler returns.
* `KernelHeap`: weak fairness of a core inside a call. A core that panicked stops;
  the property allows for it.
* `Bringup`: weak fairness of every processor and of the delivery of an NMI that
  is pending and not blocked. Keys, panics, failing calls and replaced files have
  none: nothing has to arrive, and the bounds say how much may.
* `LocalApic`: weak fairness of the core and of the delivery of what is pending
  and enabled. That strays and NMIs are bounded is needed: each one that is taken
  during the teardown panics and starts it over.
* `DhcpClient`: weak fairness of the client, which polls, and of the servers.
  Nothing forces a packet to be lost nor the machine to be reset.
* `NetDevice`: weak fairness of the card's transmit engine and strong fairness
  of a user inside an operation, since the ticket locks serve waiters in order
  (`FirstComeFirstServed`, `LockProgress`). Nothing is assumed of the network
  nor of users outside of an operation.

## Proofs

The theorems hold for every value of the constants that the named assumptions
allow.

* `LockCellProofs`, for any finite set of contexts smaller than the modulus
  (`WAssumption`). `TypeCorrect`, then `QueueInvariant`: the contexts in the
  queue have distinct tickets that fill the distance from `release` to `ticket`,
  the holder's ticket is `release`, and `release` has not run past `ticket` as
  seen from the value a try_lock has loaded. The last part makes the invariant
  inductive: with it, a compare-and-swap that succeeds finds the lock free. It
  rests on the bound `NoTicketWrap`.
  `MutualExclusionHolds` and `FirstComeFirstServedHolds` follow.
  `DeadlockPanicIsRealHolds` needs that no core has the identifier 0, the
  initial value of `owner` (see `lock_fresh_owner`).
  For locks that disable interrupts, `IntInv` ties the counter and the flag of a
  core to where its contexts are: the counter is the number of contexts between
  enter_lock and exit_lock (`RequestsCounted`); a context that waits for the lock,
  holds it or is about to release it has interrupts off, and a handler that turns
  them on as it returns is the outermost one, above no such context (`OffInv`);
  interrupts that are meant to be on are on, or the outermost handler will restore
  them (`OnInv`). The flag a frame has saved is what makes it inductive, since the
  return of a handler writes the flag without a look at the counter.
  `InterruptsOffWhileHeldHolds` and `InterruptsRestoredHolds` follow.
* `RangeSetProofs`, for any address width, capacity, memory map and requests.
  `AllocatorInv` (types, entries pairwise apart, a sensible state of the
  operation in progress and of the E820 scan) is proved together with
  `NoDoubleUse`, `ReservedStaysOut` and `BlocksInRange`, since the step that hands
  out a block needs all of them: that is `AllocatorSafe`. `AllocatorImplements`
  is the refinement of `FreeMemory` up to the panic on a full array.
  `SearchInv` says what the search knows when it looks at an entry: the entries
  before it have no room in the preferred region, and none at all as long as
  nothing was found. It rests on two facts of arithmetic, that the padded start is
  the first aligned address (`PaddedIsFirst`) and that the wrapping round-up of
  the code finds the region's room if there is any (`RegionFound`), and on one
  about the entries: since they are apart, a free run lies in one of them
  (`RunInEntry`). `AllocatesRightHolds` follows. `FullOnlyWhenFragmentedHolds`
  counts: the start of an entry starts a piece of free memory, so memory covered
  by `n` ranges that are apart has `n` pieces at least (`PiecesCounted`), and the
  range for which there was no room would have been one more.
* `PageFreeListProofs`, for any number of cores, pages, slots and batch size.
  `ListsCorrect` is inductive as it stands: the nodes spell out the stack, and
  stacks, pool, batches under way and pages in use are apart.
  `ListsImplementStacks` maps each step to one of `PageStacks` or to a stutter.

* `NetDeviceProofs`, for rings of any size (at least two slots), any number of
  buffers and users and any traffic. `DmaStaysInItsBuffers` says nothing of how
  the rings move; `NetInv` adds that: descriptor and buffer list agree slot by
  slot, a user inside the driver has its lock, the transmit ring is empty unless
  a user waits in `send`, and then the card is at that user's slot or one past
  it. Four lemmas about remainders place "the next slot" across the end of a
  ring. `DmaStaysInItsBuffersHolds` follows.
  `OwnInv` divides the buffers into those of the allocator, the spare ones, the
  receive slots, the queues of the ports, the queues that `unbind_udp` gives back
  and the users' hands (`Shared`), each without repetition (`NoneTwice`), and says
  where in its calls a user has a packet or a port (`Protocol`). That the slot a
  packet is taken from is filled again rests on `NetInv`. `OneOwnerHolds` follows.
  `SendsOnceHolds` is an action property: the card reads the packet of the user in
  `send`, whose message is newer than any that has gone out.
* `LocalApicProofs`, for every timer vector, set of stray vectors and number of
  interrupts, NMIs and keys. `ServiceMatchesHandler` needs in addition that a
  vector with a handler is marked in `EOI_REQUIRED` before it can be requested
  (`EoiInv`) and that no handler is on top of the way up, of a panic or of the
  restores (`FlowInv`). `HandOverClean` needs where the timer may run
  (`TimerInv`) and which registers are back at each step (`RegisterInv`). The
  conjunction `ApicInv` is inductive: `ServiceMatchesHandlerHolds`,
  `HandOverCleanHolds`.
* `DhcpClientProofs`, for every set of servers, addresses, masks, reply forms and
  noise and any number of boots. `DhcpInv` says of each kind of packet in the
  network what its existence proves: an offer stands at its server, a request of
  the current call is for what the client remembers, an acknowledgement answers a
  request and its server keeps to it. `LeaseIsGrantedHolds` and
  `AsksForOfferedHolds` follow. The code does not compare the acknowledgement
  with the offer; the proof shows where it may do without: one request per
  transaction number.
* `BringupProofs`, for every number of processors, keys and panics, up to the
  first soft reboot. `BringupInv` says for each place of core 0 which other cores
  are off, on their way, online or halted (`ZeroOK`, `LaunchOK`, `OtherOK`), that
  the check-in count is at most the number of cores that are past the check-in
  (`CountOK`), and that once core 0 panics there is one core at most that
  `disable_all_cores` passes over, in which case core 0 has not been counted
  (`PanicOK`). The last part makes it inductive: it is why a core that was
  passed over never gets past the barrier. `OneCoreInBootloaderHolds`,
  `BarrierHoldsHolds`, `PanicStopsTasksHolds` and `OneStragglerHolds` follow.
  `AloneInv` adds what one key or panic alone can do: no more than one NMI ever
  goes to core 0, which is pending or under way only until core 0 panics. So core
  0 is not in its panic handler when it takes it: `OnePanicNeverResetsHolds`.
  For every packet size and list of files, any number of faults and replacements
  and all boots, `DownloadInv` says that what has arrived is a prefix of the file
  the connection was opened for, although the size may be another's.
  `KernelIsWholeHolds` follows because a short packet ends exactly that file.
* `KernelHeapProofs`, for any finite set of cores, any frames, batch, table size,
  guard and sizes of blocks. `HeapInv` is inductive. Blocks in use, in calls and
  to come are apart, and the addresses suffice for the calls that have begun
  (`CallsInv`). Which pages are mapped follows from how far the calls are
  (`HomesInv`). A table has an entry for a page exactly where the page has its
  frame, and the count in the directory is the number of these pages
  (`TablesInv`): without it `free` could not be shown to give a table back exactly
  with its last page. Pool, lists, calls, tables and mapped pages share the frames
  between them (`FramesInv`). A cached translation is that of the page's frame
  or of a page that is never used again, and a cached directory entry the current
  one, but for the entries in `astray` (`CachesInv`). `FramesInOnePlaceHolds` and
  `AccessReachesOwnFrameHolds` follow. The facts about cardinalities that the step
  lemmas need are a hypothesis of theirs, `Counting`, which is proved from the
  library's theorems before the invariant is (`CountingHolds`).

Each of these inductive invariants was checked with TLC on the instances of the
runs before it was proved.

Only model-checked:

* All liveness properties, the self-deadlock panic among them: liveness under
  fairness is out of the prover's reach.
* The refinement of `UdpPorts`. The queue of a port is read from the receive ring
  with `SelectSeq`; what that does on a longer sequence is an induction over
  data, for which the provers cannot instantiate the library's theorems.
* The page table. Its walk is arithmetic with powers of `Fan`, and what `map_raw`
  and `free` do to several levels at once is a recursive function; the provers
  have neither exponentiation nor induction over the levels.
* What `Bringup` does after its first soft reboot, except the download.

## What the runs found

* While a lock cell is used for the first time, core 0 can panic with "Deadlock
  detected" though it holds nothing, because `owner` starts as 0
  (`lock_fresh_owner`).
* `disable_all_cores` skips a core that is launched but not yet online
  (`bringup_launched`). It is one core at most (`OneStragglerHolds`).

## Known limits

Behaviours that the models have, that the properties make an exception for, and
that a reader of the code should know of:

* A core that was passed over waits for the early stack and joins the next boot,
  where it may be the first to take an identifier. So the properties of `Bringup`
  are stated for the time up to the first soft reboot.
* With three processors and two panics a second NMI to core 0 stays latched while
  core 0 is in its NMI handler, and comes out at the `iretq` of the soft reboot,
  where it resets the machine. `OnePanicNeverResets` says that this takes two.
* With a network card (`NetDevices = TRUE`) `purge` of the device panics inside
  the soft reboot, which starts over for ever: `SoftRebootHappens` is checked
  without one.
* `PageTable::free` reloads CR3 on its own core only. When the last page of a
  table goes, another core may keep the directory entry, and reach through it a
  frame that has since become something else. `AccessReachesOwnFrame` makes an
  exception for exactly these entries (`astray`); for single pages no exception
  is needed, because addresses are never used again.
* `get_lease` waits without a time limit and sends nothing twice; `LeaseReturns`
  lists what keeps it waiting.
* `map_init` does not give back the page it allocated for an address that
  `map_raw` refuses.
* A comment in `apic.rs` says that the APIC is software disabled when the second
  loop of `Drop` begins; the code does not do so, and the drain relies on
  interrupts being delivered.

## Not modelled

* The PE parser: a pure function from the bytes of an image to its sections,
  whose bounds checks are about byte offsets that the models abstract from. A
  model of it would be a transliteration.
* The image builder of `src/main.rs`, a tool that runs on the host; what it
  prepares for a soft reboot is an assumption of `Bringup` (`Reinit`).
* Header bytes and checksums of `net.rs`: a packet is valid UDP for a port, or not.
* Searching and parsing of firmware tables (`acpi.rs`, `pci.rs`) and the probing
  of the network card: read once at boot, no state that changes later.
* Serial output, printing, time calibration, single processor instructions and
  the byte loops of `core_reqs`: no state that a property could relate.
* Composition of all parts in one model: `KernelHeap`, `NetDevice`, `LocalApic`
  and `Bringup` each take their locks, pages and packets from the abstraction that
  the component's own module is checked against.
