# PentinumOS: specifications, model checking and proofs

PentinumOS is a 32-bit x86 hobby operating system. Its current kernel
(`src/src/c-kernel`) has preemptive threads, mutexes, remote procedure calls
between threads, a buddy page allocator and per-thread page tables. An older kernel
(`src/src/pos-kernel`) has a virtual file system, USB and PS/2 drivers. A two-stage
boot loader (`src/src/bootloader`) starts either. This directory models the parts of
the system in TLA+, checks them with TLC and proves theorems about them with TLAPS.

## The system

| Component | State | Operations | Interacts with |
|---|---|---|---|
| Boot loader, `bootloader/Stage-2` | sector allocator, FAT cache, open files, page tables, kernel map | partition table, FAT32 search, read and seek, ELF loading, identity pages | BIOS disk; hands memory and kernel maps to a kernel |
| Start of c-kernel, `boot/boot.c` | how far the start is | processor tables, consoles, heap, pages, timer, scheduler, hand-over, with interrupts on | everything below |
| Processor tables and interrupts, `arch/GDT`, `IDT`, `ISR`, `IRQ`, `resources/timer.c` | GDT, TSS, gates, handlers, PIC masks, tick counter | set-up, dispatch, EOI, panic of an unhandled interrupt | calls the scheduler's handler |
| Scheduler, `syscore/mt/kernel.c` | `g_kmt_ctx`: thread pool, 31 ready queues and their bitmap, sleep heap, preemption flag | create, wake, sleep, kill, override priority, `kmt_schedule`, timer handler with wake-up, aging and preemption | called by every thread; entered by the timer interrupt |
| RPC, `kernel.c:610-708` | per thread: request queue and return code | call, listen, return | blocks and wakes through the scheduler |
| syscore, `syscore/syscore.c` | server loop, template page table | echo and page requests, spawning of threads | RPC, page manager |
| Mutexes, `kernel.c:501-600` | pool of mutexes with owner and waiting queue | create, lock, unlock, is_owned, free | block and wake through the scheduler |
| Console, terminals and log, `boot/vga_txt`, `resources/tty.c`, `utils/logger.c` | screen, buffer of tty1, colours, `g_panic` | put, scroll, buffer, flush, scoped lock, log, panic printing | mutexes |
| Buddy allocator and page manager, `syscore/mem` | tree of nodes; list of pages per thread | search, split, merge, mark, allocate, map, free | paging, heap |
| Paging, `arch/paging` | directories and tables | map, copy, look up | page manager |
| Heap, `utils/heap.c`, `std/heap.cpp` | nodes tiling a pool, two bins | malloc, aligned malloc, realloc, free | everything |
| PCI hub thread, `threads/pcihub` | list of devices | enumerate, print | RPC, log |
| pos-kernel memory, `cpu/memory.cpp`, `std/bitmap` | page bitmap with a cached free bit | mark the firmware's map, allocate, copy the hand-off | heap |
| pos-kernel interrupts, PIT and PS/2, `arch`, `hw/pit`, `hw/ps2` | masks, handlers, timeout, keys | dispatch, timeouts, controller set-up, keyboard handler | file system, console |
| pos-kernel file system, `vfs/vfs.cpp`, `main.cpp` | node tree, event queue | add nodes, queue, pop and dispatch events | drivers |
| pos-kernel PCI and USB, `hw/pci`, `drivers/usb` | devices, BARs, queue heads and transfers shared with the controller | scan, probe, reset, insert, wait with timeout, remove | file system |

What makes the components correct, and hard:

- *Boot loader.* Every disk read may fail or be retried; files are chains of clusters
  scattered over FAT sectors of which one is cached; buffers are sectors of a bump allocator.
- *Start.* Interrupts are on from the first step; each line must have its gate and handler
  before it is unmasked, and the callback may come before what it uses.
- *Scheduler.* Status, queues, bitmap and the running thread describe one fact four times
  and are updated by hand, while the timer interrupt may arrive between any two
  instructions. One global preemption flag is saved in the stack frames of many
  threads. The handler runs three nested loops over lists it changes.
- *RPC.* A wakeup may be lost between a look at a queue and a block; an answer
  may arrive before its caller waits, or be given to another request.
- *Mutexes and terminals.* Scopes nest; the end of an inner scope must not release the
  outer one; ids are used again after a free. A log record is many writes, of several
  threads, through one shared buffer and one shared colour.
- *Memory.* Trees and lists that change under an iterator; merging of what comes back;
  regions that end within a page; failure between two steps.
- *Drivers.* A controller works concurrently on memory the driver reuses after a timeout;
  devices come and go; a timeout is three assignments that interrupts can separate.

PROJECT.json lists the hazards at their lines, with the properties that cover them.

## Modules

| Module | What it is |
|---|---|
| `Kmt` | the scheduler state as a record, every kernel function as an operator from state to state, and what a consistent state is |
| `KmtSched` | the state machine: thread calls, boot hand-over and timer interrupt as actions; properties and fairness |
| `KmtProofs`, `KmtSchedProofs` | lemmas on the operators of `Kmt`; the inductive invariant of `KmtSched` and the theorems |
| `KmtRpcProofs`, `KmtMutexProofs` | invariants of RPC and mutexes on top of it; RPC implements `RpcService` |
| `KHeapProofs`, `BootProofs`, `PosKernelProofs` | the heap; the loader, with the image it loads, the start of the c-kernel and what it prints; interrupt lines, timeouts, events, BARs, USB devices and the hand-over of pos-kernel |
| `PageMgrProofs` | the buddy tree under split, update and merge; the page allocator implements `PageAllocator`; threads reach their own pages unless the template's tables are handed out |
| `RpcService`, `KmtRpc` | the abstract promise of a call; RPC and the syscore thread on top of `KmtSched`, which refine it |
| `KmtMutex` | mutexes and the scoped terminal locks on top of `KmtSched` |
| `KHeap`, `PosHeap` | the heap of the c-kernel; the same with `realloc`, as the pos-kernel has it |
| `BuddyAlloc` | the buddy tree: pure operators |
| `PageAllocator`, `PageMgr` | the abstract page allocator; page manager, page tables and threads over `BuddyAlloc`, which refine it |
| `Pic` | the two 8259A controllers (external), used by both kernels |
| `KIrq` | processor tables, gates, dispatch and timer of the c-kernel |
| `VgaTxt`, `Tty`, `KStart` | the text screen; terminals, log and their locks; the start of the c-kernel and what its threads print |
| `BootFat`, `Boot` | FAT32 and the disk; the second boot stage |
| `BootChain` | `Boot` followed by `KStart`: from power on to printing threads |
| `PosMemory`, `PosIrq`, `Ps2` | pos-kernel: page bitmap and hand-off; interrupts and PIT; PS/2 controller and keyboard |
| `Vfs`, `PosPci`, `Uhci` | pos-kernel: node tree and events; PCI scan and BARs; the UHCI driver with its hardware |
| `PciHub`, `PosScan` | the c-kernel's PCI enumeration, recursive operators; its comparison with `PosPci`'s scan |
| `PosKernel` | all of pos-kernel, from `initialize_hw` to its main loop |
| `MCSched`, `MCRpc`, `MCMutex`, `MCPages`, `MCBoot`, `MCPosKernel` | small instances for TLC |

Composition: `KmtRpc` and `KmtMutex` extend `KmtSched`; `PosHeap` extends `KHeap`; `PageMgr`
extends `BuddyAlloc`; `KStart` is `KIrq` and `Tty` (over `VgaTxt`); `BootChain` is `Boot` and
`KStart`; `PosKernel` is `PosMemory`, `Ps2` (over `PosIrq` and `Pic`) and `Uhci` (over `PosPci` and
`Vfs`); `PosScan` adds `PciHub` as an instance. The scheduler, the memory and the start of
the c-kernel are three models: each sees of the others only what is said below.

## Correspondence

### Scheduler, RPC, mutexes

`kmt` is `g_kmt_ctx`. `ready[p]` is the list reachable from the head of queue `p`;
`tail[p]` only says what the tail pointer is: null, the last reachable node, or stale, a
node the aging pass has unlinked without moving the tail (kernel.c:256-260). Threads
pushed behind a stale tail are in `lost`. `saved[t]` is the stack of flags the
open `STOP_PREEMPTING` scopes of a thread hold, and `resume[t]` tells where the thread
continues: its entry point, the call it blocked in, or the interrupt that preempted it.
`irqOn` and `inService` follow from that: only a thread that continues in the interrupt
reaches `PIC_EOI` and `iret`. `sleepers` is the sleep heap as a set of requests with the
ticks that are left; the array and its sift loops are abstracted. `handler` is the
position of the timer handler in its loops. `OverridePriority` sets any priority up to `MaxPrio`; the
code takes any byte, and one above indexes past the queues, which is left out. `panic` is the reason the kernel stopped.

A kernel function runs with preemption disabled on one processor, and the timer handler
returns at once in that case, so a function is one step, up to the point where it
switches tasks. `RestoreFlags` and the return from a blocked call are merged into the
switch (`SwitchIn`) when nothing else follows in the function; `CallReturns`,
`ListenReturns` are actions of their own because more does. The handler cannot be
interrupted (interrupt gates), and is split into one action per loop iteration only so
that the termination of its loops can be stated.

A null pointer that is followed ends the model (`panic`): page 0 is mapped, so the real
kernel goes on with whatever lies there and nothing can be said of it.

`WakeupThread` wakes a thread that is new, that called `kmt_sleep`, or that sleeps until a time. The last
leaves its request on the sleep heap, as the code does (kernel.c:443 has a TODO): when it runs down it makes the thread ready
whatever it is doing by then, so a thread may be queued twice, a dead or running one made ready, or a
later sleep ended early. `cut` counts such calls and `NoSleepCut` says that there was none. No
caller in the repository makes one (syscore.c:67 and :205 and kernel.c:425 wake new threads, and nobody wakes the
thread of `test`, which sleeps), so most properties of the scheduler are claimed until the first: without the premise TLC
finds, for instance, the panic over a thread that is not ready. `BitmapExact`, `PreemptionScoped` and the first half of `SleepersSleep`
(a sleeper always has a request) hold after it too, and `SleepsItsTime` says that the first sleep to end early is that one.
The run allows one such call (`MaxCut`); `KmtRpc` and `KmtMutex` have none, like the repository.

The guards on other callers follow the repository: the boot thread only hands over, the idle thread
never blocks by sleeping or ending. In `KmtRpc` syscore is the one callee, is created
by the idle thread and creates the others while it sets up. In `KmtMutex` any thread
(and the boot thread, early) opens terminal scopes, up to `MaxNesting`; a thread that
waits for a mutex is never woken again, because the loop of `kmt_unlock_mutex` drops all
waiters that are not terminated, so the second round of the wait loop
(kernel.c:547-549) has no action; `WaitersBlocked` checks that it has none.

### Heap and pages

`KHeap` counts in units of 16 bytes, the size of a header; `heap.node` maps the address of
a header to its fields and the two bins are sequences. `PosHeap` adds `realloc` and the
flag `raised` of the pos-kernel. A node of `BuddyAlloc` is <<order, first page>>; its two
bit sets (`st` of status, `mp` of mapping kinds) summarise the leaves below it, and
`Repair` recomputes them upwards as the code does after each split, merge and marking.
Addresses of the firmware's map count half pages, so that regions begin and end within a
page. In `PageMgr` a request of a thread is one step (syscore serves one after the other);
`stray` is a history variable for blocks in use that no context records, the ones
that leak when a mapping fails. `make_template_page_table` and `syscore_spawn_thread` map onto itself what is in
use when they run, so threads share identity mappings through the template's tables as well as their own pages.
`MarkPages` goes on from the value of a node that a merge may have freed, which the memory keeps as long as nobody
is given it (the hazard at buddy.c:320). A page that a reserved and a usable region share belongs to the one listed later: `Reserved` leaves
out the pages a usable region that comes later begins or ends in, because the code rounds both its ends so as to
take them (buddy.c:367), and hands them out. Loops of the code are recursive functions over their rounds
(`Repair`, `MarkPages`, `Boot`, `DestroyContext`), and so is `Size`, the powers of two; a step that
ends in a kernel panic leaves `phase` where it was.

### Boot loader and start of the c-kernel

A step of `Boot` makes at most the disk reads of one pass through a loop, each of which
may fail or be retried; a unit of data is named by where it lies on the disk, so that the
image in memory can be compared with the file. `SearchDirectory` reads any cluster
it is led to as a directory: `disk.dirs` says what the bytes of a cluster are when they are read as entries, also of a
cluster that holds part of a file, and one that is not in it is empty. It never sees the end of a chain, because it compares 16 bits with
a 32-bit mark (FAT32.c:192), and reads on at cluster 65535, or at 65534 when a read of the FAT failed. The loader does not run with interrupts
it would notice. In `BootChain` the kernel runs only when the image it was given is intact.

In `KStart` the boot thread takes a step at a time and a pending interrupt comes before its
next step; its log lines are one step each, since nobody else prints yet. Heap and page
allocator succeed or end in a panic. After the hand-over three threads print, interleave
freely and may be stopped by an exception at any moment: more behaviours than the
scheduler of `KmtSched` has. Interrupts are followed up to the hand-over. The pcihub thread
gets its pages and prints its devices, or panics by `thread_panic`. A thread that finds the
terminal's mutex taken blocks; when it is then unlocked, the kernel panics, as
`mutex_contended` shows for the code of `kmt_unlock_mutex`. `out.wild` marks text stored past the
buffer, through a `buffer_pos` that was never initialised.

### pos-kernel

`PosKernel!Init` chooses one of `Setups`. `pc` goes through `initialize_hw`, the PCI scan, the
drivers and the main loop. A visit of the host controller to the schedule is one step
and the data packets of a transfer are one packet. Interrupts, timer and keyboard
are followed until the scan starts; requests to the slave controller are part of the
set-up; keys are pressed only at the prompt; between the assignments of `PIT_setTimeout`
at most one tick comes. `machine` is the configuration space; a USB device may be
pulled out or put in at any moment after the start. What it says of itself matters where the code does not look at it:
a packet size of 0 is divided by (`divided`, uhci.cpp:465), and a string whose first byte, its length, is 0 or above
127 is copied with a length below 0 taken for unsigned (`overrun`, uhci.cpp:261-263); both stop the kernel for good.

The kernel map is a count and a pointer to its entries. `alloc_cp` copies the two and what happens to lie behind them; the
entries stay in the loader's pool at 0x20000, in pages the bitmap has as free, although the comment at memory.cpp:122 says
"copy all contents of kernelInfo". Nothing in pos-kernel reads them after that or calls `alloc_page` again, so no run is spent on it;
`HandoffSurvives` is about the blocks that are copied, and that none of them is put over the entries.

The interrupt controllers are of two kinds: emulated ones, which ignore the mode bit of ICW4, and the 8259A, which
does not. The keyboard's controller starts with any configuration the BIOS may have left (`config`).

## Runs

| Run | Instance | What it shows |
|---|---|---|
| `sched_safety` | 4 threads (boot, idle, 2 others), priorities 0..2, age 2, sleeps up to 2 ticks, 1 scope, 1 sleep cut short by a call | `TypeOK`, `ReadyQueuedOnce`, `BitmapExact`, `OneRunning`, `SleepersSleep`, `PreemptionScoped`, `HighestFirst`, `SleepsItsTime` |
| `sched_irq_masked` | age 4, as in the code | violated: a thread runs with interrupts off |
| `sched_aging_head` | age 4, as in the code | violated: aging the head of a queue follows a null pointer |
| `rpc` | 5 threads, so two callers, two kinds of request | `NoLostWakeup`, refinement `ImplementsService`, `RequestsAnswered`, `HandlerEnds`, `SleepersWake` |
| `mutex_safety` | 4 threads, 2 mutexes, 2 nested scopes | `ScopesExclusive`, `WaitersBlocked` |
| `mutex_contended` | the same | violated: the first contended unlock follows a null pointer |
| `heap` | pool of 12 units at a misaligned base, sizes 1..3, alignments 2 and 4 | `NodesTileThePool`, `ListsAgreeWithFlags`, `DataIsPrivate` |
| `heap_realloc` | pool of 12 units, sizes 1, 2, 4, 8 | violated: `realloc` cuts a node one header too large |
| `pages` | 16 pages, 4 to a table, 2 spawned threads, two memory maps | `NodesSummariseLeaves`, `SearchIsComplete`, `ReservedPagesStay`, `ThreadsReachOwnPages`, refinement `ImplementsPageAllocator` |
| `pages_template` | the same | violated: a spawned thread gets a page of the tables all threads share |
| `boot` | seven volumes, a screen of 5 by 3, a terminal buffer of 2, three printing threads | `KernelImageIsLoaded`, `FailuresStopTheBoot`, `BuffersApart`, `StartInterruptsHandled`, `TextInItsColour`, `ScreenShowsTail`, `RecordsWhole`, `PanicIsLast`, `BootEnds`; no deadlock |
| `pos_kernel` | six machines, three memory maps, four kinds of keyboard controller, three configurations of it, two kinds of interrupt controller, 2 ports, 3 tries, 2 polls, 2 plugs, 2 key presses | `PciDevicesListed`, `EventsInOrder`, `BarsKeepAddresses`, `UsbDevicesListed`, `HandoffSurvives`, `TimeoutsTakeTheirTime`, `KeyboardServed`, `KernelSettles` |

Each property of a passing run has a seeded fault (`Seed_...`, an operator next to the one it
alters) that breaks it.

### Bounds

*Scheduler.* Four threads are the two special ones and two ordinary ones, enough for one to
wait behind another in a queue and for the last node of a queue of two to be promoted.
Three priorities give one that is not aged, one to promote from and one where the
promotion is capped. Two requests at a time let callers queue; two mutexes let one be
freed and created again while the other is held. `AgeTicks` is 3 instead of 4 in most runs and 2 in `sched_safety`,
so that promotions happen early; the two violation runs about the scheduler use 4. `MaxSleep`,
`MaxScope`, `MaxNesting` and `Asked` bound what threads ask for.

*Memory.* Twelve units hold four nodes with free ones between them, the end of the heap bin
and a padding node; the base is not aligned, so that aligned requests need padding. Sixteen
pages are five levels of the tree; a table of four entries makes ranges cross tables.
`RequestAt` and `RequestSize` choose a page within one table and a range across two.
`Memory` is the end of usable memory and of the kernel, a whole number of page tables. The tree spans
4 GiB in the code and the usable memory in the run; the pool, at 0x7FFF0000 in the code, lies above. The assumptions say that usable
memory ends below the pool, and that a request names no address (0) or one above memory that is not
the pool's. The code checks neither: the one address a caller names is 0x08000000 (pcihub.c:9), so this is a
machine with at most 128 MiB, which is what the scripts give qemu (`dbg`, `-m 128`).
`pages` and `pages_template` have the layout of linker.ld, scaled down: the template's tables lie behind the kernel
and in no section the boot marks. On these 16 pages the second spawn gets one of them; on a real machine it takes more. Two threads
share the template's tables. One memory map has a reserved region that begins within the last usable page; the other has
a usable region that begins within the page in which ACPI data listed before it ends, and regions listed later that reserve
parts of it.

*Boot.* The volumes: the kernel in one piece; scattered over several FAT sectors
with its entry in the second cluster of the root directory; no kernel; no kernel and a root directory without an empty name, so that the search goes
on at cluster 65535 and round through the bytes of a file for ever (`Endless`); a chain and a
size that are cut short; not FAT32. The ELF has segments out of order, one that is not
loaded, one without file data and one whose memory exceeds its file. The screen is small enough to
wrap and scroll, the buffer small enough to fill within a record. `StalePositions`
has a position at the start, one within and one past the buffer.

*pos-kernel.* The machines have a bridge whose function 1 leads to another bus, several host bridges, none,
two controllers, 64-bit BARs, and devices on either, both or no port. The memory
maps have memory above 4 GiB and pieces smaller than a page. The controllers for keyboards are absent,
dead, slow and prompt; the BIOS leaves a prompt one as firmware usually does, with everything off, or with everything on.
Memory maps, keyboards and interrupt controllers vary on the machine with the least else (`MCSetups`): the phases share no state but the order they come in.

### Deadlock and fairness

Deadlock is checked in `heap`, `pages` and `boot`: in `boot` the states where the machine may stop are
`Over` and in all others somebody can go on. It is not checked where a panic stops
the kernel for good (scheduler) or the kernel halts (pos-kernel).

`FairSpec` assumes that the processor executes the instructions of the
interrupt handler (weak fairness of `HandlerStep`), nothing more: threads may spin. `RpcFairSpec` adds
strong fairness of the steps of syscore: a thread that is dispatched again and again gets on
between the interrupts. That a sleeper wakes or a request is answered needs that the
handler keeps being entered, which is the premise of `SleepersWake` and `RequestsAnswered`: it does not
follow from the code, as `sched_irq_masked` shows. `RequestsAnswered` also excludes the case
that aging cut syscore off its queue.

`ChainSpec` assumes weak fairness of the loader's steps: nothing interrupts the loader. `BootEnds` is claimed where the search of the root directory ends
(`SearchMustEnd`): on `Endless` it goes round clusters 65534, 65535 and 12, and if cluster 65534 is full of names, reads of the FAT that fail
can keep it there. The `Spec` of
`PosKernel` assumes that the kernel runs on and its sleeps end (nothing but interrupts shares
its processor), that it takes its interrupts, that the timer ticks, and that a
keyboard controller that is not dead acts some time. Nothing is assumed of USB
devices: they may stay silent, and `KernelSettles` holds because every wait is bounded. Its premise `MachineSuits`
is that no device sends the packet size or strings that stop the kernel, and that the interrupt controller is not one
whose first interrupt panics.

### Disagreements found

1. `sched_irq_masked`: the task switch in the timer interrupt leaves interrupts off and
   the PIC waiting for its EOI whenever the next thread is new or was blocked in a call
   (kernel.c:178, comment kernel.c:88). In effect only the boot and idle threads get ticks.
2. `sched_aging_head`: promoting the head of a ready queue dereferences null
   (kernel.c:264-268, comment kernel.c:251).
3. `mutex_contended`: the loop over the waiters has its condition inverted (kernel.c:568,
   comment kernel.c:559-560).
4. `pages_template`: the boot marks the loader's page tables as used (buddy.c:411) and not the pages of the
   template (`__ptable_template_start`, linker.ld:76), which lie behind everything that is marked. They are handed
   out to threads, who then write over the tables that every thread runs on.
5. `heap_realloc`: `realloc` cuts the free node behind the one it enlarges into a node that is one
   header too large and overlaps what follows (heap.cpp).

### Behaviour that is modelled and not claimed to be wrong

c-kernel: promoting the last of several nodes leaves a stale tail and loses later threads;
the boot thread can be preempted between enabling preemption and dying, and then
stays ready at priority 0; a sleep request stays on the sleep heap after a call
woke the sleeper, and fires later; pages leak when a mapping fails. `buffer_pos` of a terminal is not
initialised; text in the buffer of tty1 is not shown at a kernel panic; the tab loop looks at
the column it has reached; `g_shared_object_mutex` is never created and so is mutex 0, that of tty1;
`thread_panic` holds no lock between its messages.

Boot loader: a seek adds to the position it should replace, so segments are found only
while the sum of all seeks stays within the file (`KernelIsLong`, the condition under which
`KernelImageIsLoaded` is stated); the results of two reads are not looked at.

pos-kernel: the ports of the slave controller equal the master's, so the master is programmed with
the slave's bytes too. The base and mask come out right while line 2 stays masked, but the last byte is the master's ICW4: 04h, without the bit of
8086 mode that PIC.c:66 names. Emulated controllers do not heed it; on an 8259A the first interrupt panics. `PS2_init` writes back a configuration
with the keyboard's clock off, and the keyboard works because a later command
turns it on; what `PS2_out` returns is ignored; `resetPort` takes the enable bit of
port 0 for that of every port; the lower half of a 64-bit BAR is not restored by its probe and the upper half, taken for
an I/O BAR, loses two bits; a device's packet size of 0 or a string of a bad length stops the kernel; the entries of the kernel map are not moved; the loader's page tables
are never reserved; `find_false_bits` tries only the first false bit of a byte; sizes of the memory map are
cut to 32 bits.

## Proofs

Every theorem is proved for all values of the constants, from the named assumptions of the
modules alone, except where a hypothesis is written in the theorem.

*Scheduler* (`KmtSchedProofs`, from `KmtAssumption` and `SchedAssumption`: at least two threads, any
number of priorities, any age limit).

- `Invariant`: `Spec => []CutInv`, where `CutInv` is `IInv` as long as no call has cut a sleep short (`NoSleepCut`), and the
  claims of the theorems on the scheduler carry that premise: the request such a call leaves breaks `IInv` in the code. The safety properties that follow are not inductive one by one:
  that a popped thread is READY needs that queues hold ready threads once; that a promotion
  keeps this needs that the node is unlinked before it is pushed; that the bitmap is exact
  needs that a tail is null exactly on an empty queue. `IInv` is their conjunction with
  `Uncreated` (a thread that does not exist is TERMINATED and not asleep), `ScopeOf` (each
  suspended thread has a saved flag to restore, the innermost flags are off, and a
  thread without one is fresh) and `BootInv` (until the hand-over nothing has happened).
- `TypeCorrect`, `ReadyThreadsQueuedOnce`, `BitmapMatchesQueues`, `OneThreadRuns`,
  `HeapMatchesStatuses`, `ScopesAreLocal`: the properties of `sched_safety` of the same meaning;
  `DispatchIsSafe`: the scheduler never runs a thread that does not exist or is not ready.
- `HeapMatchesStatuses` holds after such a call too, in its first half: `AwaitedInv` says that a thread that sleeps has
  a request in the heap, and that no step but `SleepUntil`, which adds one, puts a thread to sleep.
- `HighestRunsFirst`, `SleepIsNotCutShort`: the two action properties, the first until a sleep is cut short, the second
  up to and including the call that does it. Each action's lemma concludes `Frame`,
  what the step leaves alone besides keeping `IInv`, which also carries the proofs of the next two groups.

A lemma of `KmtProofs` for each operator of `Kmt` (push, pop, wake, retire, suspend, dispatch,
switch) says what it preserves; `KmtSchedProofs` has one lemma per action.

*RPC* (`KmtRpcProofs`). `RpcInv` adds to `IInv` where each caller is: `kmt.status`, the queue, the
request being served and the answer given determine each other, also while the
callee is preempted between its look at the queue and its block. `NoWakeupIsLost` is a consequence.
`CallsImplementService` is the refinement: `RpcInit` gives the service's initial states and
each step of `RpcSpec` is one of its steps or a stutter, from `RpcInv`.

*Mutexes* (`KmtMutexProofs`). `MutexInv` adds to `IInv` that the scopes a thread has open, the saved
ownership flags and the mutexes' owners agree, that ids of freed mutexes are in no scope, and that waiting queues
are disjoint. `LocksAreExclusive` and `WaitersAreQueued` follow: no thread is ever woken from a mutex, which is
why the second round of the wait loop is not needed.

*Heap* (`KHeapProofs`, from `PoolAssumption`: any pool, base and choice of requests). `HeapInv` says that nodes
tile the pool (`Tiles`: the next header is where this extent ends, and nothing lies between), that bins are
sequences without repetition whose members have the flags of the bin, and that each user
holds a node that is not free and long enough. `PoolIsTiled`, `ListsAgree`, `UsersAreApart`.

*Boot loader* (`BootProofs`).

- `FailuresAreSeen`, under `FailuresLeadNowhere`: from cluster 65534, where the search of a
  directory goes on when a read of the FAT failed (it takes 16 bits of the error mark), it meets no entry
  with the kernel's name. On a volume where it does, the kernel is found although a read failed, and no test stops it. `LossInv` says for each
  place in the loader which failures can have been met without being looked at, and in which clusters (`StaysIn`) a search that met one is.
- `BuffersStayApart`, under `FewSegments`: the ELF's program headers fit between the pointer of the upper
  stack and the lowest buffer. As sizes are given in the wrong unit, the upper stack starts at sector 9
  after the path's bytes were freed as sectors; 5 sectors, 320 headers, fit for clusters of
  up to 4 sectors. `PlaceInv` assigns each buffer its place and bounds both stack pointers by the place in the code.

- `ImageIsLoaded`, under `FileIsWhole` and `BootAssumption` (at least one page table): directory entries with the
  kernel's name are the kernel's, its chain is as long as its size says in cluster numbers of 16 bits, and
  its LOAD segments share no memory. The chain is cut to 16 bits by the code, so on a volume where the kernel
  lies beyond cluster 65535 the theorem says nothing. `LoadInv` says that the cached sector of the FAT is the one
  the driver takes it for, that the buffer of the handle holds the cluster at the position `q` of the chain, so that the
  byte `p` in it is number `q * BytesPerCluster + p` of the file, that during a read the
  position is the segment's offset in the file (plus what the seeks have added) and as many bytes more as were
  read, and that memory holds the table, the segments before and the first bytes of this one. It is claimed
  while no read was lost and for files in which the seeks stay (`ImageInv`); a lost read is the matter of `FailuresAreSeen`.

TLC evaluates the three hypotheses on the volumes of the run (`MCBootAssumption`), `Endless` among them.

*Start of the c-kernel* (`BootProofs`, from `TssAssumption`: `g_tss` has an address of 32 bits).
`StartIsInterruptible`: `StartInv` follows the controllers' registers, gates, handlers, masks and the interrupt flag
from step to step of `start`: after `init_pic`'s ten bytes both controllers are remapped and masked; the only
line ever unmasked is the timer's, and interrupts are off from before that until it has its handler. A base cut
into the three pieces of a descriptor comes back whole.

*What is printed* (`BootProofs`, from `ScreenAssumption`: a screen has a row and a column; `BufferAssumption`:
a buffer has room and stale positions are numbers; `PrinterAssumption`: the printers are among the three threads
whose code is modelled). Three layers:

- The screen. `ScreenInv` says that the rows are the tail of the lines into which what was shown is broken
  (`ShowsLines`), the cursor after the last, and that cells have the colours of their characters. `CellShows` and
  `LineEnds` are the two things a character can do to it, write a cell and end a line, with or without scrolling;
  `PutcKeeps` and `TabKeeps` follow the branches of `vgatxt_putc`, `WriteKeeps` its loop.
- The terminal. `OutInv` adds that what is buffered is all of the colour the next flush gives it, the reason why
  `tty_printf` flushes before it changes colour. `Stream`, the records shown and then those buffered, grows by the character
  written (`BootPrintKeeps`), whether a flush happens before it, after it or not at all.
- The threads. `Programs` shows of each thread's code that its scopes nest (`Nested`), that the lock is held from the
  first character of a record to its last (`HeldWithin`), and that it ends its line. `Locks` ties the nesting at each
  thread's position to the owner of the mutex, `Coloured` the colour of the terminal to the
  last write of each thread, and `Written` the stream to the positions: a record of which some characters are written and some
  are not is the last of the stream. A panic may cut in anywhere, also between the characters of a record: `PanicShown`
  says what it leaves on the screen.

`TextIsColoured`, `ScreenIsTail`, `RecordsAreWhole` and `PanicMessageIsLast` follow from `PrintInv`, which joins them. That
characters still buffered at a panic are not shown contradicts none of them.

*pos-kernel* (`PosKernelProofs`, from `Ps2Assumption`: a timeout has at least one second and a
second one tick; the code has 3 and 18). `TimeoutsKept`: from `TimeInv`, which relates ticks left, elapsed
ticks, the timer's flags and each place between the assignments of `PIT_setTimeout`, where a
tick of the timeout before may fall; the timeout before may have ended or not. `KeyboardIsServed` has two
halves. That lines are served follows from `LinesInv`, gates, handlers, masks and lines in service through the
start, and `ByteInv`, which relates the keyboard's output buffer to its interrupt line; `PIC_remap`'s eight bytes
for two controllers, all of which reach the master, are followed by the prover through `OutbBoth`, with the mode the last of them
leaves: an interrupt that panics is one of an 8259A. That the keyboard is on, whatever
configuration the BIOS left, follows from `KeyboardInv`: at each of the 16 accesses of `PS2_init`, `Dialogue` says what the controller
holds, has yet to take and may answer if nothing timed out; while the keyboard's clock is off no
key can be taken for an answer. From the second configuration on (`EnableOp`) what came late before does not matter: the bytes
that are written turn the keyboard on whatever was read.

`EventsAreInOrder`: `Tree` says that `/hw`, `/dev` and `/hw/pci` are where their paths lead, that nothing but directories
and devices are below them, and that a USB controller's node is in `/hw/pci`; `TreeGrows` that a node that is made
below them leaves this true. `Queue` relates the queue to the tree, and `QueueInv` adds that a UHCI device that is no longer in the queue
has its controller, or is being set up, or failed. `BarsInv` follows the probe of the BARs one by one: a device that
waits has no ports yet, one that is set up has those of its I/O BARs so far. `AddressesAreKept` follows from both, and
from `UhciAssumption`: a controller has one I/O BAR and no 64-bit BAR behind it, whose upper half the
probe would take for another and whose value would become the ports of the device. UHCI demands the first; TLC evaluates it on the machines of the run.
What comes back of an upper half is `IoAddress` of it, all but the bits 0 and 1.

`DevicesAreListed` needs two more assumptions, which TLC evaluates on the machines of the run: `BusAssumption`, that every bus behind a bridge
has a number of its own, as the BIOS gives them out, and `UsbAssumption`, that a controller has a port and `resetPort` makes at least two tries
(the code has 2 and 10). The invariant has three parts:

- `ListInv`. No function of the bus is listed twice: there is a set of buses that may yet be entered, and nothing on
  them is listed or being scanned (`ToCome`). And each controller has its directory in `/dev`, in their order (`FoldersInv`).
- `OnceInv`. So no function gets a second controller.
- `UsbInv`, what is so while no plug is pulled. Of the ports (`PortsAt`): once the driver is past the first port and there is
  a plug in it, that port is on, all others are off, and the device is listed unless a transfer to it
  failed. Of a listed device (`Sound`): the first port is on and answers to address 1, and if the device is listed for another port then a
  transfer to the first one failed. Of the driver's position in the retries and transfers (`AtStep`, `Asked`): the second try at the first port finds it on; nobody
  answers to address 0 once a device is listed, so a second SET_ADDR is never done. `PortStep` gathers what the steps at a port leave so, and
  `RestAtPort` that this keeps the invariant; the steps that end a transfer (`UsbGoesOn`, `UsbListed`) and add a controller (`UsbController`) are on their own.

It follows that, while no plug is pulled, at most one device of a controller is ever listed, however many ports have a plug: the reset of another port succeeds
while the first one is on, and leaves its own port off.

`HandoffIsMoved` is for any memory map and layout that satisfies `HandoffAssumption`: one piece of free memory
covers as many whole pages right above the stack as the parts take, and none of these pages (`Room`) holds a part, the kernel,
a page table or the entries of the kernel map. Nothing in pos-kernel checks this; the boot loader's layout gives it: its stack ends at 0xFFF0, the e820
map is at 0x8000, the kernel map in the pool at 0x20000, the page tables are at 1 MiB, the kernel at 6 MiB, and the
free conventional memory reaches from below the stack past the three pages above it. What the other entries of the map say does not matter:
pieces smaller than a page or above 4 GiB, whose pages `mem_mark_free` gets wrong, can only free more, and the kernel is reserved after
them. The argument:

- `WrittenExactly`: the bytewise `setBits` writes the bits it is asked for, at any offset and of any size, as long as they end within
  the 32-bit range. With `RoundedUp` and `RoundedDown` it gives which pages are reserved and freed
  (`ReservedExactly`, `FreedExactly`) and so what `MarkedPages` leaves (`MarkedRight`).
- `MemoryInv`: the parts moved so far lie one after the other from the first page of the room, whole (`PartsWhole`); before
  the next place everything is in use, behind it in the room nothing is (`BitsRight`). So the search, which tries only the first free
  bit of each byte, finds the next place (`FoundNext`), and what is copied there was not yet written over.

*Page allocator* (`PageMgrProofs`, from `OrderAssumption` and the assumptions of `PageMgr`: any number of orders,
any maps, sections and requests that fit the machine). Four layers:

- Recursion. The prover takes a recursive function as a CHOOSE and cannot instantiate an induction theorem
  over an operator, so `Induct` and `PrefixExists` state induction and the existence of a recursion for
  sets; each loop of the code (`RepairWalks`, `MarkRuns`, `RegionRuns`, `FreeRuns`) is shown to have a solution in a
  set of good states, and followed round by round.
- The tree. `Shape` says that the nodes over a page are a chain from a leaf to the root and that
  nodes come in pairs, `Tree` adds that an inner node joins the flags of its two children, `Merged` that no two free buddies
  with the same flags are left. `StoreEffect`, `CombineEffect`, `RepairEffect` and `SplitEffect` say what an
  operation does to the flags of each page and that it keeps all three; during a repair exactly one node, which
  moves up, may be unmerged. From these follow `TakeEffect` and `GiveEffect` for a block, and `BootEffect`.
- The contexts. `PageInv` says that the tree is good, that what the contexts record, and what is in
  no record, are different leaves of used memory, that a context that is not alive records nothing, and
  that no reserved page is free. A request (`Taken`) and the end of a context (`Returned`) keep it.
- The page tables. `TableInv` says that the template maps used pages onto themselves (`TemplateOk`), that a live
  thread's directory holds the template's tables or pages of its own record, each at one place
  (`ThreadTables`), and that what they map is mapped onto itself or belongs to the thread. It needs the records of
  `PageInv`: that a page table of one thread is not overwritten by another's mapping is that blocks handed out are
  disjoint. `MappingKeeps` is the step of `x86_map_pages`, with new tables taken from the pages in the order
  in which the range meets entries without one; spawn, request and end of a context are in `StepTables`.

`NodesAlwaysSummarise`, `SearchAlwaysFinds`, `ReservedPagesAlwaysStay`, `ImplementsTheAllocator` and
`ThreadsAlwaysReachOwnPages` follow. `SearchAlwaysFinds` supposes that the boot did not panic (`BootedWell`), which depends on the
memory map: an entry the validation refuses, or too little memory for the heap. `ReservedPagesAlwaysStay` has no hypothesis: its
`Reserved` follows the order of the map, in which an entry overwrites the ones before it, so a page a usable region takes
from a reserved one before it is not among the pages claimed. `ThreadsReachOwnPages` is an implication: as long
as no page of the template's tables is handed out (`[]TemplateTablesStay`), threads reach their own pages. `pages_template` shows that the code does
not keep the premise; that nothing else can break the conclusion is what the theorem adds, for every layout of the kernel.

*What is only model-checked, and why*:

- Liveness: `HandlerEnds`, `SleepersWake`, `RequestsAnswered`, `BootEnds`, `KernelSettles`. Fairness and ENABLED are
  outside what the prover does.
- `PciDevicesListed`: the enumeration it compares is a RECURSIVE operator. That the scan lists no
  function twice is part of `ListInv`.

## Plan

Done: scheduler, RPC, mutexes, heap, buddy allocator and page manager with proofs of their safety properties; paging; boot loader, start of the c-kernel and its output; pos-kernel from its start
to its main loop, both with proofs of their safety properties but `PciDevicesListed`.
Next, in order:

1. The sleep heap as an array that refines the set `sleepers`; a second callee for calls
   between threads.
2. `PageMgr`'s requests made through `KmtRpc`.

## Not modelled

- Stage 1 of the boot loader, its strings and console; what FAT12 does after its boot sector was
  read to address 0, over the interrupt vectors its next read needs (FAT12.c:300).
- Formatting of values (`gprint`, `gfmt`): a text is a sequence of characters.
- Code without a caller: the reverse search of the buddy allocator, the BAR functions of the hub
  thread, consoles other than the text screen, removal of nodes, bulk transfers, `usb.cpp`, mass
  storage and block devices, `alloc_io_pages`, the branch of the main loop for events that name a driver
  exactly (main.cpp:98), the other PS/2 functions. `rwlock` functions are declared and have no body.
- The GDT of pos-kernel (a constant table), the rate of the PIT, reads of the PIC's registers that only feed a
  warning, flag bits of pages.
- Time in nanoseconds: ticks are counted. Stacks and registers of threads. A write through the null that a
  failed `malloc` returns inside the scheduler.
