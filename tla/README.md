# Verification of the XDMA driver and the memcpy drivers beside it

This directory holds TLA+ modules that model the repository's device drivers,
the TLC configurations that check them on small instances, and theorems that
the TLA+ proof system checks for every instance. `PROJECT.json` maps every
definition to the lines of C it models.

`C` below is `src/Official_Xilinx/driver/driver/xdma-core.c`.

## 1. The system

The repository holds the Xilinx XDMA reference driver (a PCIe scatter-gather
DMA driver for Linux), three generations of a small character driver that
copies data to and from FPGA memory, and user-space test programs.

| part | state it keeps | operations | what makes it hard |
|---|---|---|---|
| SG-DMA engine, interrupt mode (`C` 553-1509, 2321-2374, 3224-3413) | transfer list, `running`, `desc_dequeued`, `status`, saved interrupt mask; per transfer `state`, `desc_num` | read()/write(), ISR, deferred service work | threads test and free transfers without the lock the service routine holds; interrupts masked in one context and unmasked in another; counters relative to a run of the engine |
| SG-DMA engine, poll mode (`C` 1511-1604, 3234-3242) | writeback counter in host memory | busy-wait in the calling thread | several threads poll one counter; timeout while the hardware runs |
| descriptor building (`C` 1978-2267, 2804-3068, `xdma-sgm.c`) | descriptor table, page list | create, link, split, merge | boundaries: pages, 4 KB, adjacent counts, alignment |
| cyclic receive (`C` 742-779, 1017-1155, 3415-3623, 3964-4203) | ring of results, head, tail, overrun flag, credits | open, interrupt or poll service, read, close | ring full or wrapped, state reset outside the lock, teardown during service |
| user interrupts (`C` 479-494, 1606-1618, 1696-1708, 5204-5272) | `events_irq`, wait queue | ISR, read(), poll() | several readers of one event node |
| performance runs (`C` 553-615, 1319-1343, 3625-3762) | `xdma_perf` | ioctl start, stop, get | freed while the service routine uses it |
| asynchronous I/O (`C` 3084-3176) | transfers with an iocb | aio_read, aio_write | completion frees transfers inside the service routine |
| device lifecycle (`C` 1756-1950, 2397-2666, 4240-5075, 5429-5751) | BARs, engines, IRQs, char devices, minors | probe, remove, init, exit | unwinding a probe that fails half-way; removal with work or files outstanding |
| BAR access (`C` 5078-5199, 5274-5427) | none | mmap, read, write of registers and descriptors | bounds |
| SDAccel support (`xdma-ioctl.c`, `xdma-bit.c`; compiled out) | frozen AXI gate, ICAP/MCAP state | reset, frequency scaling, bitstream load | concurrent ioctls, timeouts |
| memcpy drivers (`src/MTE/*_memcpy/FPGA.c`) | shared kernel buffer, semaphore, mapped BARs | open, read, write, close, probe, remove | requests in chunks through one buffer; published before initialised |
| older drivers (`src/MTE/vc707/driver.c`, `src/driver-32bit`, `src/old_driver`, `src/test`) | global buffers | open, read, write, close | no lock at all |
| user-space programs (`user.c`, `tests/`) | none | command-line tools | not concurrent; not modelled |

How the parts interact: a thread inside read() or write() builds descriptors,
queues a transfer on an engine, and sleeps (interrupt mode) or polls. The
hardware fetches the descriptors of the transfer it was started on, latches
status bits and raises an interrupt. The interrupt handler masks the engine
and schedules its work item; the work item takes `engine->lock`, reads and
clears the status, completes transfers, wakes their threads, restarts the
engine when something is left, and unmasks it.

## 2. Modules

* **XdmaEngine** models one engine in interrupt mode. Its variables are the
  fields of `struct xdma_engine` and `struct xdma_transfer`, the position of
  each thread in `transfer_data`, the position of `engine_service_work`, and
  the registers of the engine. A freed transfer's memory slot is reused by a
  later `kmalloc`, so use after free is visible as a reference outside `live`.
  The service routine is split where another context can see the
  difference: after the status read, after the shutdown, and between the store
  of `transfer->state`, `list_del` and `wake_up`. The hardware actions
  (`Hw...`) are external: they follow from which bits the driver reads and
  writes.
  Every action requires `Defined`: once `BUG_ON` fires or freed memory is
  referenced, the program has no further defined behaviour and the model stops.
* **DmaQueue** is the abstract specification: a FIFO whose head is moved, then
  reported, then retired, then released.
* **MCXdmaEngine** instantiates XdmaEngine for TLC.
* **FpgaMemcpy** models the data path of the memcpy driver
  (`src/MTE/vc707_memcpy/FPGA.c`): threads whose requests go chunk by chunk
  through one kernel buffer under `devInfo->sem`. Its state is the position of
  each thread in `rw_dispatcher` with `bytesDone` and `count`, the semaphore,
  the buffer, the device memory and the user buffers. Every word of data
  carries who wrote it and its place in the request. `Faults` lets the copies
  from and to user memory fail, whose results the code ignores.
* **AtomicMemory** is its abstract specification: a request reads or writes
  its whole range in one step. The refinement mapping shows callers the
  effect of a request from the moment it takes the semaphore.
* **FpgaLifecycle** models the other half of that driver: `fpga_init`,
  `fpga_exit`, each acquiring step of `probe`, each releasing step of `remove`,
  and file operations that may start between any two of them. `held` is the
  set of resources, `mishaps` a history of what has gone wrong so far (an
  open before probe ended, an unbind, a failing call), so that a property can
  say which of them it survives.
* **XdmaCyclic** models the cyclic receive of an AXI-stream engine: open, read,
  close, the service routine and the hardware following one another around the
  ring of `RX_BUF_PAGES` pages. In interrupt mode the service routine is a work
  item; in poll mode read() runs it, holding the lock, and close() polls BUSY
  itself. Blocks are numbered, so that a lost, doubled or overwritten one is
  visible. `mishaps` records a refused open, a signal, and a malformed result,
  an abort of the hardware or unwritable user memory. Both module parameters
  (`enable_credit_mp`, `poll_mode`) are chosen in `Init`.
* **XdmaPoll** models one engine in poll mode: every thread in `transfer_data`
  polls the one writeback word for the descriptor count of its own transfer,
  gives up after `POLL_TIMEOUT_SECONDS`, and then services the engine under the
  lock, for itself or for others. Memory slots are reused; `executed`,
  `false_ok`, `shared` and `faults` are history. A thread that reaches a
  `BUG_ON` or frees a transfer that is still referenced is `broken`, and the
  model stops there.
* **XdmaDesc** models how a buffer becomes descriptors (`C` 1952-2267,
  2770-3068, 3178-3327, `xdma-sgm.c`): the alignment check, the cut into
  transfers, pinning and the scatter list, the merging of contiguous pages, the
  links and adjacent counts, the hardware's fetch and execution of the table,
  release, and the ring of the cyclic receive. The algorithms are operators
  on sequences; the reference is what the hardware moves, unit by unit, against
  the identity between buffer and device positions.
* **XdmaDevice** models the life of the driver's devices: `xdma_init` and
  `xdma_exit`, every step of `probe` with its failure and the label it jumps
  to, every step of `remove`, instance numbers, device nodes and their
  minors, files open meanwhile, interrupts and pending work. `held[d]` is what
  the driver owns for device `d`; `leftover` is what a failed probe or a remove
  has left when it is over; `mishap` says which special failure was met.
* **XdmaAsync** models what the engine does without a waiting thread:
  asynchronous requests of several segments and transfers, the PERF ioctls cut
  at their accesses of `engine->xdma_perf`, and the events node with its
  readers. Interrupt handler and service routine drive all three.
* **MC...** modules instantiate each of these for TLC.
* **...Proofs** modules hold the theorems of the module they are named after:
  XdmaEngineProofs (also the refinement of DmaQueue), XdmaPollProofs,
  XdmaDescProofs, XdmaCyclicProofs, XdmaAsyncProofs, XdmaDeviceProofs,
  FpgaMemcpyProofs (also the refinement of AtomicMemory) and
  FpgaLifecycleProofs.

How the modules fit together: XdmaEngine and XdmaPoll are the two ways of
waiting for the same engine, and take a transfer as a number of descriptors;
XdmaDesc says what those descriptors are. XdmaCyclic and XdmaAsync add the
users of an engine that no thread waits for; what leads from a hardware event
to the work item is modelled and proved in XdmaEngine and is one step in the
other two. XdmaDevice says when engines, interrupt lines and nodes exist at all.

Three constants of XdmaEngine switch hazards on. `Signals`: signals end waits.
`LateIdle`: BUSY may outlive the completion. `HwErrors`: the hardware may abort
a transfer. Nothing switches off the unlocked accesses of a waiter (its test of
`transfer->state`, `C` 3302, the free that follows, and the status read at `C`
3313): they may always fall anywhere in the service routine. The history
variable `lost_status` is set when that status read replaces the status the
service routine has read and not yet used; what fails only then is stated with
it as the exception. `Completing` is the transfer whose state is stored and
whose completion the service routine has not finished: the only one that can be
freed in use.

## 3. Runs

| run | expected | what it shows |
|---|---|---|
| `engine_interleaved` | pass | Two threads, three transfers, several chunks per request, signals, MSI-X, with the unlocked accesses anywhere in the service routine. The transfer under completion is the only one that can be freed in use, however slots are reused; BUG_ON never fires, and WARN_ON only after a lost status; an engine with something queued is running, and on the head of the list unless a status was lost; and every step but the free in use is one of `DmaQueue`. |
| `engine_live` | pass | Every read() and write() returns and every queued transfer leaves the list, also that of an interrupted request (MSI), unless an unlocked access has hit the service routine. |
| `engine_all_hazards` | pass | With signals, aborts and a lingering BUSY bit at once, types hold and no interrupt is lost between the mask in the handler and the unmask in the work item; until a status is lost COMPLETED still means executed, and transfers are executed once and in order. |
| `engine_unlocked_check` | violation | `engine_service_final_transfer` stores `transfer->state` before `list_del`; the waiter tests it without the lock and frees a listed transfer. |
| `poll` | pass | Three threads in poll mode, with timeouts and aborts. A thread alone in the engine is told success only for what was executed, whatever timed out before; no transfer is stranded on a stopped engine; assertions fire and transfers are freed in use only after a timeout or abort, or when threads share the engine. |
| `desc_build` | pass | Every byte of every request is moved once and to its place; no descriptor is too long, empty, misaligned or outside its table; no fetch crosses a 4 KB page; pages are pinned while the hardware may use them, also after a signal; a request that returns leaves none pinned, one ended by a signal leaves those of its last transfer pinned for good. |
| `cyclic_stream` | pass | With the credit feature no block is lost, overwritten or reordered, the ring does not overrun, an undisturbed read() returns exactly one packet; read() in front of a packet and close() return; the ring is freed only when the engine has stopped. Interrupt and poll mode. |
| `async` | pass | A request is completed once, after all of its transfers, when it has one segment and no run is stopped under it; every request is completed unless an ioctl interferes; PERF ioctls that do not overlap agree among themselves on `xdma_perf`, and never leave the service routine an engine that runs with an empty list; no user interrupt is lost between two readers. |
| `perf_stop_no_wait` | violation | One thread alone starts and stops a performance run: the stop frees `xdma_perf` while the service run that its own halt causes is about to write to it. |
| `device` | pass | What a failed probe leaves behind, whichever step failed, and that remove leaves nothing but the region of 255 minors; instance numbers are exclusive unless `xdma_init` cleared them; nodes with overlapping minors and BARs told apart by position lead to the right place; a requested line always finds the device and its registers, and its engines except in a window of remove that a shared legacy line can meet (the failures of C2H engines and of the sysfs file are named where they leave more); unloading frees nothing that an open file uses. |
| `memcpy` | pass | Requests of two threads are atomic although each goes through the shared buffer in chunks, and none sends another thread's data (with user memory that does not fault). |
| `fpga_lifecycle` | pass | What file operations find, what unloading releases, which of it survives early opens, unbinding and failing calls. |

Related questions share a property: `StreamIntact` is `BlocksInOrder` and
`NoMissingResult`, `CallsReturn` is `ReadReturns` and `CloseReturns`,
`Delivered` is said of requests and of the cyclic ring, `DescriptorsFit`
includes the assertions of `xdma-sgm.c`, `NodesReachOwnDevice` includes
`BarsIdentified`, and `UsersFindDevice` is `IrqTargetsLive` and
`FilesSurviveRmmod`.

The two violations are the findings of `PROJECT.json`: each contradicts a
comment of the code, quoted there.

### Bounds

* Engine: two threads and two or three memory slots make reuse of a freed slot,
  two transfers on the list and a transfer abandoned by a signal possible;
  `MaxDesc` 2 makes the completed-descriptor count differ between
  transfers, `MaxChunks` 2 makes a thread queue a second transfer after its
  first. The counter is taken modulo `CounterMod` 16, larger than any
  difference of counts in a run.
* Poll: three threads and three slots let one thread service the transfer of
  a second while a third queues; `MaxDesc` 2 gives equal and different counts;
  `MaxFaults` 2 allows a timeout after an abort and two timeouts.
* Descriptors: a page is 4 units, a transfer at most 3 pages, a descriptor at
  most 9 units (so that two pages merge and three do not), 4 descriptors to
  4 KB and at most 2 extra adjacent ones; a ring of 6 pages passes a 4 KB
  boundary. Every way the pages of the buffer can be scattered and every start
  within a page is enumerated, with lengths below, at and above a page, a
  descriptor and a transfer, up to 25 units, three transfers; positions 0 and 1
  differ in alignment.
  Each constant keeps the order the real one has to its neighbours.
* Cyclic: three pages and two credits keep the code's relation (256 pages, 128
  credits: fewer credits than pages); four blocks wrap the ring, and fill it in
  the mode without credits. `MaxBlocks` bounds the blocks after each open().
  Opening and closing are not bounded.
* Async: one request of one or two segments or transfers, two readers of the
  events node, one thread using the ioctls; the theorems cover any number of
  each. `MaxList` 3 is longer than any list these can make but for repeated
  runs that nobody stops.
* Device: two devices for two instance numbers, one of them any of four boards
  (MSI-X, MSI or legacy, all layouts of optional BARs, one without config
  BAR), one file. Probes, removes and module loads are not bounded.
* Memcpy: a buffer of two words and memory of three: requests shorter than,
  equal to and longer than the buffer, with a partial last chunk. Faults of
  user addresses are covered by the theorems, not by the run.
* Lifecycle: three threads, so that a file can be open, being opened and
  being closed at once.

`CHECK_DEADLOCK FALSE` is used where behaviour ends on purpose: where the model
stops at undefined behaviour, where an open() keeps the lock for ever, and in
the lifecycle of the memcpy driver, where nobody has to load the module again.

Symmetry is used only in runs without temporal properties other than step
properties, over threads and memory slots that the code does not tell apart.

### Fairness

Weak fairness of a thread's own steps is the scheduler; of the handlers and the
service routine, the interrupt controller and the workqueue; of the hardware
steps, that the hardware executes the descriptors it was given and, once RUN is
cleared, finishes the page it is on. Strong fairness is assumed only of steps
that wait for `engine->lock`, which others take again and again (a ticket lock
serves its waiters in order). In XdmaAsync the interrupt handler, the work
item, the hardware and the submitting thread are fair; readers, ioctls and user
interrupts are not. No fairness is assumed anywhere of requests, signals,
errors, timeouts, received data or opens.

## 4. Proofs

All theorems hold for every value of the constants that satisfies the named
assumptions. Every invariant and every step property that a passing run checks
is a theorem, and so are both refinements; liveness is not. Besides bare types
the assumptions are these.

| assumption | what it asks | where the code has it |
|---|---|---|
| `SizesAssumption` (XdmaDesc) | a page fits a descriptor with room to spare; fewer extra adjacent descriptors than 4 KB holds | `XDMA_DESC_MAX_BYTES` is 2^18 - 1 against pages of 2^12; at most 15 (`MAX_EXTRA_ADJ`) against 128 |
| `AlignAssumption` (XdmaDesc) | an alignment the engine reports divides the page and the transfer limit, and is a multiple of the length granularity | powers of two read from the alignments register (`C` 2397-2427) |
| `InputsAssumption` (XdmaDesc) | addresses are natural numbers, the page table has finitely many gaps | - |
| `RingAssumption` (XdmaCyclic) | at least one credit, and fewer credits than pages | 128 of 256; with as many credits as pages a full ring looks empty and `StreamIntact` fails |
| `BoardsAssumption` (XdmaDevice) | the BARs of a board obey the rule written above `identify_bars` (at most one of each kind, user before config before bypass) | `C` 1841-1853; boards are hardware |
| `AsyncAssumption` (XdmaAsync) | a request has at least one segment and one transfer per segment | an empty segment queues nothing and changes no state |

* **TypeCorrect**, **NoLostInterrupt** (XdmaEngineProofs), with every hazard
  enabled. `IrqNotLost` is not inductive: `IrqInv` adds what the mask, the
  saved mask and the raised message are while the work item is pending and
  while it runs.
* **MemorySafe**, **AssertionsNeverFire**, **CompletionSound**,
  **EngineRunsHead** (XdmaEngineProofs) assume `QuietHardware`: no `LateIdle`
  and no `HwErrors`, each of which breaks something (section 5). Signals and
  every interleaving of the unlocked accesses are covered: the theorems say that
  only the transfer under completion can be freed in use, and that only a lost
  status makes WARN_ON fire or leaves the engine marked running with nothing to
  do. The inductive invariant `IInv` has
  four parts besides types and interrupts: `Ownership` (which thread owns which
  transfer), `ListInv` (the list holds distinct submitted transfers, except the
  one being retired), `HeapInv` (what the state of a transfer says about its
  place and about the hardware) and `EngineInv` (how `running`, the hardware's
  phase, its counter and `desc_dequeued` agree at each point of the service
  routine). The last one is what makes the count read from the register belong
  to the head of the list.
* **EngineImplementsQueue**, **NeverExecutedTwice**, **ExecutesInOrder**
  (XdmaEngineProofs): from the same invariant each action is a step of
  `DmaQueue` or leaves it alone, but the free in use that the first finding
  shows; the other two hold until a status is lost.
* **MemcpyTypeCorrect**, **MemcpyNoForeignData**, **MemcpyAtomic**
  (FpgaMemcpyProofs). `IndInv` adds mutual exclusion and that every request is
  within the memory; `Staged` (without faults) says that the buffer holds
  exactly the chunk about to be moved. Atomicity: `Down` is the abstract
  request, every other step of the loop is invisible through the mapping.
* **FileOpsFindDevice**, **UnloadComplete** (FpgaLifecycleProofs), for any
  number of threads. `LifecycleInv` says what is held at each step of `probe`
  and `remove` (`HeldExactly`, when nothing has gone wrong; `PciBetween`,
  whatever failed), that the module's state follows the step, and that a pinned
  module is bound.
* **CloseSafe** (XdmaCyclicProofs): without signals, and always in poll mode,
  the ring is never freed under a running engine. `StopInv` relates the stages
  of shutting down: the hardware is busy only while `running`, an idle status
  seen by the service routine stays true until it acts on it, the ring is held
  whenever the thread is between open and the end of close, and a thread that
  polled BUSY away has left the engine out of service.
* **StreamSafe**, **CyclicTypeCorrect**. `StreamInv`: the credits of the
  hardware, the unread blocks and the blocks being copied are together at most
  the credits given, so that fewer than `Pages` are unread; the tail is between the
  reader's head and the hardware's page; exactly the unread slots hold a
  result, and they hold the next blocks in order (`Filled`); the slots being
  copied hold the last blocks consumed (`CopySafe`). The proof is arithmetic
  modulo the ring size.
* **ReadReturnsOnePacket**, a step property. `PacketInv`: `eop_found` is set
  only while the blocks up to an end of packet are handed over, and until then
  the read has at most a part of one packet. It needs that `complete_cyclic`
  stops at the first end of packet.
* **NoStrandedTransfer** (XdmaPollProofs): in poll mode an engine that is not
  running has nothing queued, whichever thread services it for whom and
  whatever times out. `transfer_queue` never leaves an idle engine, and
  `engine_service` stops it only with an empty list.
* **SuccessSound**, **NoBreakWithoutMishap**, **PollTypeCorrect**. Timeouts
  leave the engine running with the word of an earlier transfer, so that the
  invariant has to follow a thread alone in the engine through its round:
  before it queues the engine is at rest (`Quiet`) or holds the word of a
  transfer that timed out (`LateWord`); then its transfer is listed
  (`Pending`) and in the hardware's hand or done (`Executing`), a word is read
  (`WordRead`), and the transfer is judged (`Judged`). `ErrorNeedsFault` says where an error
  bit comes from. `DescSum` is a recursive function; `SumExists` shows that
  it has a value.
* **UnwindComplete**, **UsersServed**, **SlotsNotShared** (XdmaDeviceProofs),
  for any number of devices, files and instance numbers and any boards.
  `HeldInv` says for each label of `probe` and `remove` what a device may and
  must hold there, and which special failure excuses the rest; every step of a
  device is shown to keep that account, and the others not to touch it. What a
  failed probe and a remove leave, the region of minors among it, and where
  handlers find what they use, in every interrupt mode and after every failure,
  follow from it; the windows in which they do not are part of the statement.
  `FileInv` adds that no file is open from `rmmod` on. `SlotInv` adds that a
  number in use is marked in `dev_present` unless `xdma_init` cleared it, and
  that a device without driver data has none.
* **NodesLeadHome**, **DeviceTypeCorrect**. `NodesInv`: the nodes of a device
  were made in ascending order of their minors, so that of the overlapping
  ranges the last one that begins at or before a minor is its own. `BarsInv`:
  the BARs are kept only on a board with a config BAR, from whose position and
  the number of BARs the optional ones follow.
* **NoLostEvent**, **PerfMemorySafe** (XdmaAsyncProofs), for any number of
  readers, requests and ioctl threads. `EventInv`: `events_irq` is set as long
  as an interrupt is unreported, and nobody sleeps while it is. For the ioctls,
  `PerfInv` relates the pointer `xdma_perf` to where each ioctl is, and
  `EngineInv` says that a running engine has something listed. The theorem is
  about the ioctls among themselves and the BUG_ON of the service routine; the
  service routine's own use of `xdma_perf` is not safe, as `perf_stop_no_wait`
  shows.
* **AioCompletes**, **AsyncTypeCorrect**. `AioInv` counts: the transfers of a
  request that are executed, on the list, and still to be queued add up; its
  completions and the listed transfers marked last add up to one, and a listed
  transfer marked last is behind the others of its request.
* **EverythingDelivered**, **DescriptorsAlwaysFit**, **FetchesInPage**,
  **PinsAccounted**, **DescTypeCorrect** (XdmaDescProofs): the path from the
  user's buffer to the unit the hardware moves, for every page size, limit,
  page table, start, length, position and ring. The argument, bottom up:
  1. *Scatter list.* `Geometry`, `Entries`, `AssertsHold`: the entries are the
     pages the buffer touches, clipped at both ends; their lengths add up to
     the transfer, and they fit the arrays.
  2. *Merging.* `transfer_build`'s loop is the recursive function `Walk`;
     `WalkExists` shows that it has a value and `WalkSteps` gives its
     equations. `LoopInv` says that the blocks closed so far, and the open
     one, tile a prefix of the buffer with blocks of contiguous memory of at
     most `DescMax`; `BlocksTile` is its end.
  3. *Table.* `TableFacts`, `RingFacts`, `ExtraAdjFacts`, `FetchNext`: linking
     keeps the blocks and their order, and a fetch leads to the next
     descriptors of the table, within 4 KB.
  4. *State.* `ShapeInv`, `ListInv`, `TableInv` and `ModeInv` say which
     scatter list, table and address mode belong to the place the request is
     at; `FetchInv` which descriptors are fetched; `AlignInv` that the
     alignment checked for the whole request carries over to later transfers;
     `LenInv`, `HostInv` and `DevInv` that what has been moved, with what the
     descriptors still to be executed will move, is the buffer so far;
     `RingInv` the same of the cyclic ring.

Recursion in these modules is by recursive functions. Facts about them for
every length are proved with the least element of the set of counterexamples
(`LeastElement`, from the well-foundedness of the natural numbers) where an
induction principle would need an operator as a parameter.

Only model-checked: the liveness properties `RequestReturns`, `QueueDrains`,
`CallsReturn` and `AioReturns`, since the prover has neither fairness nor
ENABLED. The theorems of XdmaEngine other than TypeCorrect and NoLostInterrupt
assume `QuietHardware`; that `CompletedExecuted`, `ExecutedOnce` and
`ExecutedInOrder` hold also with aborts and a lingering BUSY bit is shown by
the run `engine_all_hazards` only.

## 5. What reading and modelling showed besides the findings

SG-DMA engine, interrupt mode:

* After an error status the transfer is marked FAILED and left on the list,
  and its waiter is not woken (`C` 1252), although the comment at `C` 3245
  says "the function servicing the engine will wake us". The properties of
  `engine_all_hazards` say what survives.
* When BUSY outlives the completion, the service routine leaves `running` set
  with an empty list and the next event reaches `BUG_ON(!transfer)` (`C` 1189).
* `transfer_data` calls `engine_status_read(engine, 0)` without the lock
  (`C` 3313). Its store can fall between the status read of the service routine
  and its use (`lost_status`): the engine then stays marked running over an
  empty list and WARN_ON fires, and with `LateIdle` the unsigned difference
  `desc_count - desc_dequeued` can wrap and COMPLETED be reported of a transfer
  that was not executed.

Poll mode:

* A second thread whose transfer has as many descriptors as the one running
  sees the first one's count, services the list, finds its own transfer still
  SUBMITTED and reports success (`C` 3230-3242); the transfer is leaked.
  `SuccessIsExecuted` therefore speaks of a thread alone in the engine.
* A count without an error bit leaves `engine->status` as an earlier service
  read it (`C` 1416), and a stale ERROR fails a good transfer.

Descriptors:

* In fixed-address mode `transfer_data` still advances `*pos` from one transfer
  of a request to the next (`C` 3329), and in poll mode `engine_start` does not
  set NON_INCR_ADDR at all (`C` 832, in the interrupt branch only), while the comment at `C` 2893 describes
  the mode. `Delivered` speaks of one transfer in this mode.
* Pages that cannot be pinned end in `BUG_ON(rc < 0)` (`C` 2962); a
  failing `xdma_desc_alloc` is dereferenced.
* A request interrupted by a signal leaves the pages of its last transfer pinned
  for good: the engine retires the orphaned transfer, and nobody calls
  `transfer_destroy` (`C` 3311-3317). `PinsBalanced` says so.

Cyclic receive:

* A second open() resets head and tail of the ring in use and returns with
  `engine->lock` held (`C` 3976-3983). A signal ends the wait in close() and
  the ring is freed under the running engine (`C` 4110), although the comment in
  its caller says "wait for engine to be no longer running" (`C` 4149).
* Without the credit feature `eop_found` is never reset, so that later reads
  return at once, and an overrun that meets no end of packet leaves the reader
  asleep with the service routine stuck on `rx_overrun`. `user_buffer_index` is
  not reset between reads of one open file. A signal during a read is only
  noticed once data arrives. A fault's -EIO is added to the length returned,
  and a failed `copy_to_user` counts as success. The result of
  `transfer_create` is not tested; `rx_buffer` is tested in its place
  (`C` 3995).
* In poll mode `engine_service_cyclic_polled` waits, holding the spin lock and
  calling `schedule()` under it, for an end of packet that is new (`C` 1069).
  Two packets serviced at once satisfy one read(): the next one polls on in
  front of the second packet until a third arrives. A packet longer than the
  credits, or than the ring, never ends the loop, because nothing gives credits
  back meanwhile. After an error with an empty ring read() never returns.

Device lifecycle:

* Nodes opened while a probe that later fails, or before the device is unbound,
  are left with a freed `struct xdma_char`, whose magic the next call asserts
  (`C` 1484, 3953). `engine_destroy` does not cancel pending work (`C` 2445).
  The region of 255 minors is not unregistered (`C` 5441) but on the error path
  of the user node (`UnwindLeaves` has it in what is left); the failure of the
  events node is tested on the array (`C` 4740), and a probe without memory
  for its structure returns 0.
* A positive result of `pci_enable_msix`, fewer vectors than asked for, is not
  taken for a failure: `msix_enabled` is set without MSI-X (`C` 4290-4294).
* MSI-X stays enabled and the instance number taken after a failed probe; C2H
  engines, or the nodes, stay after a failure of the step that follows them
  (`UnwindLeaves` lists exactly this).

Asynchronous I/O, performance runs:

* A request of several segments is completed once per segment (`C` 3157-3160), the
  position is not advanced between transfers (`C` 3164-3166), and in poll mode nobody
  services, and so nobody completes, an asynchronous request.
* A PERF stop that comes when its run is not at the head halts another transfer
  and leaves the run going with nobody able to stop it (`C` 747). Overlapping
  ioctls use the freed `xdma_perf`, and nothing waits on `xdma_perf_wq`: the
  service routine uses it after a single stop too (the second finding).

Memcpy drivers:

* `probe` ignores the results of `setup_chrdev`, `kmalloc`,
  `pci_request_regions` and `map_bars` (`vc707_memcpy/FPGA.c` 271-287),
  although its comment (246-247) asks for an error in these cases. Its
  character device is open to callers before semaphore, buffer and BARs exist,
  and `remove` on unbind frees what open files use; `UsesInitialised` therefore
  excludes exactly these (`mishaps`).
* `pci_iomap_wc_range` of the vcu108 copy reads an uninitialised pointer.
* The older drivers stage every request through global buffers without a lock
  (`src/MTE/vc707/driver.c` 52-53, 77, 88).

SDAccel (compiled out): two ioctls may freeze and free the AXI gate in each
other's middle (`xdma-ioctl.c` 381), and the polling loop of `xdma-bit.c` 100
tests `!loop` after a post-decrement that leaves -1.

## 6. Not modelled, and why

* `ENGINE_SHUTDOWN_REQUEST` is tested but never set; `CHAIN_MULTIPLE_TRANSFERS`,
  `SD_ACCEL` (and with it `xdma-ioctl.c` and `xdma-bit.c`) and `XDMA_DEBUG` are
  compiled out.
* BAR reads and writes, `mmap`, `char_events_poll` and the user-space programs
  change no state of the driver.
* The older memcpy drivers (`src/MTE/vc707/driver.c`, `src/driver-32bit`,
  `src/old_driver`, `src/test`) are predecessors of the one modelled and are
  not built with it; without a lock they promise nothing to check for more than
  one caller.
* XdmaDesc: an IOMMU that merges entries; XdmaDevice: more than one channel per
  direction, more than one event per device, and a failing
  `alloc_chrdev_region` (`C` 5455), after which the nodes are made with major 0.
* XdmaAsync: one engine, interrupt mode; the counters of a performance run.
* `poll_mode` and `enable_credit_mp` may be written at run time; the models keep
  them fixed.
* FpgaMemcpy assumes requests within the mapped BAR, which the code does not
  check.
* XdmaCyclic: one thread per open file; the walk of `complete_cyclic` over the
  ring is one step with respect to the hardware, which with the
  credit feature writes only beyond the tail the walk stops at; the path from a
  hardware event to the work item is one step (XdmaEngine models and proves it in detail).

## 7. Plan

1. Prove `CompletedExecuted`, `ExecutedOnce` and `ExecutedInOrder` with
   `LateIdle` and `HwErrors`: `EngineInv` has to be weakened for the engine that
   stays `running` with an empty list until the next event stops the model.
2. State the safety half of the liveness properties (no state in which a waiting
   call has nobody to wake it) and prove it, so that only the fairness argument
   is left to TLC.
3. The older memcpy drivers with two callers, and the SDAccel gate, should they
   come back into use.
