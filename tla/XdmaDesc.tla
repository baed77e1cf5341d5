------------------------------ MODULE XdmaDesc ------------------------------
(***************************************************************************)
(* How a buffer becomes descriptors (xdma-core.c, xdma-sgm.c): a read() or *)
(* write() is cut into transfers of at most TransferMax bytes; the pages   *)
(* of each are pinned and listed (sgm_get_user_pages), contiguous pages    *)
(* are merged into descriptors (transfer_build), the descriptors are       *)
(* linked and told how many neighbours may be fetched with them            *)
(* (xdma_desc_adjacent), and the hardware fetches and executes them.  The  *)
(* ring of a cyclic receive is built by the same code from kernel pages.   *)
(*                                                                         *)
(* One unit of length stands for a fraction of a page.  Page v of the      *)
(* buffer lies in frame v + (number of gaps up to v): the physical         *)
(* addresses are contiguous except at the pages in gaps.  pci_map_sg is    *)
(* the identity (no IOMMU merges entries).                                 *)
(***************************************************************************)
EXTENDS Integers, Sequences, FiniteSets

CONSTANTS
  PageSize,      \* PAGE_SIZE
  TransferMax,   \* XDMA_TRANSFER_MAX_BYTES
  DescMax,       \* XDMA_DESC_MAX_BYTES
  MaxExtraAdj,   \* MAX_EXTRA_ADJ
  DescsPerPage,  \* descriptors in 4 KB
  RingPages,     \* RX_BUF_PAGES
  PollMode,      \* module parameter poll_mode
  \* the inputs: buffer addresses, lengths, device positions, page tables,
  \* contents of the alignments register (<<0, 0>>: unspecified)
  Starts, Counts, Positions, PageTables, AlignRegisters,
  MaxRingMoves   \* bound: pages received into the ring

ASSUME SizesAssumption ==
  /\ PageSize \in Nat \ {0}
  /\ TransferMax \in Nat \ {0}
  /\ DescMax \in Nat /\ DescMax > PageSize
  /\ MaxExtraAdj \in Nat
  /\ DescsPerPage \in Nat /\ MaxExtraAdj < DescsPerPage
  /\ RingPages \in Nat \ {0}
  /\ PollMode \in BOOLEAN

ASSUME InputsAssumption ==
  /\ Starts \subseteq Nat /\ Counts \subseteq Nat /\ Positions \subseteq Nat
  /\ \A g \in PageTables : g \subseteq Nat /\ IsFiniteSet(g)

\* An alignment fits the pages and the transfers, a granularity the alignment.
ASSUME AlignAssumption ==
  \A r \in AlignRegisters \ {<<0, 0>>} :
    /\ r \in (Nat \ {0}) \X (Nat \ {0})
    /\ PageSize % r[1] = 0 /\ TransferMax % r[1] = 0
    /\ r[1] % r[2] = 0

VARIABLES
  gaps,                  \* the page table: pages that do not follow the last
  streaming, alignments, \* the engine: AXI ST or MM, alignments register
  non_incr_addr,         \* struct xdma_engine
  hw_non_incr,           \* the NON_INCR_ADDR bit of the control register
  pc, req,               \* progress and arguments of the request
  done, pos,             \* transfer_data(): bytes done, *pos
  sgl, desc,             \* the transfer: scatterlist, descriptor table
  pins,                  \* user pages pinned by get_user_pages_fast
  fetched,               \* hardware: descriptors fetched and not executed
  moved,                 \* history: <<host, device>> of each unit moved
  switched               \* history: the address mode changed in the request

config_vars == <<gaps, streaming, alignments>>
mode_vars   == <<non_incr_addr, hw_non_incr>>
table_vars  == <<sgl, desc>>

vars == <<config_vars, mode_vars, pc, req, done, pos, table_vars, pins,
          fetched, moved, switched>>

NoRequest == [start |-> 0, count |-> 0, pos |-> 0]

Min2(a, b) == IF a < b THEN a ELSE b

(***************************************************************************)
(* engine_alignments() and check_transfer_align().                         *)
(***************************************************************************)
AddrAlign == IF alignments = <<0, 0>> THEN 1 ELSE alignments[1]
LenGranularity == IF alignments = <<0, 0>> THEN 1 ELSE alignments[2]

\* check_transfer_align() with sync = 1.
TransferAligned(r) ==
  IF streaming \/ non_incr_addr
    THEN /\ r.start % AddrAlign = 0
         /\ ~streaming => r.pos % AddrAlign = 0
         /\ r.count % LenGranularity = 0
    ELSE r.start % AddrAlign = r.pos % AddrAlign

(***************************************************************************)
(* The scatterlist of xdma-sgm.c.                                          *)
(***************************************************************************)
FirstPage(start) == start \div PageSize

LastPage(start, len) == (start + len - 1) \div PageSize
NrPages(start, len) == LastPage(start, len) - FirstPage(start) + 1

\* sg_create_mapper(): the size of the page and scatterlist arrays.
MaxPages(len) == len \div PageSize + 2

PhysPage(v) == v + Cardinality({g \in gaps : g <= v})

\* Bytes left when entry i is filled: the running count of the code.
CountAt(start, len, i) ==
  IF i = 1 THEN len ELSE len + (start % PageSize) - (i - 1) * PageSize

\* sgm_get_user_pages() / sgm_kernel_pages(): one entry per page.
ScatterList(start, len) ==
  LET n == NrPages(start, len) IN
  [i \in 1 .. n |->
     [addr |-> PhysPage(FirstPage(start) + i - 1) * PageSize
                 + (IF i = 1 THEN start % PageSize ELSE 0),
      len  |-> CASE n = 1 -> len
                 [] i = 1 /\ n > 1 -> PageSize - (start % PageSize)
                 [] i \in 2 .. n - 1 -> PageSize
                 [] OTHER -> CountAt(start, len, n)]]

\* BUG_ON(count < PAGE_SIZE), BUG_ON(count > PAGE_SIZE), and the -EINVAL of
\* too many pages that ends in BUG_ON(rc < 0).
ScatterAsserts(start, len) ==
  LET n == NrPages(start, len) IN
  /\ n <= MaxPages(len)
  /\ \A i \in 2 .. n - 1 : CountAt(start, len, i) >= PageSize
  /\ n > 1 => CountAt(start, len, n) <= PageSize

(***************************************************************************)
(* transfer_build().  Descriptors are numbered from 0 in next; Stop is the *)
(* null link of the last one.                                              *)
(***************************************************************************)
Stop == -1

\* Merging whatever the physical addresses are.
NewDescriptorAnywhere(e, next, len, force) == len > DescMax - PageSize \/ force

\* Merging until the descriptor is full.
NewDescriptorLate(e, next, len, force) ==
  next.addr # e.addr + e.len \/ len >= DescMax \/ force

\* The block that ends with entry e is closed before entry next.
NewDescriptor(e, next, len, force) ==
  next.addr # e.addr + e.len \/ len > DescMax - PageSize \/ force

\* The device address of the next block.
NextEp(ep, len, fixed) == IF fixed THEN ep ELSE ep + len

\* One round of the loop, from entry e on to entry next: out holds the blocks
\* <<host address, device address, bytes>> that are closed.
BlockStep(w, e, next, fixed, force) ==
  LET len == w.len + e.len IN
  IF NewDescriptor(e, next, len, force)
    THEN [out  |-> Append(w.out, <<w.host, w.ep, len>>),
          host |-> next.addr,
          len  |-> 0,
          ep   |-> NextEp(w.ep, len, fixed)]
    ELSE [w EXCEPT !.len = len]

\* The state of the loop after each entry but the last.
Walk(list, ep_addr, fixed, force) ==
  LET walk[i \in 0 .. Len(list) - 1] ==
        IF i = 0
          THEN [out |-> <<>>, host |-> list[1].addr, len |-> 0, ep |-> ep_addr]
          ELSE BlockStep(walk[i - 1], list[i], list[i + 1], fixed, force)
  IN walk

\* The last entry closes the last block.
Blocks(list, ep_addr, fixed, force) ==
  LET n == Len(list)
      last == Walk(list, ep_addr, fixed, force)[n - 1]
  IN Append(last.out, <<last.host, last.ep, last.len + list[n].len>>)

\* xdma_desc_adjacent() without the limit of the 4 KB page.
ExtraAdjAcross(i, n) ==
  IF n - i - 1 > 0 THEN Min2(n - i - 2, MaxExtraAdj) ELSE 0

\* xdma_desc_adjacent(desc_virt + i, n - i - 1): the neighbours of
\* descriptor i + 1 that are fetched with it.
ExtraAdj(i, n) ==
  IF n - i - 1 > 0
    THEN Min2(Min2(n - i - 2, MaxExtraAdj),
              DescsPerPage - ((i + 1) % DescsPerPage) - 1)
    ELSE 0

\* engine_start(): first_desc_adjacent; the table starts a page.
FirstAdj(n) == Min2(n - 1, MaxExtraAdj)

\* transfer_create(): the table, terminated by transfer_perf().
Table(list, ep_addr, fixed, force) ==
  LET b == Blocks(list, ep_addr, fixed, force)
      n == Len(b)
  IN [i \in 1 .. n |->
        [host |-> b[i][1], ep |-> b[i][2], bytes |-> b[i][3],
         next |-> IF i = n THEN Stop ELSE i,
         adj  |-> ExtraAdj(i - 1, n)]]

(***************************************************************************)
(* The request: char_sgdma_read_write() and transfer_data().               *)
(***************************************************************************)
Remaining == req.count - done
TransferLen == Min2(Remaining, TransferMax)
TransferAddr == req.start + done

TransferPages ==
  FirstPage(TransferAddr) .. LastPage(TransferAddr, TransferLen)

\* The request returns: its state is forgotten.
Return ==
  /\ pc' = "idle"
  /\ req' = NoRequest
  /\ done' = 0
  /\ pos' = 0
  /\ sgl' = <<>>
  /\ desc' = <<>>
  /\ moved' = <<>>
  /\ switched' = FALSE

Request(r) ==
  /\ pc = "idle"
  /\ TransferAligned(r)
  /\ pc' = "create"
  /\ req' = r
  /\ pos' = r.pos
  /\ UNCHANGED <<config_vars, mode_vars, done, table_vars, pins, fetched,
                 moved, switched>>

\* transfer_create() finds no memory: -EIO.
CreateFails ==
  /\ pc = "create"
  /\ Remaining > 0
  /\ Return
  /\ UNCHANGED <<config_vars, mode_vars, pins, fetched>>

\* sgm_get_user_pages(): pages are pinned and listed.
PinPages ==
  /\ pc = "create"
  /\ Remaining > 0
  /\ IF ScatterAsserts(TransferAddr, TransferLen)
       THEN /\ pc' = "build"
            /\ sgl' = ScatterList(TransferAddr, TransferLen)
            /\ pins' = TransferPages
       ELSE /\ pc' = "assert"
            /\ UNCHANGED <<sgl, pins>>
  /\ UNCHANGED <<config_vars, mode_vars, req, done, pos, desc, fetched,
                 moved, switched>>

\* get_user_pages_fast() pins only some of the pages: they are put back, and
\* transfer_create() stops the kernel with BUG_ON(rc < 0).
PinFails ==
  /\ pc = "create"
  /\ Remaining > 0
  /\ pc' = "oops"
  /\ UNCHANGED <<config_vars, mode_vars, req, done, pos, table_vars, pins,
                 fetched, moved, switched>>

\* xdma_desc_alloc() to transfer_queue(): the table is built and, the engine
\* being idle, started with it.
Build ==
  /\ pc = "build"
  /\ desc' = Table(sgl, pos, non_incr_addr, FALSE)
  /\ hw_non_incr' = (non_incr_addr /\ ~PollMode)
  /\ fetched' = [i \in 1 .. FirstAdj(Len(desc')) + 1 |-> i - 1]
  /\ pc' = "run"
  /\ UNCHANGED <<config_vars, non_incr_addr, req, done, pos, sgl, pins, moved,
                 switched>>

\* xdma_desc_alloc() fails: transfer_build() writes through NULL.
AllocFails ==
  /\ pc = "build"
  /\ pc' = "oops"
  /\ UNCHANGED <<config_vars, mode_vars, req, done, pos, table_vars, pins,
                 fetched, moved, switched>>

\* A release loop that stops one page early.
ReleaseAllButLast == pins' = pins \cap {LastPage(TransferAddr, TransferLen)}

\* transfer_destroy(): sgm_put_user_pages(), sg_destroy_mapper().
ReleasePages == pins' = pins \ TransferPages

\* The loop of transfer_data() that forgets *pos.
AdvanceStuck == done' = done + TransferLen /\ UNCHANGED pos

\* calculate the next transfer.
Advance == done' = done + TransferLen /\ pos' = pos + TransferLen

\* The hardware executed the table and the waiter was woken: the transfer is
\* destroyed and the next one begins.
Completed ==
  /\ pc = "run"
  /\ fetched = <<>>
  /\ ReleasePages
  /\ Advance
  /\ pc' = "create"
  /\ sgl' = <<>>
  /\ desc' = <<>>
  /\ UNCHANGED <<config_vars, mode_vars, req, fetched, moved, switched>>

\* The transfer failed: it is destroyed and the request returns -EIO.
Failed ==
  /\ pc = "run"
  /\ fetched' = <<>>
  /\ ReleasePages
  /\ Return
  /\ UNCHANGED <<config_vars, mode_vars>>

\* A signal ends the wait: -ERESTARTSYS while the hardware still runs.  Nobody
\* destroys the transfer afterwards: no variable of the driver leads to it once
\* the engine has taken it off its list.
Interrupted ==
  /\ pc = "run"
  /\ pc' = "orphan"
  /\ UNCHANGED <<config_vars, mode_vars, req, done, pos, table_vars, pins,
                 fetched, moved, switched>>

\* Everything is transferred.
Finish ==
  /\ pc = "create"
  /\ Remaining = 0
  /\ pc' = "done"
  /\ UNCHANGED <<config_vars, mode_vars, req, done, pos, table_vars, pins,
                 fetched, moved, switched>>

ReturnDone ==
  /\ pc = "done"
  /\ Return
  /\ UNCHANGED <<config_vars, mode_vars, pins, fetched>>

\* ioctl_do_addrmode_set(), at any time: the mode of the engine and of the
\* control register.
AddrModeSet ==
  /\ pc \notin {"assert", "oops"}
  /\ non_incr_addr' = ~non_incr_addr
  /\ hw_non_incr' = ~non_incr_addr
  /\ switched' = (switched \/ pc # "idle")
  /\ UNCHANGED <<config_vars, pc, req, done, pos, table_vars, pins, fetched,
                 moved>>

(***************************************************************************)
(* The ring of a cyclic receive: cyclic_transfer_setup().                  *)
(***************************************************************************)
RingLen == RingPages * PageSize

\* Every page its own descriptor, every descriptor its own result slot.
RingResult(i) == i - 1

\* transfer_set_result_addresses(), transfer_set_all_control() and
\* xdma_transfer_cyclic(): the last descriptor links to the first.
RingTable ==
  LET t == Table(ScatterList(0, RingLen), 0, FALSE, TRUE)
      n == Len(t)
  IN [i \in 1 .. n |->
        [t[i] EXCEPT !.ep = RingResult(i), !.next = IF i = n THEN 0 ELSE @]]

OpenRing ==
  /\ streaming
  /\ pc = "idle"
  /\ pc' = "ring"
  /\ sgl' = ScatterList(0, RingLen)
  /\ desc' = RingTable
  /\ fetched' = [i \in 1 .. FirstAdj(Len(desc')) + 1 |-> i - 1]
  /\ UNCHANGED <<config_vars, mode_vars, req, done, pos, pins, moved, switched>>

\* cyclic_transfer_teardown(): the engine is stopped, the ring freed.
CloseRing ==
  /\ pc = "ring"
  /\ fetched' = <<>>
  /\ Return
  /\ UNCHANGED <<config_vars, mode_vars, pins>>

(***************************************************************************)
(* The hardware (external): executes the fetched descriptors in order and  *)
(* fetches, at the link of the last one, as many neighbours as it says.    *)
(***************************************************************************)
Block(d) ==
  IF d.next = Stop THEN <<>> ELSE [i \in 1 .. d.adj + 1 |-> d.next + i - 1]

Moves(d) ==
  [k \in 1 .. d.bytes |->
     <<d.host + k - 1, IF hw_non_incr THEN d.ep ELSE d.ep + k - 1>>]

HwMove ==
  /\ fetched # <<>>
  /\ pc = "ring" => Len(moved) < MaxRingMoves
  /\ LET d == desc[Head(fetched) + 1] IN
       /\ moved' = IF pc = "ring" THEN Append(moved, <<d.host, d.ep>>)
                                  ELSE moved \o Moves(d)
       /\ fetched' = IF Len(fetched) > 1 THEN Tail(fetched) ELSE Block(d)
  /\ UNCHANGED <<config_vars, mode_vars, pc, req, done, pos, table_vars, pins,
                 switched>>

(***************************************************************************)
(* Specification.                                                          *)
(***************************************************************************)
Requests == [start : Starts, count : Counts, pos : Positions]

Init ==
  /\ gaps \in PageTables
  /\ streaming \in BOOLEAN
  /\ alignments \in AlignRegisters
  /\ non_incr_addr = FALSE
  /\ hw_non_incr = FALSE
  /\ pc = "idle"
  /\ req = NoRequest
  /\ done = 0
  /\ pos = 0
  /\ sgl = <<>>
  /\ desc = <<>>
  /\ pins = {}
  /\ fetched = <<>>
  /\ moved = <<>>
  /\ switched = FALSE

\* After a kernel bug nothing more is said of the driver.
Halted == pc \in {"assert", "oops"} /\ UNCHANGED vars

Next ==
  \/ \E r \in Requests : Request(r)
  \/ CreateFails \/ PinPages \/ PinFails \/ Build \/ AllocFails
  \/ Completed \/ Failed \/ Interrupted \/ Finish \/ ReturnDone
  \/ AddrModeSet \/ OpenRing \/ CloseRing \/ HwMove \/ Halted

Spec == Init /\ [][Next]_vars

(***************************************************************************)
(* Properties.                                                             *)
(***************************************************************************)
\* The ranges of the variables; *pos and the bytes done advance together.
TypeOK ==
  /\ gaps \in PageTables
  /\ streaming \in BOOLEAN
  /\ alignments \in AlignRegisters
  /\ non_incr_addr \in BOOLEAN
  /\ hw_non_incr \in BOOLEAN
  /\ pc \in {"idle", "create", "build", "run", "orphan", "done", "ring",
             "assert", "oops"}
  /\ req \in Requests \cup {NoRequest}
  /\ done \in 0 .. req.count
  /\ pos = req.pos + done
  /\ pins \subseteq Nat
  /\ \A i \in 1 .. Len(desc) :
       desc[i] \in [host : Nat, ep : Nat, bytes : Nat,
                   next : Nat \cup {Stop}, adj : 0 .. MaxExtraAdj]
  /\ fetched \in Seq(Nat)
  /\ switched \in BOOLEAN

PhysAddr(a) == PhysPage(a \div PageSize) * PageSize + (a % PageSize)

\* A request that succeeds has moved every byte of the buffer once and in
\* order, between its physical address and the device address it belongs to:
\* merging, cutting into transfers and linking lose, repeat or displace
\* nothing.  In fixed-address mode this is said of one transfer only, since
\* transfer_data() advances *pos from one to the next, and of no request
\* during which the mode was changed.
RequestDelivered ==
  pc = "done" /\ ~switched =>
    /\ Len(moved) = req.count
    /\ \A k \in 1 .. req.count : moved[k][1] = PhysAddr(req.start + k - 1)
    /\ ~streaming /\ ~non_incr_addr =>
         \A k \in 1 .. req.count : moved[k][2] = req.pos + k - 1
    /\ ~streaming /\ non_incr_addr /\ req.count <= TransferMax /\ ~PollMode =>
         \A k \in 1 .. req.count : moved[k][2] = req.pos

\* The cyclic ring goes through the pages and through the result slots in
\* step, for ever: page k and result k, wrapping from the last to the first.
RingInOrder ==
  pc = "ring" =>
    /\ fetched # <<>>
    /\ \A k \in 1 .. Len(moved) :
         moved[k] = <<PhysPage((k - 1) % RingPages) * PageSize,
                      (k - 1) % RingPages>>

\* Requests and the ring of a cyclic receive are delivered: the descriptors
\* that transfer_create() and cyclic_transfer_setup() build, as the hardware
\* executes them, move every byte to its place.
Delivered == RequestDelivered /\ RingInOrder

\* The assertions of xdma-sgm.c on the running byte count never fire and the
\* arrays of sg_create_mapper() are large enough, whatever the start and the
\* length of the buffer.
ScatterAssertions == pc # "assert"

\* The tables are large enough for every buffer (ScatterAssertions).  No
\* descriptor is empty or longer than its length field allows, there is
\* room for it in the table of sgl_nents entries, and the addresses the
\* hardware compares agree modulo the alignment of the engine, although only
\* the addresses of the whole request were checked.
DescriptorsFit ==
  /\ ScatterAssertions
  /\ pc \in {"run", "orphan"} =>
       /\ Len(desc) \in 1 .. Len(sgl)
       /\ \A i \in 1 .. Len(desc) : desc[i].bytes \in 1 .. DescMax
       /\ ~switched =>
            \A i \in 1 .. Len(desc) :
              IF streaming \/ non_incr_addr
                THEN /\ desc[i].host % AddrAlign = 0
                     /\ desc[i].bytes % LenGranularity = 0
                ELSE desc[i].host % AddrAlign = desc[i].ep % AddrAlign

\* The hardware never fetches a descriptor outside the table, nor, in one
\* fetch, descriptors of two 4 KB pages.
FetchInPage ==
  fetched # <<>> =>
    /\ \A i \in 1 .. Len(fetched) : fetched[i] < Len(desc)
    /\ Head(fetched) \div DescsPerPage = fetched[Len(fetched)] \div DescsPerPage

\* While the hardware has descriptors of a request to execute, also when the
\* caller is gone, the pages they address are pinned.  A request that returns
\* the number of its bytes, or an error, leaves none pinned; one that a signal
\* ends leaves exactly the pages of its last transfer pinned, for good.
PinsBalanced ==
  /\ fetched # <<>> /\ pc # "ring" =>
       \A i \in 1 .. Len(desc) :
         \A a \in desc[i].host .. desc[i].host + desc[i].bytes - 1 :
           \E v \in pins : PhysPage(v) = a \div PageSize
  /\ pc \in {"idle", "create", "done", "ring"} => pins = {}
  /\ pc = "orphan" => pins = TransferPages
=============================================================================
