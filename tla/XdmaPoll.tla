------------------------------ MODULE XdmaPoll ------------------------------
(***************************************************************************)
(* One SG-DMA engine of the XDMA driver (xdma-core.c) in poll mode: there  *)
(* is no interrupt; each thread in transfer_data() polls the writeback     *)
(* word the hardware keeps in memory, for the descriptor count of its own  *)
(* transfer, and then services the engine itself under engine->lock.  The  *)
(* poll ends after POLL_TIMEOUT_SECONDS at the latest.                     *)
(***************************************************************************)
EXTENDS Integers, Sequences, FiniteSets, FiniteSetsExt

CONSTANTS
  Threads,    \* tasks calling read()/write() on the engine's device node
  Transfers,  \* memory slots of struct xdma_transfer
  None,
  MaxDesc,    \* bound: descriptors of one transfer
  Sharing,    \* TRUE: threads may use the engine at the same time
  MaxFaults   \* bound: polls that time out and transfers the hardware aborts

ASSUME PollAssumption ==
  /\ MaxDesc \in Nat \ {0}
  /\ None \notin Transfers
  /\ Sharing \in BOOLEAN
  /\ MaxFaults \in Nat

VARIABLES
  pc, transfer, desc_wb,          \* transfer_data() of each thread
  live, state, desc_num,          \* the heap of transfers
  transfer_list, running, desc_dequeued, status,  \* struct xdma_engine
  wb,                             \* the writeback word: count, error bit
  hw_transfer, hw_count, hw_error,  \* hardware: busy with (or None), progress
  executed,  \* history: live transfers executed to the last descriptor
  false_ok,  \* history: success was reported for a transfer not in executed
  shared,    \* history: two threads were in the engine at the same time
  faults     \* history: number of timeouts and hardware errors

thread_vars == <<pc, transfer, desc_wb>>
heap_vars   == <<live, state, desc_num>>
engine_vars == <<transfer_list, running, desc_dequeued, status>>
hw_vars     == <<hw_transfer, hw_count, hw_error>>

history_vars == <<executed, false_ok, shared, faults>>

vars == <<thread_vars, heap_vars, engine_vars, wb, hw_vars, history_vars>>

Word(c, e) == [count |-> c, err |-> e]
NoWord == Word(0, FALSE)

\* A kernel bug or a use of freed memory: nothing more is said.
Broken == \E t \in Threads : pc[t] = "broken"

Busy(t) == \E u \in Threads \ {t} : pc[u] # "idle"

Fault == faults < MaxFaults /\ faults' = faults + 1

(***************************************************************************)
(* The engine.                                                             *)
(***************************************************************************)

\* engine_start(): the hardware begins the transfer and counts from 0.
EngineStart(x) ==
  /\ running' = TRUE
  /\ desc_dequeued' = 0
  /\ hw_transfer' = x
  /\ hw_count' = 0
  /\ hw_error' = FALSE

\* engine_status_read(): the status register.
StatusRegister ==
  (IF hw_transfer # None THEN {"BUSY"} ELSE {}) \cup (IF hw_error THEN {"ERROR"} ELSE {})

\* Descriptors of the first j transfers of the list.
DescSum(j) ==
  LET sum[i \in 0 .. Len(transfer_list)] ==
        IF i = 0 THEN 0 ELSE sum[i - 1] + desc_num[transfer_list[i]]
  IN sum[j]

\* engine_service_transfer_list(): the transfers passed over, all of them
\* when the count, less what was dequeued, wrapped around.
PassedOver(k) ==
  IF k < 0 THEN Len(transfer_list)
           ELSE Max({j \in 0 .. Len(transfer_list) : j = 0 \/ k > DescSum(j)})

\* engine_service_final_transfer(): the state of the last transfer.
Verdict(x, k, st) ==
  CASE "ERROR" \in st -> "FAILED"
    [] "ERROR" \notin st /\ k < desc_num[x] -> "FAILED"
    [] OTHER -> "COMPLETED"

\* A completed transfer that is not taken off the list.
StillListedCompleted(p, err) == SubSeq(transfer_list, p + 1, Len(transfer_list))

\* The list after p transfers were passed over and the next one was judged:
\* engine_err_handle() leaves a transfer with an error at its head.
StillListed(p, err) ==
  SubSeq(transfer_list, p + (IF err THEN 1 ELSE 2), Len(transfer_list))

\* Servicing that leaves the old count in place.
ClearedWbNot == wb

\* Before starting engine again, clear the writeback data.
ClearedWb == NoWord

\* A stopped engine that waits for the next transfer_queue().
NeverRestart(rest) == FALSE

\* engine_service_resume(): (re)start the engine with a pending transfer.
MustRestart(rest) == rest # <<>>

(***************************************************************************)
(* engine_service(engine, w), under engine->lock.                          *)
(***************************************************************************)
ReadsStatus(w) == w.count = 0 \/ w.err
ServiceStatus(w) == IF ReadsStatus(w) THEN StatusRegister ELSE status
ServiceStops(w) == "BUSY" \notin ServiceStatus(w) \/ w.count # 0
ServiceCount(w) ==
  (IF w.count = 0 THEN hw_count ELSE w.count) - desc_dequeued

\* The first transfer that is not passed over ends the walk.
ServiceList(w) ==
  LET k    == ServiceCount(w)
      p    == PassedOver(k)
      x    == transfer_list[p + 1]
      st   == ServiceStatus(w)
      k2   == k - DescSum(p)
      err  == "ERROR" \in st
      rest == StillListed(p, err)
  IN
  /\ state' = [y \in Transfers |->
                 CASE \E i \in 1 .. p : transfer_list[i] = y -> "COMPLETED"
                   [] y = x -> Verdict(x, k2, st)
                   [] OTHER -> state[y]]
  /\ transfer_list' = rest
  /\ status' = st
  /\ wb' = ClearedWb
  /\ IF ServiceStops(w) /\ MustRestart(rest)
       THEN EngineStart(Head(rest))
       ELSE /\ running' = ~ServiceStops(w)
            /\ desc_dequeued' = desc_dequeued + DescSum(p)
                                  + (IF err THEN 0 ELSE desc_num[x])
            /\ hw_transfer' = IF ServiceStops(w) \/ err THEN None ELSE hw_transfer
            /\ hw_error' = (hw_error /\ ~ReadsStatus(w))
            /\ UNCHANGED hw_count

(***************************************************************************)
(* transfer_data() of thread t.                                            *)
(***************************************************************************)

\* transfer_create(): the memory kzalloc() may return.
FreeSlots == Transfers \ live

\* char_sgdma_read_write(), transfer_create().
Request(t) ==
  /\ ~Broken
  /\ pc[t] = "idle"
  /\ Sharing \/ ~Busy(t)
  /\ \E x \in FreeSlots, n \in 1 .. MaxDesc :
       /\ transfer' = [transfer EXCEPT ![t] = x]
       /\ live' = live \cup {x}
       /\ desc_num' = [desc_num EXCEPT ![x] = n]
  /\ pc' = [pc EXCEPT ![t] = "queue"]
  /\ shared' = (shared \/ Busy(t))
  /\ UNCHANGED <<desc_wb, state, engine_vars, wb, hw_vars, executed, false_ok,
                 faults>>

\* transfer_queue().
TransferQueue(t) ==
  /\ ~Broken
  /\ pc[t] = "queue"
  /\ state' = [state EXCEPT ![transfer[t]] = "SUBMITTED"]
  /\ transfer_list' = Append(transfer_list, transfer[t])
  /\ IF running
       THEN UNCHANGED <<running, desc_dequeued, hw_vars>>
       ELSE EngineStart(Head(transfer_list'))
  /\ pc' = [pc EXCEPT ![t] = "poll"]
  /\ UNCHANGED <<transfer, desc_wb, live, desc_num, status, wb, history_vars>>

\* engine_service_wb_monitor(): the loop leaves on an error or on the count.
Expected(t) == wb.err \/ wb.count = desc_num[transfer[t]]

Poll(t) ==
  /\ ~Broken
  /\ pc[t] = "poll"
  /\ Expected(t)
  /\ desc_wb' = [desc_wb EXCEPT ![t] = wb]
  /\ pc' = [pc EXCEPT ![t] = "service"]
  /\ UNCHANGED <<transfer, heap_vars, engine_vars, wb, hw_vars, history_vars>>

\* engine_service_wb_monitor(): ten seconds have passed.
PollTimeout(t) ==
  /\ ~Broken
  /\ pc[t] = "poll"
  /\ ~Expected(t)
  /\ desc_wb' = [desc_wb EXCEPT ![t] =
                   IF wb.count > desc_num[transfer[t]]
                     THEN Word(desc_num[transfer[t]], TRUE)
                     ELSE wb]
  /\ pc' = [pc EXCEPT ![t] = "service"]
  /\ Fault
  /\ UNCHANGED <<transfer, heap_vars, engine_vars, wb, hw_vars, executed, false_ok,
                 shared>>

\* engine_service_poll(): the engine was stopped by somebody else.
ServiceNotRunning(t) ==
  /\ ~Broken
  /\ pc[t] = "service"
  /\ ~running
  /\ IF desc_wb[t] = NoWord
       THEN status' = StatusRegister /\ hw_error' = FALSE
       ELSE UNCHANGED <<status, hw_error>>
  /\ pc' = [pc EXCEPT ![t] = "check"]
  /\ desc_wb' = [desc_wb EXCEPT ![t] = NoWord]
  /\ UNCHANGED <<transfer, heap_vars, transfer_list, running, desc_dequeued,
                 wb, hw_transfer, hw_count, history_vars>>

\* engine_service_poll(): the engine is serviced; only the error bit is
\* returned, as rc.
Service(t) ==
  /\ ~Broken
  /\ pc[t] = "service"
  /\ running
  /\ PassedOver(ServiceCount(desc_wb[t])) < Len(transfer_list)
  /\ ServiceList(desc_wb[t])
  /\ desc_wb' = [desc_wb EXCEPT ![t].count = 0]
  /\ pc' = [pc EXCEPT ![t] = "check"]
  /\ UNCHANGED <<transfer, live, desc_num, history_vars>>

\* BUG_ON(!transfer) of engine_service_transfer_list() and of
\* engine_service_final_transfer(): the list is, or becomes, empty.
ServiceBug(t) ==
  /\ ~Broken
  /\ pc[t] = "service"
  /\ running
  /\ PassedOver(ServiceCount(desc_wb[t])) >= Len(transfer_list)
  /\ pc' = [pc EXCEPT ![t] = "broken"]
  /\ UNCHANGED <<transfer, desc_wb, heap_vars, engine_vars, wb, hw_vars,
                 history_vars>>

\* References to a transfer that the engine or the hardware will follow.
Referenced(x) ==
  \/ \E i \in 1 .. Len(transfer_list) : transfer_list[i] = x
  \/ hw_transfer = x

\* Back from transfer_data(), with or without success.
Return(t, ok) ==
  /\ false_ok' = (false_ok \/ (ok /\ transfer[t] \notin executed))
  /\ transfer' = [transfer EXCEPT ![t] = None]
  /\ desc_wb' = [desc_wb EXCEPT ![t] = NoWord]

\* The transfer is no longer SUBMITTED: it is destroyed and its state decides
\* the result.  Broken if somebody still refers to it.
Destroy(t) ==
  LET x == transfer[t] IN
  /\ ~Broken
  /\ pc[t] = "check"
  /\ state[x] # "SUBMITTED"
  /\ live' = live \ {x}
  /\ desc_num' = [desc_num EXCEPT ![x] = 1]
  /\ state' = [state EXCEPT ![x] = "NEW"]
  /\ executed' = executed \ {x}
  /\ Return(t, state[x] = "COMPLETED")
  /\ pc' = [pc EXCEPT ![t] = IF Referenced(x) THEN "broken" ELSE "idle"]
  /\ UNCHANGED <<engine_vars, wb, hw_vars, shared, faults>>

\* A transfer that the caller destroys although it is still SUBMITTED.
AbandonDestroys(t) ==
  /\ ~Broken
  /\ pc[t] = "check"
  /\ state[transfer[t]] = "SUBMITTED"
  /\ live' = live \ {transfer[t]}
  /\ Return(t, ~desc_wb[t].err)
  /\ pc' = [pc EXCEPT ![t] = "idle"]
  /\ UNCHANGED <<state, desc_num, engine_vars, wb, hw_vars, executed, shared, faults>>

\* Still SUBMITTED: an error of the poll is -ERESTARTSYS, and without one the
\* chunk counts as done.  Either way the transfer is left to the engine.
Abandon(t) ==
  /\ ~Broken
  /\ pc[t] = "check"
  /\ state[transfer[t]] = "SUBMITTED"
  /\ Return(t, ~desc_wb[t].err)
  /\ pc' = [pc EXCEPT ![t] = "idle"]
  /\ UNCHANGED <<heap_vars, engine_vars, wb, hw_vars, executed, shared, faults>>

(***************************************************************************)
(* The hardware (external).  Only the last descriptor of a transfer asks   *)
(* for a completion, so that the count is written back once, at its end.   *)
(***************************************************************************)
HwDescriptor ==
  /\ ~Broken
  /\ hw_transfer # None
  /\ hw_count + 1 < desc_num[hw_transfer]
  /\ hw_count' = hw_count + 1
  /\ UNCHANGED <<thread_vars, heap_vars, engine_vars, wb, hw_transfer,
                 hw_error, history_vars>>

HwLastDescriptor ==
  /\ ~Broken
  /\ hw_transfer # None
  /\ hw_count + 1 = desc_num[hw_transfer]
  /\ hw_count' = hw_count + 1
  /\ hw_transfer' = None
  /\ wb' = Word(hw_count + 1, FALSE)
  /\ executed' = executed \cup {hw_transfer}
  /\ UNCHANGED <<thread_vars, heap_vars, engine_vars, hw_error, false_ok,
                 shared, faults>>

HwError ==
  /\ ~Broken
  /\ hw_transfer # None
  /\ hw_transfer' = None
  /\ hw_error' = TRUE
  /\ wb' = Word(hw_count, TRUE)
  /\ Fault
  /\ UNCHANGED <<thread_vars, heap_vars, engine_vars, hw_count, executed, false_ok,
                 shared>>

(***************************************************************************)
(* Specification.                                                          *)
(***************************************************************************)
Init ==
  /\ pc = [t \in Threads |-> "idle"]
  /\ transfer = [t \in Threads |-> None]
  /\ desc_wb = [t \in Threads |-> NoWord]
  /\ live = {}
  /\ state = [x \in Transfers |-> "NEW"]
  /\ desc_num = [x \in Transfers |-> 1]
  /\ transfer_list = <<>>
  /\ running = FALSE
  /\ desc_dequeued = 0
  /\ status = {}
  /\ wb = NoWord
  /\ hw_transfer = None
  /\ hw_count = 0
  /\ hw_error = FALSE
  /\ executed = {}
  /\ false_ok = FALSE
  /\ shared = FALSE
  /\ faults = 0

ThreadStep(t) ==
  \/ TransferQueue(t) \/ Poll(t) \/ PollTimeout(t) \/ ServiceNotRunning(t)
  \/ Service(t) \/ ServiceBug(t) \/ Destroy(t) \/ Abandon(t)

HwStep == HwDescriptor \/ HwLastDescriptor

Halted == Broken /\ UNCHANGED vars

\* Every slot is leaked: no memory.
OutOfMemory == live = Transfers /\ UNCHANGED vars

Next ==
  \/ \E t \in Threads : Request(t) \/ ThreadStep(t)
  \/ HwStep \/ HwError \/ Halted \/ OutOfMemory

Spec == Init /\ [][Next]_vars

(***************************************************************************)
(* Properties.                                                             *)
(***************************************************************************)
Words == [count : 0 .. MaxDesc, err : BOOLEAN]

\* The ranges of the variables; the list and the history refer to memory in use.
TypeOK ==
  /\ pc \in [Threads -> {"idle", "queue", "poll", "service", "check",
                         "broken"}]
  /\ transfer \in [Threads -> Transfers \cup {None}]
  /\ desc_wb \in [Threads -> Words]
  /\ live \subseteq Transfers
  /\ state \in [Transfers -> {"NEW", "SUBMITTED", "COMPLETED", "FAILED"}]
  /\ desc_num \in [Transfers -> 1 .. MaxDesc]
  /\ transfer_list \in Seq(live) \/ Broken
  /\ running \in BOOLEAN
  /\ desc_dequeued \in Nat
  /\ status \subseteq {"BUSY", "ERROR"}
  /\ wb \in Words
  /\ hw_transfer \in Transfers \cup {None}
  /\ hw_count \in 0 .. MaxDesc
  /\ executed \subseteq live \/ Broken
  /\ false_ok \in BOOLEAN
  /\ shared \in BOOLEAN
  /\ faults \in 0 .. MaxFaults

\* A read() or write() that reports success has been executed by the hardware
\* to its last descriptor, as long as no two threads were in the engine at
\* the same time: also after polls that timed out and aborted transfers.
SuccessIsExecuted == ~shared => ~false_ok

\* A transfer queued behind another is not stranded: whatever the polls saw,
\* timed out on or serviced for somebody else, an engine that is not running
\* has nothing queued (transfer_queue() only starts an engine that is idle).
NothingStranded == Broken \/ running \/ transfer_list = <<>>

\* Neither an assertion of the service routine nor a transfer freed while the
\* list or the hardware still refers to it, unless a poll timed out, the
\* hardware failed, or threads shared the engine.
BrokenNeedsMishap == Broken => shared \/ faults > 0
=============================================================================
