----------------------------- MODULE XdmaEngine -----------------------------
(***************************************************************************)
(* One SG-DMA engine of the XDMA driver (xdma-core.c) in interrupt mode:   *)
(* the threads inside char_sgdma_read_write / transfer_data, the engine's  *)
(* transfer list, the interrupt handlers, the deferred work that services  *)
(* the engine, and the hardware the driver talks to through registers.     *)
(*                                                                         *)
(* engine->lock is held from WorkBegin to ServiceUnmask (svc # "idle") and *)
(* for the whole of TransferQueue.  The waiting thread looks at the state  *)
(* of its transfer, frees it, and stores engine->status WITHOUT that lock. *)
(*                                                                         *)
(* These accesses may fall between any two steps of the service routine.   *)
(*                                                                         *)
(* Three constants switch hazards on; each one only adds behaviours:       *)
(*   Signals  a signal may end wait_event_interruptible;                   *)
(*   LateIdle the BUSY bit may outlive the completion it belongs to (the   *)
(*            "older HW" of the comment in engine_err_handle);             *)
(*   HwErrors the hardware may abort a transfer with an error status.      *)
(***************************************************************************)
EXTENDS Integers, Sequences

CONSTANTS
  Threads,     \* tasks calling read()/write() on the engine's device node
  Transfers,   \* memory slots of struct xdma_transfer; kfree'd ones are reused
  None,        \* no transfer
  MaxDesc,     \* bound: descriptors of one transfer
  MaxChunks,   \* bound: transfers one read()/write() is split into
  CounterMod,  \* size of the u32 descriptor counter
  Msix,        \* TRUE: xdma_channel_irq; FALSE: xdma_isr
  Signals, LateIdle, HwErrors

ASSUME BoundsAssumption ==
  /\ MaxDesc \in Nat \ {0}
  /\ MaxChunks \in Nat \ {0}
  /\ CounterMod \in Nat
  /\ CounterMod > 2 * MaxDesc

ASSUME NoneAssumption == None \notin Transfers

ASSUME SwitchAssumption ==
  /\ Msix \in BOOLEAN
  /\ Signals \in BOOLEAN
  /\ LateIdle \in BOOLEAN
  /\ HwErrors \in BOOLEAN

VARIABLES
  \* transfer_data() of each thread
  pc, remaining, transfer, value,
  \* the heap of transfers: allocated slots and their fields
  live, state, desc_num,
  \* struct xdma_engine
  transfer_list, running, desc_dequeued, status, saved_mask,
  \* engine_service_work(): pending bit, program counter, locals
  work, svc, svc_transfer, desc_count,
  \* hardware: execution phase, RUN bit, latched status, descriptor being
  \* fetched, completed_desc_count, channel interrupt enable, raised message
  hw, hw_run, hw_status, hw_transfer, hw_count, int_enable, msi,
  \* history: transfers whose descriptors the hardware all executed; whether
  \* the service routine has worked with a status that was not the one it read
  executed, lost_status

thread_vars == <<pc, remaining, transfer, value>>
heap_vars   == <<live, state, desc_num>>
engine_vars == <<transfer_list, running, desc_dequeued, status>>
svc_vars    == <<work, svc, svc_transfer, desc_count>>
run_vars    == <<hw, hw_run, hw_transfer, hw_count>>
irq_vars    == <<hw_status, int_enable, msi, saved_mask>>

vars == <<thread_vars, heap_vars, engine_vars, svc_vars, run_vars, irq_vars,
          executed, lost_status>>

StatusBits == {"DESC_COMPLETED", "DESC_STOPPED", "ERROR"}

(***************************************************************************)
(* Registers.                                                              *)
(***************************************************************************)

\* The status register: latched event bits and the BUSY level.
StatusRegister == hw_status \cup (IF hw = "idle" THEN {} ELSE {"BUSY"})

\* The engine's interrupt request as the interrupt controller sees it.
IrqLevel == hw_status # {} /\ int_enable

\* A message is sent when the request rises.
RaiseIrq == msi' = (msi \/ (~IrqLevel /\ IrqLevel'))

\* xdma_engine_stop(): write the control register without RUN.
EngineStop ==
  /\ hw_run' = FALSE
  /\ hw' = IF hw = "run" THEN "halting" ELSE hw

\* A shutdown that forgets engine->running.
EngineShutdownStaysRunning == EngineStop /\ UNCHANGED running

\* engine_service_shutdown().
EngineShutdown ==
  /\ EngineStop
  /\ running' = FALSE

\* engine_start(): the RUN edge makes the hardware fetch the descriptors of x.
EngineStart(x) ==
  /\ running' = TRUE
  /\ desc_dequeued' = 0
  /\ hw_run' = TRUE
  /\ IF hw_run
       THEN UNCHANGED <<hw, hw_transfer, hw_count>>
       ELSE /\ hw' = "run"
            /\ hw_transfer' = x
            /\ hw_count' = 0

(***************************************************************************)
(* References the code or the hardware will still follow.                  *)
(***************************************************************************)
Listed == {transfer_list[i] : i \in 1 .. Len(transfer_list)}

\* The transfer whose new state is stored and whose waiter is not woken yet.
Completing ==
  IF svc \in {"unlink", "wake", "wake_list"} THEN {svc_transfer} ELSE {}

Referenced ==
  Listed \cup Completing \cup (IF hw = "run" THEN {hw_transfer} ELSE {})

\* BUG_ON(!transfer) in engine_service_transfer_list().
BugOn == svc = "list" /\ transfer_list = <<>>

\* Behaviour is defined until a BUG_ON or a use of freed memory.
Defined == ~BugOn /\ Referenced \subseteq live

(***************************************************************************)
(* Pieces of the code the actions below share.                             *)
(***************************************************************************)

\* No lock.
NeverLocked == FALSE

\* The engine lock is held by the deferred work.
Locked == svc # "idle"

\* The service routine has read engine->status and will still test it.
StatusInUse == svc \in {"count", "list", "wake_list"}

\* list_add() instead of list_add_tail().
EnqueueAtHead(x) == <<x>> \o transfer_list

\* list_add_tail(&transfer->entry, &engine->transfer_list).
Enqueue(x) == Append(transfer_list, x)

\* A completed transfer that is not removed.
KeepListed == transfer_list

\* list_del(engine->transfer_list.next).
Dequeue == Tail(transfer_list)

\* Any return of the wait taken for a completion.
AnyWakeup(x) == TRUE

\* The test of transfer->state in the wait condition and in transfer_data().
NotSubmitted(x) == state[x] # "SUBMITTED"

\* A loop that stops only on an error.
NeverLastChunk(t) == FALSE

\* The chunk just completed was the last one of the request.
LastChunk(t) == remaining[t] = 1

\* Descriptors completed in this run and not yet accounted for, a u32.
Undequeued == (hw_count - desc_dequeued) % CounterMod

\* Complete when the engine stopped one descriptor early.
GenerousVerdict(x) ==
  IF desc_count + 1 < desc_num[x] THEN "FAILED" ELSE "COMPLETED"

\* The verdict on the last transfer of a run.
Verdict(x) ==
  IF desc_count < desc_num[x] THEN "FAILED" ELSE "COMPLETED"

\* Nobody is woken.
NoWakeUp(x) == pc

\* wake_up_interruptible(&transfer->wq).
WakeUp(x) ==
  [t \in Threads |-> IF pc[t] = "asleep" /\ transfer[t] = x
                       THEN "wait" ELSE pc[t]]

\* A service routine that leaves queued transfers to the next transfer_queue().
NeverRestart == FALSE

\* engine_service_resume(): stopped with transfers left.
MustRestart == ~running /\ transfer_list # <<>>

\* The engine's mask is never written back.
StayMasked == IF Msix THEN int_enable ELSE TRUE

\* The interrupt enable the deferred work writes at its end.
Unmasked == IF Msix THEN int_enable \/ saved_mask ELSE TRUE

(***************************************************************************)
(* Threads: char_sgdma_read_write() and transfer_data().                   *)
(***************************************************************************)

\* The request returns; which code it returns no later step depends on.
Finish(t) ==
  /\ pc' = [pc EXCEPT ![t] = "idle"]
  /\ remaining' = [remaining EXCEPT ![t] = 0]
  /\ transfer' = [transfer EXCEPT ![t] = None]

\* read()/write() with a length of `chunks' maximal transfers.
Request(t) ==
  /\ Defined
  /\ pc[t] = "idle"
  /\ \E chunks \in 1 .. MaxChunks :
       remaining' = [remaining EXCEPT ![t] = chunks]
  /\ pc' = [pc EXCEPT ![t] = "create"]
  /\ UNCHANGED <<transfer, value, heap_vars, engine_vars, svc_vars, run_vars,
                 irq_vars, executed, lost_status>>

\* transfer_create() returned a transfer.
TransferCreate(t) ==
  /\ Defined
  /\ pc[t] = "create"
  /\ \E x \in Transfers \ live, n \in 1 .. MaxDesc :
       /\ live' = live \cup {x}
       /\ state' = [state EXCEPT ![x] = "NEW"]
       /\ desc_num' = [desc_num EXCEPT ![x] = n]
       /\ transfer' = [transfer EXCEPT ![t] = x]
       /\ executed' = executed \ {x}
  /\ pc' = [pc EXCEPT ![t] = "queue"]
  /\ UNCHANGED <<remaining, value, engine_vars, svc_vars, run_vars,
                 irq_vars, lost_status>>

\* transfer_create() returned NULL: the request ends with -EIO.
TransferCreateFails(t) ==
  /\ Defined
  /\ pc[t] = "create"
  /\ Finish(t)
  /\ UNCHANGED <<value, heap_vars, engine_vars, svc_vars, run_vars, irq_vars,
                 executed, lost_status>>

\* transfer_queue(), under engine->lock.
TransferQueue(t) ==
  /\ Defined
  /\ pc[t] = "queue"
  /\ ~Locked
  /\ state' = [state EXCEPT ![transfer[t]] = "SUBMITTED"]
  /\ transfer_list' = Enqueue(transfer[t])
  /\ IF running
       THEN UNCHANGED <<running, desc_dequeued, run_vars>>
       ELSE EngineStart(Head(transfer_list'))
  /\ pc' = [pc EXCEPT ![t] = "wait"]
  /\ UNCHANGED <<remaining, transfer, value, live, desc_num, status,
                 svc_vars, irq_vars, executed, lost_status>>

\* transfer_monitor(): wait_event_interruptible evaluates its condition, and
\* the task sleeps when it is false.
TransferMonitor(t) ==
  /\ Defined
  /\ pc[t] = "wait"
  /\ pc' = [pc EXCEPT ![t] =
              IF NotSubmitted(transfer[t]) THEN "taken" ELSE "asleep"]
  /\ UNCHANGED <<remaining, transfer, value, heap_vars, engine_vars,
                 svc_vars, run_vars, irq_vars, executed, lost_status>>

\* A signal ends the wait.
Interrupt(t) ==
  /\ Defined
  /\ Signals
  /\ pc[t] \in {"wait", "asleep"}
  /\ pc' = [pc EXCEPT ![t] = "taken"]
  /\ UNCHANGED <<remaining, transfer, value, heap_vars, engine_vars,
                 svc_vars, run_vars, irq_vars, executed, lost_status>>

\* transfer_data() finds the transfer no longer SUBMITTED and destroys it.
TransferDestroy(t) ==
  /\ Defined
  /\ pc[t] = "taken"
  /\ NotSubmitted(transfer[t])
  /\ live' = live \ {transfer[t]}
  /\ IF state[transfer[t]] # "COMPLETED" \/ LastChunk(t)
       THEN Finish(t)
       ELSE /\ pc' = [pc EXCEPT ![t] = "create"]
            /\ remaining' = [remaining EXCEPT ![t] = @ - 1]
            /\ transfer' = [transfer EXCEPT ![t] = None]
  /\ UNCHANGED <<value, state, desc_num, engine_vars, svc_vars, run_vars,
                 irq_vars, executed, lost_status>>

\* Interrupted while the transfer is in flight: engine_status_read(engine, 0)
\* reads the register ...
StatusRead(t) ==
  /\ Defined
  /\ pc[t] = "taken"
  /\ ~NotSubmitted(transfer[t])
  /\ value' = [value EXCEPT ![t] = StatusRegister]
  /\ pc' = [pc EXCEPT ![t] = "store"]
  /\ UNCHANGED <<remaining, transfer, heap_vars, engine_vars, svc_vars,
                 run_vars, irq_vars, executed, lost_status>>

\* ... and stores it in engine->status; the transfer stays queued and is
\* never freed.
StatusStore(t) ==
  /\ Defined
  /\ pc[t] = "store"
  /\ status' = value[t]
  /\ lost_status' = (lost_status \/ (StatusInUse /\ value[t] # status))
  /\ value' = [value EXCEPT ![t] = {}]
  /\ Finish(t)
  /\ UNCHANGED <<heap_vars, transfer_list, running, desc_dequeued, svc_vars,
                 run_vars, irq_vars, executed>>

(***************************************************************************)
(* Interrupt handlers.                                                     *)
(***************************************************************************)

\* xdma_isr(): mask the channels that fired, schedule their work.
XdmaIsr ==
  /\ Defined
  /\ ~Msix
  /\ msi
  /\ msi' = FALSE
  /\ int_enable' = (int_enable /\ ~IrqLevel)
  /\ work' = (work \/ IrqLevel)
  /\ UNCHANGED <<thread_vars, heap_vars, engine_vars, svc, svc_transfer,
                 desc_count, run_vars, hw_status, saved_mask, executed,
                 lost_status>>

\* xdma_channel_irq(): save the engine's mask, clear it, schedule the work.
XdmaChannelIrq ==
  /\ Defined
  /\ Msix
  /\ msi
  /\ msi' = FALSE
  /\ saved_mask' = int_enable
  /\ int_enable' = FALSE
  /\ work' = TRUE
  /\ UNCHANGED <<thread_vars, heap_vars, engine_vars, svc, svc_transfer,
                 desc_count, run_vars, hw_status, executed, lost_status>>

(***************************************************************************)
(* engine_service_work() and engine_service(), under engine->lock.         *)
(***************************************************************************)

WorkBegin ==
  /\ Defined
  /\ work
  /\ svc = "idle"
  /\ work' = FALSE
  /\ svc' = "status"
  /\ UNCHANGED <<thread_vars, heap_vars, engine_vars, svc_transfer,
                 desc_count, run_vars, irq_vars, executed, lost_status>>

\* engine_status_read(engine, 1): read and clear; an engine that is not
\* running needs no more.
ServiceStatus ==
  /\ Defined
  /\ svc = "status"
  /\ status' = StatusRegister
  /\ hw_status' = {}
  /\ svc' = IF running THEN "count" ELSE "unmask"
  /\ UNCHANGED <<thread_vars, heap_vars, transfer_list, running,
                 desc_dequeued, work, svc_transfer, desc_count, run_vars,
                 int_enable, msi, saved_mask, executed, lost_status>>

\* engine_service_shutdown() when no longer busy, then the number of
\* descriptors completed and not yet accounted for (a u32 difference).
ServiceCount ==
  /\ Defined
  /\ svc = "count"
  /\ IF "BUSY" \in status
       THEN UNCHANGED <<running, hw, hw_run>>
       ELSE EngineShutdown
  /\ desc_count' = Undequeued
  /\ svc' = "list"
  /\ UNCHANGED <<thread_vars, heap_vars, transfer_list, desc_dequeued, status,
                 work, svc_transfer, hw_transfer, hw_count, irq_vars, executed,
                 lost_status>>

\* engine_service_transfer_list(): the head was passed over by the hardware.
ServicePassOver ==
  /\ Defined
  /\ svc = "list"
  /\ transfer_list # <<>>
  /\ LET x == Head(transfer_list) IN
       /\ desc_count > desc_num[x]
       /\ desc_count' = desc_count - desc_num[x]
       /\ transfer_list' = Dequeue
       /\ desc_dequeued' = desc_dequeued + desc_num[x]
       /\ state' = [state EXCEPT ![x] = "COMPLETED"]
       /\ svc_transfer' = x
  /\ svc' = "wake_list"
  /\ UNCHANGED <<thread_vars, live, desc_num, running, status, work, run_vars,
                 irq_vars, executed, lost_status>>

\* engine_err_handle(): the failed transfer stays on the list, nobody is woken.
ServiceErr ==
  /\ Defined
  /\ svc = "list"
  /\ transfer_list # <<>>
  /\ desc_count <= desc_num[Head(transfer_list)]
  /\ "ERROR" \in status
  /\ state' = [state EXCEPT ![Head(transfer_list)] = "FAILED"]
  /\ EngineStop
  /\ svc' = "resume"
  /\ UNCHANGED <<thread_vars, live, desc_num, engine_vars, work, svc_transfer,
                 desc_count, hw_transfer, hw_count, irq_vars, executed,
                 lost_status>>

\* engine_service_final_transfer(): the verdict on the head of the list ...
ServiceFinal ==
  /\ Defined
  /\ svc = "list"
  /\ transfer_list # <<>>
  /\ LET x == Head(transfer_list) IN
       /\ desc_count <= desc_num[x]
       /\ state' = [state EXCEPT ![x] = Verdict(x)]
       /\ svc_transfer' = x
  /\ "ERROR" \notin status
  /\ svc' = "unlink"
  /\ UNCHANGED <<thread_vars, live, desc_num, engine_vars, work, desc_count,
                 run_vars, irq_vars, executed, lost_status>>

\* ... which is then taken off the list ...
ServiceUnlink ==
  /\ Defined
  /\ svc = "unlink"
  /\ transfer_list' = Dequeue
  /\ desc_dequeued' = desc_dequeued + desc_num[svc_transfer]
  /\ svc' = "wake"
  /\ UNCHANGED <<thread_vars, heap_vars, running, status, work, svc_transfer,
                 desc_count, run_vars, irq_vars, executed, lost_status>>

\* ... and its waiter woken: engine_transfer_completion().
ServiceWake ==
  /\ Defined
  /\ svc \in {"wake", "wake_list"}
  /\ pc' = WakeUp(svc_transfer)
  /\ svc' = IF svc = "wake" THEN "resume" ELSE "list"
  /\ svc_transfer' = None
  /\ UNCHANGED <<remaining, transfer, value, heap_vars, engine_vars, work,
                 desc_count, run_vars, irq_vars, executed, lost_status>>

\* engine_service_resume(): restart a stopped engine that has work left.
ServiceResume ==
  /\ Defined
  /\ svc = "resume"
  /\ IF MustRestart
       THEN EngineStart(Head(transfer_list))
       ELSE UNCHANGED <<running, desc_dequeued, run_vars>>
  /\ svc' = "unmask"
  /\ UNCHANGED <<thread_vars, heap_vars, transfer_list, status, work,
                 svc_transfer, desc_count, irq_vars, executed, lost_status>>

\* Re-enable the engine's interrupts and unlock.
ServiceUnmask ==
  /\ Defined
  /\ svc = "unmask"
  /\ int_enable' = Unmasked
  /\ desc_count' = 0
  /\ svc' = "idle"
  /\ UNCHANGED hw_status
  /\ RaiseIrq
  /\ UNCHANGED <<thread_vars, heap_vars, engine_vars, work, svc_transfer,
                 run_vars, saved_mask, executed, lost_status>>

(***************************************************************************)
(* The hardware.                                                           *)
(***************************************************************************)

\* A descriptor that is not the last one of its transfer.
HwDescriptor ==
  /\ Defined
  /\ hw = "run"
  /\ hw_count + 1 < desc_num[hw_transfer]
  /\ hw_count' = hw_count + 1
  /\ UNCHANGED <<thread_vars, heap_vars, engine_vars, svc_vars, hw, hw_run,
                 hw_transfer, irq_vars, executed, lost_status>>

\* The last descriptor, flagged STOPPED | COMPLETED.
HwLastDescriptor ==
  /\ Defined
  /\ hw = "run"
  /\ hw_count + 1 = desc_num[hw_transfer]
  /\ hw_count' = hw_count + 1
  /\ executed' = executed \cup {hw_transfer}
  /\ \/ /\ hw' = "idle"
        /\ hw_status' = hw_status \cup {"DESC_COMPLETED", "DESC_STOPPED"}
     \/ /\ LateIdle
        /\ hw' = "halting"
        /\ hw_status' = hw_status \cup {"DESC_COMPLETED"}
  /\ UNCHANGED int_enable
  /\ RaiseIrq
  /\ UNCHANGED <<thread_vars, heap_vars, engine_vars, svc_vars, hw_run,
                 hw_transfer, saved_mask, lost_status>>

\* The hardware aborts the transfer with an error status.
HwError ==
  /\ Defined
  /\ HwErrors
  /\ hw = "run"
  /\ \/ hw' = "idle"
     \/ LateIdle /\ hw' = "halting"
  /\ hw_status' = hw_status \cup {"ERROR"}
  /\ UNCHANGED int_enable
  /\ RaiseIrq
  /\ UNCHANGED <<thread_vars, heap_vars, engine_vars, svc_vars, hw_run,
                 hw_transfer, hw_count, saved_mask, executed, lost_status>>

\* BUSY goes away after the fact.
HwIdle ==
  /\ Defined
  /\ hw = "halting"
  /\ hw' = "idle"
  /\ hw_status' = hw_status \cup {"DESC_STOPPED"}
  /\ UNCHANGED int_enable
  /\ RaiseIrq
  /\ UNCHANGED <<thread_vars, heap_vars, engine_vars, svc_vars, hw_run,
                 hw_transfer, hw_count, saved_mask, executed, lost_status>>

-----------------------------------------------------------------------------

Init ==
  /\ pc = [t \in Threads |-> "idle"]
  /\ remaining = [t \in Threads |-> 0]
  /\ transfer = [t \in Threads |-> None]
  /\ value = [t \in Threads |-> {}]
  /\ live = {}
  /\ state = [x \in Transfers |-> "NEW"]
  /\ desc_num = [x \in Transfers |-> 1]
  /\ transfer_list = <<>>
  /\ running = FALSE
  /\ desc_dequeued = 0
  /\ status = {}
  /\ saved_mask = FALSE
  /\ work = FALSE
  /\ svc = "idle"
  /\ svc_transfer = None
  /\ desc_count = 0
  /\ hw = "idle"
  /\ hw_run = FALSE
  /\ hw_status = {}
  /\ hw_transfer = None
  /\ hw_count = 0
  /\ int_enable = TRUE
  /\ msi = FALSE
  /\ executed = {}
  /\ lost_status = FALSE

ThreadStep(t) ==
  \/ TransferCreate(t) \/ TransferCreateFails(t)
  \/ TransferQueue(t) \/ TransferMonitor(t)
  \/ TransferDestroy(t) \/ StatusRead(t) \/ StatusStore(t)

Irq == XdmaIsr \/ XdmaChannelIrq

Service ==
  \/ WorkBegin \/ ServiceStatus \/ ServiceCount
  \/ ServicePassOver \/ ServiceErr \/ ServiceFinal
  \/ ServiceUnlink \/ ServiceWake \/ ServiceResume \/ ServiceUnmask

HwStep == HwDescriptor \/ HwLastDescriptor \/ HwIdle

Next ==
  \/ \E t \in Threads : Request(t) \/ ThreadStep(t) \/ Interrupt(t)
  \/ Irq
  \/ Service
  \/ HwStep
  \/ HwError

Spec == Init /\ [][Next]_vars

(***************************************************************************)
(* Fairness: the scheduler runs runnable tasks and the workqueue, raised   *)
(* interrupts are delivered, a started engine makes progress, and the      *)
(* (ticket) spinlock is handed to every task that spins on it.  Nothing is *)
(* assumed of user requests, of signals or of hardware errors.             *)
(***************************************************************************)
Fairness ==
  /\ \A t \in Threads :
       /\ WF_vars(\/ TransferCreate(t) \/ TransferCreateFails(t)
                  \/ TransferMonitor(t) \/ TransferDestroy(t)
                  \/ StatusRead(t) \/ StatusStore(t))
       /\ SF_vars(TransferQueue(t))
  /\ WF_vars(Irq)
  /\ WF_vars(Service)
  /\ WF_vars(HwStep)

FairSpec == Spec /\ Fairness

-----------------------------------------------------------------------------
(***************************************************************************)
(* Properties.                                                             *)
(***************************************************************************)

\* Every variable stays in the range the C declarations give it.
TypeOK ==
  /\ pc \in [Threads -> {"idle", "create", "queue", "wait", "asleep", "taken",
                         "store"}]
  /\ remaining \in [Threads -> 0 .. MaxChunks]
  /\ transfer \in [Threads -> Transfers \cup {None}]
  /\ value \in [Threads -> SUBSET (StatusBits \cup {"BUSY"})]
  /\ live \in SUBSET Transfers
  /\ state \in [Transfers -> {"NEW", "SUBMITTED", "COMPLETED", "FAILED"}]
  /\ desc_num \in [Transfers -> 1 .. MaxDesc]
  /\ transfer_list \in Seq(Transfers)
  /\ running \in BOOLEAN
  /\ desc_dequeued \in Nat
  /\ status \in SUBSET (StatusBits \cup {"BUSY"})
  /\ saved_mask \in BOOLEAN
  /\ work \in BOOLEAN
  /\ svc \in {"idle", "status", "count", "list", "unlink", "wake",
              "wake_list", "resume", "unmask"}
  /\ svc_transfer \in Transfers \cup {None}
  /\ desc_count \in Nat
  /\ hw \in {"idle", "run", "halting"}
  /\ hw_run \in BOOLEAN
  /\ hw_status \in SUBSET StatusBits
  /\ hw_transfer \in Transfers \cup {None}
  /\ hw_count \in 0 .. MaxDesc
  /\ int_enable \in BOOLEAN
  /\ msi \in BOOLEAN
  /\ executed \in SUBSET Transfers
  /\ lost_status \in BOOLEAN

\* A transfer reported COMPLETED had all its descriptors executed by the
\* hardware since it was created: the count read from the register, less the
\* descriptors dequeued in this run, is attributed to the right transfer, until
\* the status under service is replaced by an interrupted waiter's.
CompletedExecuted ==
  ~lost_status => \A x \in live : state[x] = "COMPLETED" => x \in executed

\* No interrupt is lost between the mask in the ISR and the unmask in the work:
\* when no service is under way or scheduled, the engine's interrupt is enabled
\* and every latched event has its message raised.
IrqNotLost ==
  svc = "idle" /\ ~work => int_enable /\ (hw_status # {} => msi)

\* Nothing the list or the hardware refers to is freed by transfer_destroy(),
\* in whatever order threads, signals and the service routine take their steps,
\* but the one transfer the service routine is completing at that moment (the
\* unlocked test of its state that TakenOffEngine is about).
NoDanglingReference == Referenced \ live \subseteq Completing

\* The BUG_ON(!transfer) of engine_service_transfer_list() never fires: the
\* engine is serviced as running only while it has a transfer.
NoBugOn == ~BugOn

\* The WARN_ON(1) of engine_service_resume() never fires: the engine is not
\* left running with nothing queued.
NoWarnOn == ~(svc = "resume" /\ running /\ transfer_list = <<>>)

\* The BUG_ON never fires, and the WARN_ON only after an interrupted waiter's
\* unlocked engine_status_read() replaced the status under service.
AssertionsHold == NoBugOn /\ (NoWarnOn \/ lost_status)

\* Outside the service routine an engine with something queued is marked
\* running, and a running one was given the head of the list; only a status
\* lost to an interrupted waiter leaves it marked running with nothing to do.
RunsHead ==
  ~Locked =>
    /\ transfer_list # <<>> => running
    /\ running /\ ~lost_status =>
         transfer_list # <<>> /\ hw_transfer = Head(transfer_list)

\* With hardware that reports no error no transfer is given up as FAILED.
NeverFailed == \A x \in live : state[x] # "FAILED"

\* The hardware is never started on a transfer it has already executed (until
\* a status is lost).
ExecutedOnce ==
  [][~lost_status /\ hw # "run" /\ hw' = "run"
       => hw_transfer' \notin executed]_vars

\* The hardware finishes transfers in the order transfer_queue() took them
\* (until a status is lost).
ExecutedInOrder ==
  [][~lost_status /\ executed' \ executed # {}
       => transfer_list # <<>> /\ hw_transfer = Head(transfer_list)]_vars

\* transfer_data() tests the state to learn that its "transfer was taken off
\* the engine": when it destroys a transfer, that transfer is off the list.
TakenOffEngine ==
  [][\A t \in Threads : TransferDestroy(t) => transfer[t] \notin Listed]_vars

\* Every read() or write() returns, unless a waiter's unlocked access has hit
\* the service routine.
RequestReturns ==
  \A t \in Threads : pc[t] # "idle" ~> pc[t] = "idle" \/ lost_status \/ ~Defined

\* Every queued transfer leaves the list, those of interrupted requests too,
\* with the same exception.
QueueDrains ==
  \A x \in Transfers : x \in Listed ~> x \notin Listed \/ lost_status \/ ~Defined

(***************************************************************************)
(* The engine implements DmaQueue.                                         *)
(***************************************************************************)

\* What has happened to the transfer in slot x.
PhaseOf(x) ==
  IF x \notin live \/ state[x] = "NEW" THEN "free"
  ELSE IF state[x] = "SUBMITTED"
         THEN (IF x \in executed THEN "moved" ELSE "queued")
         ELSE (IF x \in Listed THEN "reported" ELSE "retired")

Queue == INSTANCE DmaQueue WITH
           queue <- transfer_list,
           phase <- [x \in Transfers |-> PhaseOf(x)]

\* Every step of the engine is a step of DmaQueue or leaves it alone, but the
\* one that frees a transfer the engine still uses, after which behaviour is
\* undefined: first in first out, moved before reported, nothing moved twice.
ImplementsDmaQueue ==
  /\ Queue!Init
  /\ [][Defined' => [Queue!Next]_<<transfer_list,
                                   [x \in Transfers |-> PhaseOf(x)]>>]_vars

=============================================================================
