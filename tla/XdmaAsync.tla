----------------------------- MODULE XdmaAsync -----------------------------
(***************************************************************************)
(* What the XDMA driver (xdma-core.c) does without a thread waiting for    *)
(* the engine, in interrupt mode: asynchronous I/O (sg_aio_read_write),    *)
(* performance runs (the PERF ioctls), and user interrupts read through    *)
(* the events node.  All three are driven by xdma_isr(); the first two     *)
(* share one engine, its transfer list and its service routine.            *)
(*                                                                         *)
(* The ioctls take no lock: their steps are cut at the accesses of         *)
(* engine->xdma_perf.                                                      *)
(***************************************************************************)
EXTENDS Integers, Sequences, FiniteSets

CONSTANTS
  Iocbs,     \* asynchronous requests
  Readers,   \* threads in read() of the events node
  Admins,    \* threads using the PERF ioctls
  Shapes,    \* <<segments, transfers of each segment>> of a request
  Perf,      \* owner of the transfer of a performance run
  MaxList    \* bound: transfers on the list

ASSUME AsyncAssumption ==
  /\ Perf \notin Iocbs
  /\ Shapes \subseteq (Nat \ {0}) \X (Nat \ {0})
  /\ MaxList \in Nat

VARIABLES
  aio,            \* each request: pc, shape, segment and transfer to queue
  executed,       \* history: its transfers the hardware executed to the end
  completed,      \* history: how often it was completed
  transfer_list,  \* engine->transfer_list: [owner, last_in_request]
  running,        \* engine->running
  hw,             \* head of the list: idle (halted early), run, done
  idle_irq,       \* IE_IDLE_STOPPED in the engine's interrupt_enable_mask
  ch_irq, work,   \* channel interrupt request, scheduled work
  svc,            \* progress of the service routine, which holds the lock
  xdma_perf,      \* engine->xdma_perf: null, live, or freed memory
  admin,          \* progress of each ioctl
  user_irq,       \* user interrupt request
  events_irq,     \* events pending for the readers
  reader,         \* progress of each read()
  unseen,         \* history: an interrupt no read() has reported
  overlapped,     \* history: two PERF ioctls were under way at once
  misdirected     \* history: a PERF stop met an engine not, or not only,
                  \* running the run it was to stop

aio_vars    == <<aio, executed, completed>>
engine_vars == <<transfer_list, running, hw, idle_irq>>
irq_vars    == <<ch_irq, work, svc>>
perf_vars   == <<xdma_perf, admin>>
event_vars  == <<user_irq, events_irq, reader, unseen>>

vars == <<aio_vars, engine_vars, irq_vars, perf_vars, event_vars, overlapped,
          misdirected>>

Free == [pc |-> "idle", shape |-> <<1, 1>>, seg |-> 1, chunk |-> 1]

\* A use of memory that is freed or not there ("broken"), or a BUG_ON ("bug"):
\* nothing more is said.
Broken == svc \in {"broken", "bug"} \/ \E a \in Admins : admin[a] = "broken"

Unlocked == svc = "idle"

Listed(o) == \E k \in 1 .. Len(transfer_list) : transfer_list[k].owner = o

(***************************************************************************)
(* The engine.                                                             *)
(***************************************************************************)

\* engine_start_mode_config(): a halt raises an interrupt once the engine was
\* started with xdma_perf set.
Started == idle_irq' = (idle_irq \/ xdma_perf # "null")

\* transfer_queue(), engine_start().
Queue(x) ==
  /\ Unlocked
  /\ Len(transfer_list) < MaxList
  /\ transfer_list' = Append(transfer_list, x)
  /\ running' = TRUE
  /\ IF running THEN UNCHANGED <<hw, idle_irq>> ELSE hw' = "run" /\ Started

\* A service routine that leaves the transfer on the list.
KeepListed == transfer_list

\* list_del().
Dequeue == Tail(transfer_list)

\* A stopped engine that waits for the next transfer_queue().
NeverRestart(rest) == FALSE

\* engine_service_resume().
MustRestart(rest) == rest # <<>>

\* Every transfer completes its request.
CompletesAlways(x) == x.owner # Perf

\* engine_transfer_completion(): the request is completed with its full
\* size, whatever became of the transfer.
Completes(x) == x.owner # Perf /\ x.last_in_request

(***************************************************************************)
(* Asynchronous I/O: sg_aio_read_write().                                  *)
(***************************************************************************)
AioRequest(i) ==
  /\ ~Broken
  /\ aio[i].pc = "idle"
  /\ \E s \in Shapes : aio' = [aio EXCEPT ![i] = [Free EXCEPT !.pc = "submit", !.shape = s]]
  /\ UNCHANGED <<executed, completed, engine_vars, irq_vars, perf_vars,
                 event_vars, overlapped, misdirected>>

\* One transfer is built and queued; after the last, -EIOCBQUEUED.
AioQueue(i) ==
  LET r == aio[i]
      last == r.chunk = r.shape[2]
  IN
  /\ ~Broken
  /\ r.pc = "submit"
  /\ Queue([owner |-> i, last_in_request |-> last])
  /\ aio' = [aio EXCEPT ![i] =
               [r EXCEPT !.pc    = IF last /\ r.seg = r.shape[1] THEN "queued" ELSE @,
                         !.seg   = IF last /\ r.seg < r.shape[1] THEN @ + 1 ELSE @,
                         !.chunk = IF last THEN 1 ELSE @ + 1]]
  /\ UNCHANGED <<executed, completed, irq_vars, perf_vars, event_vars, overlapped,
                 misdirected>>

\* A segment is not aligned: the error returned completes the request, the
\* segments before it stay queued.
AioMisaligned(i) ==
  /\ ~Broken
  /\ aio[i].pc = "submit"
  /\ aio[i].chunk = 1
  /\ aio' = [aio EXCEPT ![i].pc = "queued"]
  /\ completed' = [completed EXCEPT ![i] = @ + 1]
  /\ UNCHANGED <<executed, engine_vars, irq_vars, perf_vars, event_vars,
                 overlapped, misdirected>>

\* The caller has reaped the request and nothing of it is left.
AioReap(i) ==
  /\ ~Broken
  /\ aio[i].pc = "queued"
  /\ ~Listed(i)
  /\ Unlocked
  /\ aio' = [aio EXCEPT ![i] = Free]
  /\ executed' = [executed EXCEPT ![i] = 0]
  /\ completed' = [completed EXCEPT ![i] = 0]
  /\ UNCHANGED <<engine_vars, irq_vars, perf_vars, event_vars, overlapped,
                 misdirected>>

(***************************************************************************)
(* Performance runs: char_sgdma_ioctl().                                   *)
(***************************************************************************)
Step(a, l) == admin' = [admin EXCEPT ![a] = l]

\* A dereference of engine->xdma_perf on the way to label l.
Deref(a, l) == Step(a, IF xdma_perf = "live" THEN l ELSE "broken")

Begin(a) ==
  /\ ~Broken
  /\ admin[a] = "idle"
  /\ overlapped' = (overlapped \/ \E b \in Admins : admin[b] # "idle")
  /\ UNCHANGED <<aio_vars, engine_vars, irq_vars, xdma_perf, event_vars,
                 misdirected>>

\* ioctl_do_perf_start(): -EBUSY while a run seems to be on.
PerfStart(a) == xdma_perf = "null" /\ Step(a, "alloc") /\ Begin(a)

\* kzalloc() may fail; an unsupported version returns with xdma_perf set.
PerfAlloc(a) ==
  /\ ~Broken
  /\ admin[a] = "alloc"
  /\ \/ xdma_perf' = "null" /\ Step(a, "idle")
     \/ xdma_perf' = "live" /\ \E l \in {"submit", "idle"} : Step(a, l)
  /\ UNCHANGED <<aio_vars, engine_vars, irq_vars, event_vars, overlapped,
                 misdirected>>

\* xdma_performance_submit(): a loop of descriptors is queued.
PerfSubmit(a) ==
  /\ ~Broken
  /\ admin[a] = "submit"
  /\ Deref(a, "idle")
  /\ Queue([owner |-> Perf, last_in_request |-> FALSE])
  /\ UNCHANGED <<aio_vars, irq_vars, xdma_perf, event_vars, overlapped,
                 misdirected>>

\* ioctl_do_perf_stop().
PerfStop(a) == xdma_perf # "null" /\ Step(a, "stop") /\ Begin(a)

\* The head of the list is not the run that was started last.
Misses ==
  /\ transfer_list # <<>>
  /\ \/ Head(transfer_list).owner # Perf
     \/ \E k \in 2 .. Len(transfer_list) : transfer_list[k].owner = Perf

\* xdma_engine_stop(): the control register without its RUN bit.
HwStopped == "idle"

\* engine_cyclic_stop(): the engine is halted, whatever it is doing.
PerfHalt(a) ==
  /\ ~Broken
  /\ admin[a] = "stop"
  /\ Step(a, IF xdma_perf = "null" THEN "free" ELSE "stats")
  /\ IF transfer_list # <<>> /\ hw = "run"
       THEN hw' = HwStopped /\ ch_irq' = (ch_irq \/ idle_irq)
       ELSE UNCHANGED <<hw, ch_irq>>
  /\ misdirected' = (misdirected \/ Misses)
  /\ UNCHANGED <<aio_vars, transfer_list, running, idle_irq, work, svc, xdma_perf,
                 event_vars, overlapped>>

\* get_perf_stats(), copy_to_user(): a fault returns with xdma_perf set.
PerfStats(a) ==
  /\ ~Broken
  /\ admin[a] = "stats"
  /\ \E l \in {"free", "idle"} : Deref(a, l)
  /\ UNCHANGED <<aio_vars, engine_vars, irq_vars, xdma_perf, event_vars,
                 overlapped, misdirected>>

\* kfree(), without the lock and without waiting for the service routine.
PerfFree(a) ==
  /\ ~Broken
  /\ admin[a] = "free"
  /\ Step(a, IF xdma_perf = "freed" THEN "broken" ELSE "null")
  /\ xdma_perf' = IF xdma_perf = "null" THEN "null" ELSE "freed"
  /\ UNCHANGED <<aio_vars, engine_vars, irq_vars, event_vars, overlapped,
                 misdirected>>

\* A stop that leaves the pointer behind.
PointerLeft == xdma_perf

\* engine->xdma_perf = NULL.
PointerCleared == "null"

PerfNull(a) ==
  /\ ~Broken
  /\ admin[a] = "null"
  /\ Step(a, "idle")
  /\ xdma_perf' = PointerCleared
  /\ UNCHANGED <<aio_vars, engine_vars, irq_vars, event_vars, overlapped,
                 misdirected>>

\* ioctl_do_perf_get(): the test, then the use.
PerfGet(a) == xdma_perf # "null" /\ Step(a, "get") /\ Begin(a)

PerfGetStats(a) ==
  /\ ~Broken
  /\ admin[a] = "get"
  /\ Deref(a, "idle")
  /\ UNCHANGED <<aio_vars, engine_vars, irq_vars, xdma_perf, event_vars,
                 overlapped, misdirected>>

(***************************************************************************)
(* Interrupts: xdma_isr(), user_irq_service(), engine_service().           *)
(***************************************************************************)

\* Events noted without waking anybody.
NotWoken(r) == reader[r]

\* wake_up_interruptible(): a sleeping reader looks again.
Woken(r) == IF reader[r] = "asleep" THEN "wait" ELSE reader[r]

UserIrqService ==
  IF user_irq /\ ~events_irq
    THEN /\ events_irq' = TRUE
         /\ reader' = [r \in Readers |-> Woken(r)]
    ELSE UNCHANGED <<events_irq, reader>>

XdmaIsr ==
  /\ ~Broken
  /\ ch_irq \/ user_irq
  /\ UserIrqService
  /\ user_irq' = FALSE
  /\ ch_irq' = FALSE
  /\ work' = (work \/ ch_irq)
  /\ unseen' = (unseen \/ user_irq)
  /\ UNCHANGED <<aio_vars, engine_vars, svc, perf_vars, overlapped, misdirected>>

\* engine_service() up to engine_service_perf(): the engine is shut down.
ServiceBegin ==
  /\ ~Broken
  /\ work
  /\ Unlocked
  /\ work' = FALSE
  /\ svc' = CASE ~running -> "idle"
              [] running /\ transfer_list = <<>> -> "bug"
              [] OTHER -> "perf"
  /\ running' = (running /\ hw = "run")
  /\ UNCHANGED <<aio_vars, transfer_list, hw, idle_irq, ch_irq, perf_vars,
                 event_vars, overlapped, misdirected>>

\* engine_service_perf(): the test, then the use if the status says that a
\* descriptor was completed or stopped, which after a halt it may or may not.
ServicePerf ==
  /\ ~Broken
  /\ svc = "perf"
  /\ \/ xdma_perf # "null" /\ svc' = "use"
     \/ (xdma_perf = "null" \/ hw = "idle") /\ svc' = "final"
  /\ UNCHANGED <<aio_vars, engine_vars, ch_irq, work, perf_vars, event_vars,
                 overlapped, misdirected>>

ServicePerfUse ==
  /\ ~Broken
  /\ svc = "use"
  /\ svc' = IF xdma_perf = "live" THEN "final" ELSE "broken"
  /\ UNCHANGED <<aio_vars, engine_vars, ch_irq, work, perf_vars, event_vars,
                 overlapped, misdirected>>

\* engine_service_final_transfer() and engine_service_resume().
ServiceFinal ==
  LET x == Head(transfer_list)
      rest == Dequeue
  IN
  /\ ~Broken
  /\ svc = "final"
  /\ svc' = "idle"
  /\ transfer_list' = rest
  /\ completed' = [i \in Iocbs |->
                     completed[i] + (IF i = x.owner /\ Completes(x) THEN 1 ELSE 0)]
  /\ IF ~running /\ MustRestart(rest)
       THEN running' = TRUE /\ hw' = "run" /\ Started
       ELSE UNCHANGED <<running, hw, idle_irq>>
  /\ UNCHANGED <<aio, executed, ch_irq, work, perf_vars, event_vars, overlapped,
                 misdirected>>

(***************************************************************************)
(* The events node: char_events_read().                                    *)
(***************************************************************************)
EventsRead(r) ==
  /\ ~Broken
  /\ reader[r] = "idle"
  /\ reader' = [reader EXCEPT ![r] = "wait"]
  /\ UNCHANGED <<aio_vars, engine_vars, irq_vars, perf_vars, user_irq,
                 events_irq, unseen, overlapped, misdirected>>

\* wait_event_interruptible(): the condition, on the wait queue.
EventsWait(r) ==
  /\ ~Broken
  /\ reader[r] = "wait"
  /\ reader' = [reader EXCEPT ![r] = IF events_irq THEN "take" ELSE "asleep"]
  /\ UNCHANGED <<aio_vars, engine_vars, irq_vars, perf_vars, user_irq,
                 events_irq, unseen, overlapped, misdirected>>

\* -ERESTARTSYS.
EventsSignal(r) ==
  /\ ~Broken
  /\ reader[r] = "asleep"
  /\ reader' = [reader EXCEPT ![r] = "idle"]
  /\ UNCHANGED <<aio_vars, engine_vars, irq_vars, perf_vars, user_irq,
                 events_irq, unseen, overlapped, misdirected>>

\* Under events_lock: events_irq is reported, perhaps as 0, and cleared.
EventsTake(r) ==
  /\ ~Broken
  /\ reader[r] = "take"
  /\ reader' = [reader EXCEPT ![r] = "idle"]
  /\ unseen' = (unseen /\ ~events_irq)
  /\ events_irq' = FALSE
  /\ UNCHANGED <<aio_vars, engine_vars, irq_vars, perf_vars, user_irq, overlapped,
                 misdirected>>

(***************************************************************************)
(* The hardware (external).  The loop of a performance run does not end.   *)
(***************************************************************************)
HwDone ==
  /\ ~Broken
  /\ hw = "run"
  /\ Head(transfer_list).owner # Perf
  /\ hw' = "done"
  /\ ch_irq' = TRUE
  /\ executed' = [executed EXCEPT ![Head(transfer_list).owner] = @ + 1]
  /\ UNCHANGED <<aio, completed, transfer_list, running, idle_irq, work, svc,
                 perf_vars, event_vars, overlapped, misdirected>>

HwUserIrq ==
  /\ ~Broken
  /\ ~user_irq
  /\ user_irq' = TRUE
  /\ UNCHANGED <<aio_vars, engine_vars, irq_vars, perf_vars, events_irq, reader,
                 unseen, overlapped, misdirected>>

(***************************************************************************)
(* Specification.                                                          *)
(***************************************************************************)
Init ==
  /\ aio = [i \in Iocbs |-> Free]
  /\ executed = [i \in Iocbs |-> 0]
  /\ completed = [i \in Iocbs |-> 0]
  /\ transfer_list = <<>>
  /\ running = FALSE
  /\ hw = "idle"
  /\ idle_irq \in BOOLEAN  \* set for a C2H stream
  /\ ch_irq = FALSE
  /\ work = FALSE
  /\ svc = "idle"
  /\ xdma_perf = "null"
  /\ admin = [a \in Admins |-> "idle"]
  /\ user_irq = FALSE
  /\ events_irq = FALSE
  /\ reader = [r \in Readers |-> "idle"]
  /\ unseen = FALSE
  /\ overlapped = FALSE
  /\ misdirected = FALSE

Service == ServiceBegin \/ ServicePerf \/ ServicePerfUse \/ ServiceFinal

AioSubmit(i) == AioQueue(i) \/ AioMisaligned(i)

Halted == Broken /\ UNCHANGED vars

Next ==
  \/ \E i \in Iocbs : AioRequest(i) \/ AioSubmit(i) \/ AioReap(i)
  \/ \E a \in Admins :
       \/ PerfStart(a) \/ PerfAlloc(a) \/ PerfSubmit(a) \/ PerfStop(a)
       \/ PerfHalt(a) \/ PerfStats(a) \/ PerfFree(a) \/ PerfNull(a)
       \/ PerfGet(a) \/ PerfGetStats(a)
  \/ \E r \in Readers :
       EventsRead(r) \/ EventsWait(r) \/ EventsSignal(r) \/ EventsTake(r)
  \/ XdmaIsr \/ Service \/ HwDone \/ HwUserIrq \/ Halted

Spec == Init /\ [][Next]_vars

\* Interrupts are delivered, scheduled work runs, the hardware finishes what
\* is not a loop, and a thread inside the driver goes on.
FairSpec ==
  /\ Spec
  /\ WF_vars(XdmaIsr) /\ WF_vars(Service) /\ WF_vars(HwDone)
  /\ \A i \in Iocbs : WF_vars(AioSubmit(i))

(***************************************************************************)
(* Properties.                                                             *)
(***************************************************************************)
\* The ranges of the variables; a request executes no more than its transfers
\* and is completed no more than once for each of its segments.
TypeOK ==
  /\ \A i \in Iocbs :
       /\ aio[i].pc \in {"idle", "submit", "queued"}
       /\ aio[i].shape \in Shapes \cup {<<1, 1>>}
       /\ aio[i].seg \in 1 .. aio[i].shape[1]
       /\ aio[i].chunk \in 1 .. aio[i].shape[2]
       /\ executed[i] \in 0 .. aio[i].shape[1] * aio[i].shape[2]
       /\ completed[i] \in 0 .. aio[i].shape[1]
  /\ transfer_list \in Seq([owner : Iocbs \cup {Perf}, last_in_request : BOOLEAN])
  /\ hw \in {"idle", "run", "done"}
  /\ {running, idle_irq, ch_irq, work, user_irq, events_irq, unseen, overlapped,
      misdirected} \subseteq BOOLEAN
  /\ svc \in {"idle", "perf", "use", "final", "broken", "bug"}
  /\ xdma_perf \in {"null", "live", "freed"}
  /\ \A a \in Admins : admin[a] \in {"idle", "alloc", "submit", "stop", "stats",
                                     "free", "null", "get", "broken"}
  /\ \A r \in Readers : reader[r] \in {"idle", "wait", "asleep", "take"}

\* A request of one segment, however many transfers it is cut into, is
\* completed once: not again by a later transfer, and not before all of its
\* transfers have been executed and none of it is left on the list, unless a
\* PERF stop halted one of them.
AioCompletedOnce ==
  \A i \in Iocbs :
    aio[i].shape[1] = 1 =>
      /\ completed[i] <= 1
      /\ completed[i] = 1 => ~Listed(i)
      /\ aio[i].pc = "queued" /\ ~Listed(i) /\ ~Broken => completed[i] = 1
      /\ completed[i] = 1 /\ ~misdirected =>
           executed[i] \in {0, aio[i].shape[2]}

\* Between the PERF ioctls themselves xdma_perf is safe as long as no two are
\* under way at once, whatever fails in them and whatever the engine and the
\* asynchronous requests on it do: none uses or frees it twice, and only the
\* window between kfree() and the reset leaves the pointer to freed memory
\* behind.  And however the ioctls halt and restart the engine, the service
\* routine never finds an engine that runs with an empty list (BUG_ON).
PerfIoctlsSafe ==
  /\ svc # "bug"
  /\ overlapped \/ \A a \in Admins : admin[a] # "broken"
  /\ overlapped \/ (xdma_perf = "freed" => \E a \in Admins : admin[a] = "null")

\* What the comment in engine_service_perf() says ("wake any
\* XDMA_PERF_IOCTL_STOP waiting for the performance run to finish"): a stop
\* waits for the service routine, which therefore writes to a live xdma_perf.
PerfStopWaits == svc = "use" => xdma_perf = "live"

\* An interrupt that no read() has reported is pending, and no reader sleeps
\* while one is: readers that steal each other's events lose none.
EventsNotLost ==
  unseen => events_irq /\ \A r \in Readers : reader[r] # "asleep"

\* Every queued request is completed, or an ioctl interferes: a performance
\* run holds the engine, was left behind on it, or broke the service routine.
AioReturns ==
  \A i \in Iocbs :
    aio[i].pc = "queued" ~>
      completed[i] > 0 \/ xdma_perf # "null" \/ overlapped \/ misdirected \/ Broken
=============================================================================
