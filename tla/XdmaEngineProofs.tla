-------------------------- MODULE XdmaEngineProofs --------------------------
(***************************************************************************)
(* Proofs about XdmaEngine, for any number of threads and transfers.       *)
(* First what holds with every hazard switched on: the types, and that no  *)
(* interrupt is lost.  Then, on hardware that neither fails nor lingers    *)
(* and with every interleaving of the threads' unlocked accesses: which    *)
(* memory may be freed too early, which assertion may fire, that COMPLETED *)
(* means executed, that the engine implements DmaQueue while behaviour is  *)
(* defined, and executes each transfer once and in order.                  *)
(***************************************************************************)
EXTENDS XdmaEngine, TLAPS

(***************************************************************************)
(* The list operations of the driver on sequences.                         *)
(***************************************************************************)

\* list_add_tail: the old entries stay where they are.
LEMMA AppendProps ==
  ASSUME NEW S, NEW s \in Seq(S), NEW x \in S
  PROVE  /\ Append(s, x) \in Seq(S)
         /\ Append(s, x) # <<>>
         /\ Len(Append(s, x)) = Len(s) + 1
         /\ \A i \in 1 .. Len(s) : Append(s, x)[i] = s[i]
         /\ Append(s, x)[Len(s) + 1] = x
         /\ Head(Append(s, x)) = IF s = <<>> THEN x ELSE Head(s)
         /\ Head(Append(s, x)) \in S
  OBVIOUS

\* list_del of the first entry: the others move up by one.
LEMMA TailProps ==
  ASSUME NEW S, NEW s \in Seq(S), s # <<>>
  PROVE  /\ Tail(s) \in Seq(S)
         /\ Len(s) > 0
         /\ Len(Tail(s)) = Len(s) - 1
         /\ \A i \in 1 .. Len(s) - 1 : Tail(s)[i] = s[i + 1]
         /\ Head(s) = s[1]
         /\ Head(s) \in S
         /\ Tail(s) # <<>> => Head(Tail(s)) = s[2] /\ Len(s) > 1
  OBVIOUS

(***************************************************************************)
(* Type correctness.                                                       *)
(***************************************************************************)

\* A thread between creating a transfer and giving it up holds one.
Holds(t) == pc[t] \in {"queue", "wait", "asleep", "taken", "store"}

\* What the types rest on: a thread in a request has something left to do,
\* and the transfer being taken off the list is on it.
TypeInv ==
  /\ TypeOK
  /\ \A t \in Threads : Holds(t) => transfer[t] \in Transfers
  /\ \A t \in Threads : pc[t] # "idle" => remaining[t] > 0
  /\ svc = "unlink" => transfer_list # <<>>

\* Init establishes the types.
LEMMA InitType == Init => TypeInv
  <1> SUFFICES ASSUME Init PROVE TypeInv
    OBVIOUS
  <1> USE DEF Init
  <1>1. 0 \in 0 .. MaxChunks /\ 0 \in 0 .. MaxDesc /\ 1 \in 1 .. MaxDesc
    BY BoundsAssumption
  <1>2. remaining \in [Threads -> 0 .. MaxChunks]
    BY <1>1
  <1>3. desc_num \in [Transfers -> 1 .. MaxDesc]
    BY <1>1
  <1>4. transfer_list \in Seq(Transfers)
    OBVIOUS
  <1>5. desc_count \in Nat /\ desc_dequeued \in Nat /\ hw_count \in 0 .. MaxDesc
    BY <1>1
  <1>6. /\ pc \in [Threads -> {"idle"}]
        /\ transfer \in [Threads -> Transfers \cup {None}]
        /\ value \in [Threads -> SUBSET (StatusBits \cup {"BUSY"})]
        /\ state \in [Transfers -> {"NEW", "SUBMITTED", "COMPLETED", "FAILED"}]
    OBVIOUS
  <1>7. \A t \in Threads : ~Holds(t) /\ pc[t] = "idle"
    BY DEF Holds
  <1>8. pc \in [Threads -> {"idle", "create", "queue", "wait", "asleep", "taken",
                           "store"}]
    BY <1>6
  <1>9. QED
    BY <1>2, <1>3, <1>4, <1>5, <1>6, <1>7, <1>8 DEF TypeInv, TypeOK

\* Every step of a thread keeps the types.
LEMMA ThreadType ==
  ASSUME TypeInv, NEW t \in Threads,
         Request(t) \/ ThreadStep(t) \/ Interrupt(t)
  PROVE  TypeInv'
  <1>h. /\ Holds(t) => transfer[t] \in Transfers
        /\ pc[t] # "idle" => remaining[t] > 0
    BY DEF TypeInv
  <1> USE BoundsAssumption, NoneAssumption
      DEF TypeInv, TypeOK, Holds, StatusBits, heap_vars, engine_vars,
          svc_vars, run_vars, irq_vars, Finish
  <1>1. CASE Request(t)
    BY <1>1 DEF Request
  <1>2. CASE TransferCreate(t)
    BY <1>2 DEF TransferCreate
  <1>3. CASE TransferCreateFails(t)
    BY <1>3 DEF TransferCreateFails
  <1>4. CASE TransferQueue(t)
    <2>1. transfer[t] \in Transfers
      BY ONLY <1>4, <1>h DEF TransferQueue, Holds
    <2>2. transfer_list' = Append(transfer_list, transfer[t])
      BY ONLY <1>4 DEF TransferQueue, Enqueue
    <2>3. /\ transfer_list' \in Seq(Transfers)
          /\ transfer_list' # <<>>
          /\ Head(transfer_list') \in Transfers
      <3>1. transfer_list \in Seq(Transfers)
        OBVIOUS
      <3>2. QED
        BY ONLY <2>1, <2>2, <3>1, AppendProps
    <2>4. /\ running' \in BOOLEAN /\ hw_run' \in BOOLEAN
          /\ desc_dequeued' \in Nat /\ hw_count' \in 0 .. MaxDesc
          /\ hw' \in {"idle", "run", "halting"}
          /\ hw_transfer' \in Transfers \cup {None}
      <3>1. CASE running
        BY <1>4, <3>1 DEF TransferQueue
      <3>2. CASE ~running
        <4>1. EngineStart(Head(transfer_list'))
          BY ONLY <1>4, <3>2 DEF TransferQueue
        <4>2. /\ running' = TRUE /\ hw_run' = TRUE /\ desc_dequeued' = 0
              /\ hw' = hw \/ hw' = "run"
              /\ hw_transfer' \in {hw_transfer, Head(transfer_list')}
              /\ hw_count' = hw_count \/ hw_count' = 0
          BY ONLY <4>1 DEF EngineStart
        <4>3. QED
          BY <2>3, <4>2
      <3>3. QED
        BY <3>1, <3>2
    <2>5. state' \in [Transfers -> {"NEW", "SUBMITTED", "COMPLETED", "FAILED"}]
      BY <1>4, <2>1 DEF TransferQueue
    <2>6. /\ pc' = [pc EXCEPT ![t] = "wait"]
          /\ UNCHANGED <<remaining, transfer, value, live, desc_num, status,
                         svc_vars, irq_vars, executed, lost_status>>
      BY ONLY <1>4 DEF TransferQueue
    <2>7. pc[t] = "queue"
      BY ONLY <1>4 DEF TransferQueue
    <2>8. QED
      BY <2>3, <2>4, <2>5, <2>6, <2>7
  <1>5. CASE TransferMonitor(t)
    <2>1. \/ pc' = [pc EXCEPT ![t] = "taken"]
          \/ pc' = [pc EXCEPT ![t] = "asleep"]
      BY <1>5 DEF TransferMonitor
    <2>2. QED
      BY <1>5, <2>1 DEF TransferMonitor
  <1>6. CASE TransferDestroy(t)
    <2>1. remaining[t] \in Nat /\ remaining[t] > 0 /\ remaining[t] <= MaxChunks
      BY <1>6, <1>h DEF TransferDestroy
    <2>2. \E p \in {"idle", "create"}, r \in 0 .. MaxChunks :
            /\ p = "create" => r > 0
            /\ pc' = [pc EXCEPT ![t] = p]
            /\ remaining' = [remaining EXCEPT ![t] = r]
            /\ transfer' = [transfer EXCEPT ![t] = None]
      <3>1. CASE state[transfer[t]] # "COMPLETED" \/ remaining[t] = 1
        BY ONLY <1>6, <3>1, <2>1, BoundsAssumption
        DEF TransferDestroy, LastChunk, Finish
      <3>2. CASE ~(state[transfer[t]] # "COMPLETED" \/ remaining[t] = 1)
        <4>1. remaining[t] - 1 \in 0 .. MaxChunks /\ remaining[t] - 1 > 0
          BY ONLY <3>2, <2>1, BoundsAssumption
        <4>2. QED
          BY ONLY <1>6, <3>2, <4>1 DEF TransferDestroy, LastChunk
      <3>3. QED
        BY <3>1, <3>2
    <2>3. live' \in SUBSET Transfers
      BY <1>6 DEF TransferDestroy
    <2>4. QED
      BY <1>6, <2>2, <2>3 DEF TransferDestroy
  <1>7. CASE StatusRead(t)
    BY <1>7 DEF StatusRead, StatusRegister
  <1>8. CASE StatusStore(t)
    BY <1>8 DEF StatusStore
  <1>9. CASE Interrupt(t)
    BY <1>9 DEF Interrupt
  <1>10. QED
    BY <1>1, <1>2, <1>3, <1>4, <1>5, <1>6, <1>7, <1>8, <1>9 DEF ThreadStep

\* The interrupt handlers and the service routine keep the types.
LEMMA ServiceType ==
  ASSUME TypeInv, Irq \/ Service
  PROVE  TypeInv'
  <1> USE BoundsAssumption, NoneAssumption
      DEF TypeInv, TypeOK, Holds, StatusBits, thread_vars, heap_vars,
          engine_vars, svc_vars, run_vars, irq_vars
  <1>a. Defined => Referenced \subseteq Transfers
    BY DEF Defined
  <1>h. transfer_list # <<>> => /\ Head(transfer_list) \in Transfers
                                /\ Tail(transfer_list) \in Seq(Transfers)
    OBVIOUS
  <1>n. \A x \in Transfers : desc_num[x] \in Nat /\ desc_num[x] > 0
    OBVIOUS
  <1>1. CASE XdmaIsr
    <2>1. int_enable' \in BOOLEAN /\ work' \in BOOLEAN /\ msi' \in BOOLEAN
      BY <1>1 DEF XdmaIsr, IrqLevel
    <2>2. QED
      BY <1>1, <2>1 DEF XdmaIsr
  <1>2. CASE XdmaChannelIrq
    <2>1. /\ int_enable' \in BOOLEAN /\ work' \in BOOLEAN /\ msi' \in BOOLEAN
          /\ saved_mask' \in BOOLEAN
      BY <1>2 DEF XdmaChannelIrq
    <2>2. UNCHANGED <<thread_vars, heap_vars, engine_vars, svc, svc_transfer,
                      desc_count, run_vars, hw_status, executed, lost_status>>
      BY <1>2 DEF XdmaChannelIrq
    <2>3. QED
      BY <2>1, <2>2
  <1>3. CASE WorkBegin
    BY <1>3 DEF WorkBegin
  <1>4. CASE ServiceStatus
    <2>1. status' \in SUBSET (StatusBits \cup {"BUSY"})
      BY <1>4 DEF ServiceStatus, StatusRegister
    <2>2. QED
      BY <1>4, <2>1 DEF ServiceStatus
  <1>5. CASE ServiceCount
    <2>1. hw_count - desc_dequeued \in Int
      OBVIOUS
    <2>2. desc_count' \in Nat
      BY <1>5, <2>1 DEF ServiceCount, Undequeued
    <2>3. running' \in BOOLEAN /\ hw_run' \in BOOLEAN
          /\ hw' \in {"idle", "run", "halting"}
      <3>1. CASE "BUSY" \in status
        BY <1>5, <3>1 DEF ServiceCount
      <3>2. CASE "BUSY" \notin status
        BY <1>5, <3>2 DEF ServiceCount, EngineShutdown, EngineStop
      <3>3. QED
        BY <3>1, <3>2
    <2>4. QED
      BY <1>5, <2>2, <2>3 DEF ServiceCount
  <1>6. CASE ServicePassOver
    <2> DEFINE x == Head(transfer_list)
    <2>1. x \in Transfers /\ desc_num[x] \in Nat
      BY <1>6, <1>h, <1>n DEF ServicePassOver
    <2>2. desc_count' \in Nat /\ desc_dequeued' \in Nat
      BY <1>6, <2>1 DEF ServicePassOver
    <2>3. state' \in [Transfers -> {"NEW", "SUBMITTED", "COMPLETED", "FAILED"}]
      BY <1>6, <2>1 DEF ServicePassOver
    <2>4. transfer_list' \in Seq(Transfers)
      BY <1>6, <1>h DEF ServicePassOver, Dequeue
    <2>5. QED
      BY <1>6, <2>1, <2>2, <2>3, <2>4 DEF ServicePassOver
  <1>7. CASE ServiceErr
    BY <1>7, <1>h DEF ServiceErr, EngineStop
  <1>8. CASE ServiceFinal
    <2> DEFINE x == Head(transfer_list)
    <2>1. x \in Transfers
      BY <1>8, <1>h DEF ServiceFinal
    <2>2. Verdict(x) \in {"FAILED", "COMPLETED"}
      BY DEF Verdict
    <2>3. state' \in [Transfers -> {"NEW", "SUBMITTED", "COMPLETED", "FAILED"}]
      BY <1>8, <2>1, <2>2 DEF ServiceFinal
    <2>4. QED
      BY <1>8, <2>1, <2>3 DEF ServiceFinal
  <1>9. CASE ServiceUnlink
    <2>1. svc_transfer \in Transfers
      BY <1>9, <1>a DEF ServiceUnlink, Referenced, Completing
    <2>2. desc_dequeued' \in Nat
      BY <1>9, <2>1, <1>n DEF ServiceUnlink
    <2>3. transfer_list' \in Seq(Transfers)
      BY <1>9 DEF ServiceUnlink, Dequeue
    <2>4. QED
      BY <1>9, <2>2, <2>3 DEF ServiceUnlink
  <1>10. CASE ServiceWake
    <2>1. pc' = WakeUp(svc_transfer)
      BY <1>10 DEF ServiceWake
    <2>2. \A t \in Threads : pc'[t] = pc[t] \/ (pc[t] = "asleep" /\ pc'[t] = "wait")
      BY <2>1 DEF WakeUp
    <2>3. pc' \in [Threads -> {"idle", "create", "queue", "wait", "asleep",
                               "taken", "store"}]
      BY <2>1 DEF WakeUp
    <2>4. QED
      BY <1>10, <2>2, <2>3 DEF ServiceWake
  <1>11. CASE ServiceResume
    <2>1. /\ running' \in BOOLEAN /\ hw_run' \in BOOLEAN
          /\ desc_dequeued' \in Nat /\ hw_count' \in 0 .. MaxDesc
          /\ hw' \in {"idle", "run", "halting"}
          /\ hw_transfer' \in Transfers \cup {None}
      <3>1. CASE MustRestart
        BY <1>11, <3>1, <1>h DEF ServiceResume, MustRestart, EngineStart
      <3>2. CASE ~MustRestart
        BY <1>11, <3>2 DEF ServiceResume
      <3>3. QED
        BY <3>1, <3>2
    <2>2. QED
      BY <1>11, <2>1 DEF ServiceResume
  <1>12. CASE ServiceUnmask
    <2>1. int_enable' \in BOOLEAN /\ msi' \in BOOLEAN
      BY <1>12 DEF ServiceUnmask, Unmasked, RaiseIrq, IrqLevel
    <2>2. QED
      BY <1>12, <2>1 DEF ServiceUnmask
  <1>13. QED
    BY <1>1, <1>2, <1>3, <1>4, <1>5, <1>6, <1>7, <1>8, <1>9, <1>10, <1>11,
       <1>12 DEF Irq, Service

\* The hardware keeps the types: it counts no further than the descriptors of
\* the transfer it was given.
LEMMA HwType ==
  ASSUME TypeInv, HwStep \/ HwError
  PROVE  TypeInv'
  <1> USE BoundsAssumption, NoneAssumption
      DEF TypeInv, TypeOK, Holds, StatusBits, thread_vars, heap_vars,
          engine_vars, svc_vars, irq_vars
  <1>a. Defined /\ hw = "run" => hw_transfer \in Transfers
    BY DEF Defined, Referenced
  <1>1. CASE HwDescriptor
    BY <1>1, <1>a DEF HwDescriptor
  <1>2. CASE HwLastDescriptor
    <2>1. msi' \in BOOLEAN
      BY <1>2 DEF HwLastDescriptor, RaiseIrq, IrqLevel
    <2>2. hw_transfer \in Transfers /\ hw_count' \in 0 .. MaxDesc
      BY <1>2, <1>a DEF HwLastDescriptor
    <2>3. hw' \in {"idle", "run", "halting"} /\ hw_status' \in SUBSET StatusBits
      BY <1>2 DEF HwLastDescriptor
    <2>4. executed' \in SUBSET Transfers
      BY <1>2, <2>2 DEF HwLastDescriptor
    <2>5. UNCHANGED <<thread_vars, heap_vars, engine_vars, svc_vars, hw_run,
                      hw_transfer, int_enable, saved_mask, lost_status>>
      BY <1>2 DEF HwLastDescriptor
    <2>6. QED
      BY <2>1, <2>2, <2>3, <2>4, <2>5
  <1>3. CASE HwIdle
    <2>1. msi' \in BOOLEAN
      BY <1>3 DEF HwIdle, RaiseIrq, IrqLevel
    <2>2. QED
      BY <1>3, <2>1 DEF HwIdle
  <1>4. CASE HwError
    <2>1. msi' \in BOOLEAN
      BY <1>4 DEF HwError, RaiseIrq, IrqLevel
    <2>2. QED
      BY <1>4, <2>1 DEF HwError
  <1>5. QED
    BY <1>1, <1>2, <1>3, <1>4 DEF HwStep

\* The types are preserved by every step.
LEMMA StepType == TypeInv /\ [Next]_vars => TypeInv'
  <1> SUFFICES ASSUME TypeInv, [Next]_vars PROVE TypeInv'
    OBVIOUS
  <1>1. CASE \E t \in Threads : Request(t) \/ ThreadStep(t) \/ Interrupt(t)
    BY <1>1, ThreadType
  <1>2. CASE Irq \/ Service
    BY <1>2, ServiceType
  <1>3. CASE HwStep \/ HwError
    BY <1>3, HwType
  <1>4. CASE UNCHANGED vars
    BY <1>4 DEF TypeInv, TypeOK, Holds, vars, thread_vars, heap_vars,
                engine_vars, svc_vars, run_vars, irq_vars
  <1>5. QED
    BY <1>1, <1>2, <1>3, <1>4 DEF Next

\* The driver and its hardware never leave the types of their variables,
\* whatever hazards are switched on.
THEOREM TypeCorrect == Spec => []TypeOK
  <1>1. Spec => []TypeInv
    BY InitType, StepType, PTL DEF Spec
  <1>2. TypeInv => TypeOK
    BY DEF TypeInv
  <1>3. QED
    BY <1>1, <1>2, PTL

(***************************************************************************)
(* No interrupt is lost, whatever the hardware does.                       *)
(***************************************************************************)

\* The interrupt is disabled exactly from the ISR to the end of the work, so
\* the work is not scheduled again while it runs; the
\* saved mask can enable it again, and it is raised exactly for latched events.
IrqInv ==
  /\ int_enable = (svc = "idle" /\ ~work)
  /\ work => svc = "idle"
  /\ Msix /\ ~int_enable => saved_mask
  /\ msi = (int_enable /\ hw_status # {})

\* Init enables the interrupt with nothing latched.
LEMMA InitIrq == Init => IrqInv
  BY DEF Init, IrqInv

\* A step of a thread touches neither the mask nor the latched events.
LEMMA ThreadIrq ==
  ASSUME IrqInv, NEW t \in Threads,
         Request(t) \/ ThreadStep(t) \/ Interrupt(t)
  PROVE  IrqInv'
  <1>1. UNCHANGED <<irq_vars, work, svc>>
    BY DEF ThreadStep, Request, TransferCreate, TransferCreateFails,
           TransferQueue, TransferMonitor, TransferDestroy, StatusRead,
           StatusStore, Interrupt, svc_vars
  <1>2. QED
    BY <1>1 DEF IrqInv, irq_vars

\* The handlers hand the latched events to the work, and the work enables the
\* interrupt again as its last step.
LEMMA ServiceIrq ==
  ASSUME TypeInv, IrqInv, Irq \/ Service
  PROVE  IrqInv'
  <1> USE DEF IrqInv
  <1>t. /\ int_enable \in BOOLEAN /\ work \in BOOLEAN /\ msi \in BOOLEAN
        /\ saved_mask \in BOOLEAN
    BY DEF TypeInv, TypeOK
  <1>1. CASE XdmaIsr
    BY <1>1, <1>t DEF XdmaIsr, IrqLevel
  <1>2. CASE XdmaChannelIrq
    BY <1>2, <1>t DEF XdmaChannelIrq
  <1>3. CASE WorkBegin
    BY <1>3, <1>t DEF WorkBegin, irq_vars
  <1>4. CASE ServiceStatus
    BY <1>4, <1>t DEF ServiceStatus
  <1>5. CASE ServiceUnmask
    <2>1. ~int_enable /\ ~msi
      BY <1>5, <1>t DEF ServiceUnmask
    <2>2. int_enable'
      BY <1>5, <2>1, <1>t, SwitchAssumption DEF ServiceUnmask, Unmasked
    <2>3. UNCHANGED <<hw_status, work, saved_mask>> /\ svc' = "idle"
      BY <1>5 DEF ServiceUnmask
    <2>4. msi' = (hw_status # {})
      BY <1>5, <2>1, <2>2, <2>3, <1>t DEF ServiceUnmask, RaiseIrq, IrqLevel
    <2>5. ~work
      BY <1>5, <1>t DEF ServiceUnmask
    <2>6. QED
      BY <2>2, <2>3, <2>4, <2>5
  <1>6. CASE \/ ServiceCount \/ ServicePassOver \/ ServiceErr \/ ServiceFinal
             \/ ServiceUnlink \/ ServiceWake \/ ServiceResume
    BY <1>6, <1>t DEF ServiceCount, ServicePassOver, ServiceErr, ServiceFinal,
                      ServiceUnlink, ServiceWake, ServiceResume, irq_vars
  <1>7. QED
    BY <1>1, <1>2, <1>3, <1>4, <1>5, <1>6 DEF Irq, Service

\* An event latched by the hardware raises the interrupt if it is enabled.
LEMMA HwIrq ==
  ASSUME TypeInv, IrqInv, HwStep \/ HwError
  PROVE  IrqInv'
  <1> USE DEF IrqInv
  <1>t. int_enable \in BOOLEAN /\ work \in BOOLEAN /\ msi \in BOOLEAN
    BY DEF TypeInv, TypeOK
  <1>1. CASE HwDescriptor
    BY <1>1 DEF HwDescriptor, irq_vars, svc_vars
  <1>2. CASE HwLastDescriptor \/ HwIdle \/ HwError
    <2>1. /\ UNCHANGED <<int_enable, saved_mask, work, svc>>
          /\ hw_status' # {}
          /\ RaiseIrq
      BY <1>2 DEF HwLastDescriptor, HwIdle, HwError, svc_vars
    <2>2. QED
      BY <2>1, <1>t DEF RaiseIrq, IrqLevel
  <1>3. QED
    BY <1>1, <1>2 DEF HwStep

\* IrqInv is preserved by every step.
LEMMA StepIrq == TypeInv /\ IrqInv /\ [Next]_vars => IrqInv'
  <1> SUFFICES ASSUME TypeInv, IrqInv, [Next]_vars PROVE IrqInv'
    OBVIOUS
  <1>1. CASE \E t \in Threads : Request(t) \/ ThreadStep(t) \/ Interrupt(t)
    BY <1>1, ThreadIrq
  <1>2. CASE Irq \/ Service
    BY <1>2, ServiceIrq
  <1>3. CASE HwStep \/ HwError
    BY <1>3, HwIrq
  <1>4. CASE UNCHANGED vars
    BY <1>4 DEF IrqInv, vars, irq_vars, svc_vars
  <1>5. QED
    BY <1>1, <1>2, <1>3, <1>4 DEF Next

\* Types and interrupt bookkeeping together are an invariant of Spec.
LEMMA TypeIrqInv == Spec => [](TypeInv /\ IrqInv)
  BY InitType, StepType, InitIrq, StepIrq, PTL DEF Spec

\* In MSI and in MSI-X mode alike, and with every hazard switched on, no event
\* of the hardware is left latched without an interrupt or a service to come.
THEOREM NoLostInterrupt == Spec => []IrqNotLost
  <1>1. TypeInv /\ IrqInv => IrqNotLost
    BY DEF TypeInv, TypeOK, IrqInv, IrqNotLost
  <1>2. QED
    BY <1>1, TypeIrqInv, PTL

(***************************************************************************)
(* Hardware that neither fails nor lingers.  The threads' unlocked accesses *)
(* may fall anywhere in the service routine.  A transfer freed under it is *)
(* the one it is completing, and nothing is defined after that; a status   *)
(* replaced under it can stall the engine, and does nothing else.          *)
(***************************************************************************)

QuietHardware == ~LateIdle /\ ~HwErrors

\* Threads hold different, allocated transfers, new until they are queued.
Ownership ==
  /\ \A t \in Threads : Holds(t) => transfer[t] \in live
  /\ \A t, u \in Threads :
       Holds(t) /\ Holds(u) /\ transfer[t] = transfer[u] => t = u
  /\ \A t \in Threads :
       pc[t] = "queue" => /\ state[transfer[t]] = "NEW"
                          /\ transfer[t] \notin executed

\* The list holds each of its transfers once; all are allocated and submitted,
\* and only the first may be executed, or, just before it is unlinked, marked
\* and freed by its waiter.
ListInv ==
  /\ \A i, j \in 1 .. Len(transfer_list) :
       transfer_list[i] = transfer_list[j] => i = j
  /\ \A i \in 1 .. Len(transfer_list) :
       /\ \/ svc = "unlink" /\ i = 1
          \/ transfer_list[i] \in live /\ state[transfer_list[i]] = "SUBMITTED"
       /\ i > 1 => transfer_list[i] \notin executed

\* COMPLETED is never claimed for nothing, and FAILED is never claimed.
HeapInv ==
  \A x \in live : /\ state[x] # "FAILED"
                  /\ state[x] = "COMPLETED" => x \in executed

\* The engine stopped, with RUN de-asserted and no event latched.
Stopped == ~running /\ ~hw_run /\ hw = "idle" /\ hw_status = {}

\* The engine done and never shut down: its completion was serviced with the
\* BUSY bit of a status that an interrupted waiter had read before.
Stalled ==
  lost_status /\ running /\ hw_run /\ hw = "idle" /\ hw_status = {}

\* Nothing left on the list has been executed.
AllPending ==
  \A i \in 1 .. Len(transfer_list) : transfer_list[i] \notin executed

\* The engine was started on the first transfer of the list.
Started ==
  /\ transfer_list # <<>>
  /\ running
  /\ hw_run
  /\ hw_transfer = transfer_list[1]
  /\ desc_dequeued = 0

Executing ==
  /\ Started
  /\ hw = "run"
  /\ hw_status = {}
  /\ hw_count < desc_num[transfer_list[1]]
  /\ transfer_list[1] \notin executed

\* All its descriptors are done.
Done ==
  /\ Started
  /\ hw = "idle"
  /\ hw_count = desc_num[transfer_list[1]]
  /\ transfer_list[1] \in executed

Finished == Done /\ hw_status # {}

\* The first transfer under way or finished, nothing queued, or stalled.
Steady ==
  \/ Executing
  \/ Finished
  \/ Stopped /\ transfer_list = <<>>
  \/ Stalled /\ AllPending

\* How far the service routine has come determines the engine's state.
EngineInv ==
  /\ svc \in {"idle", "unmask"} => Steady
  /\ work => svc = "idle" /\ Finished
  /\ svc = "status" => Finished
  /\ svc = "count" => /\ Done
                      /\ hw_status = {}
                      /\ "BUSY" \in status => lost_status
                      /\ "ERROR" \notin status
  /\ svc \in {"list", "unlink"} =>
       /\ transfer_list # <<>>
       /\ Stopped \/ Stalled
       /\ desc_count = desc_num[transfer_list[1]]
       /\ "ERROR" \notin status
       /\ transfer_list[1] \in executed
  /\ svc = "unlink" => /\ svc_transfer = transfer_list[1]
                       /\ state[svc_transfer] = "COMPLETED"
  /\ svc = "wake" => \A i \in 1 .. Len(transfer_list) :
                       transfer_list[i] # svc_transfer
  /\ svc \in {"wake", "resume"} => (Stopped \/ Stalled) /\ AllPending
  /\ svc # "wake_list"

\* No error is in the status register, nor in what a thread read from it.
NoErrorRead ==
  "ERROR" \notin hw_status /\ \A t \in Threads : "ERROR" \notin value[t]

SafeInv == Ownership /\ ListInv /\ HeapInv /\ EngineInv

IInv == TypeInv /\ IrqInv /\ NoErrorRead /\ SafeInv

\* Quiet hardware reports no error to anybody.
LEMMA InitNoError == Init => NoErrorRead
  BY DEF Init, NoErrorRead

LEMMA StepNoError ==
  ASSUME QuietHardware, TypeInv, NoErrorRead, [Next]_vars
  PROVE  NoErrorRead'
  <1> USE DEF NoErrorRead
  <1>t. value \in [Threads -> SUBSET (StatusBits \cup {"BUSY"})]
    BY DEF TypeInv, TypeOK
  <1>1. ASSUME NEW t \in Threads, StatusRead(t) \/ StatusStore(t)
        PROVE  NoErrorRead'
    <2>1. hw_status' = hw_status
      BY <1>1 DEF StatusRead, StatusStore, irq_vars
    <2>2. "ERROR" \notin value'[t] /\ \A u \in Threads : u # t => value'[u] = value[u]
      BY <1>1, <1>t DEF StatusRead, StatusStore, StatusRegister
    <2>3. QED
      BY <2>1, <2>2
  <1>2. ASSUME NEW t \in Threads,
               \/ Request(t) \/ TransferCreate(t) \/ TransferCreateFails(t)
               \/ TransferQueue(t) \/ TransferMonitor(t) \/ Interrupt(t)
               \/ TransferDestroy(t)
        PROVE  NoErrorRead'
    BY <1>2 DEF Request, TransferCreate, TransferCreateFails, TransferQueue,
                TransferMonitor, Interrupt, TransferDestroy, irq_vars
  <1>3. CASE Irq
    BY <1>3 DEF Irq, XdmaIsr, XdmaChannelIrq, thread_vars
  <1>4. CASE Service
    BY <1>4 DEF Service, WorkBegin, ServiceStatus, ServiceCount,
                ServicePassOver, ServiceErr, ServiceFinal, ServiceUnlink,
                ServiceWake, ServiceResume, ServiceUnmask, thread_vars, irq_vars
  <1>5. CASE HwStep \/ HwError
    BY <1>5 DEF HwStep, HwDescriptor, HwLastDescriptor, HwIdle, HwError,
                QuietHardware, thread_vars, irq_vars
  <1>6. CASE UNCHANGED vars
    BY <1>6 DEF vars, thread_vars, irq_vars
  <1>7. QED
    BY <1>1, <1>2, <1>3, <1>4, <1>5, <1>6 DEF Next, ThreadStep

\* The list is empty and the engine stopped at first.
LEMMA InitSafe == Init => SafeInv
  BY DEF Init, SafeInv, Ownership, ListInv, HeapInv, EngineInv, Steady,
         Stopped, Holds

\* The variables of the engine, of the heap and of the service routine.
core_vars == <<heap_vars, transfer_list, running, desc_dequeued, svc_vars,
               run_vars, hw_status, executed>>

\* What leaves them alone leaves the three invariants on them alone.
LEMMA CoreFrame ==
  ASSUME ListInv, HeapInv, EngineInv,
         UNCHANGED <<core_vars, status, lost_status>>
  PROVE  ListInv' /\ HeapInv' /\ EngineInv'
  <1>1. UNCHANGED <<Started, Stopped, Stalled, AllPending, Executing, Done>>
    BY DEF Started, Stopped, Stalled, AllPending, Executing, Done, core_vars,
           heap_vars, run_vars
  <1>2. ListInv' /\ HeapInv'
    BY DEF ListInv, HeapInv, core_vars, heap_vars, svc_vars
  <1>3. EngineInv'
    BY <1>1 DEF EngineInv, Steady, Finished, core_vars, heap_vars, svc_vars
  <1>4. QED
    BY <1>2, <1>3

\* Steps of a thread that only move its own program counter.
LEMMA ThreadLocalSafe ==
  ASSUME IInv, NEW t \in Threads,
         \/ Request(t) \/ TransferCreateFails(t) \/ TransferMonitor(t)
         \/ Interrupt(t) \/ StatusRead(t)
  PROVE  SafeInv'
  <1> USE DEF IInv, SafeInv
  <1>1. UNCHANGED <<core_vars, status, lost_status>>
    BY DEF Request, TransferCreateFails, TransferMonitor, Interrupt,
           StatusRead, core_vars, engine_vars, irq_vars
  <1>2. /\ \A u \in Threads : Holds(u)' => Holds(u) /\ transfer'[u] = transfer[u]
        /\ \A u \in Threads : pc'[u] = "queue" => pc[u] = "queue"
    <2>1. pc \in [Threads -> {"idle", "create", "queue", "wait", "asleep",
                              "taken", "store"}]
          /\ transfer \in [Threads -> Transfers \cup {None}]
      BY DEF TypeInv, TypeOK
    <2>2. QED
      BY <2>1 DEF Request, TransferCreateFails, TransferMonitor, Interrupt,
                  StatusRead, Holds, Finish
  <1>3. Ownership'
    BY <1>1, <1>2 DEF Ownership, Holds, core_vars, heap_vars
  <1>4. QED
    BY <1>1, <1>3, CoreFrame

\* transfer_create() takes a slot nothing refers to.
LEMMA CreateSafe ==
  ASSUME IInv, NEW t \in Threads, TransferCreate(t)
  PROVE  SafeInv'
  <1> USE DEF IInv, SafeInv
  <1>t. TypeOK
    BY DEF TypeInv
  <1>1. PICK x \in Transfers \ live, n \in 1 .. MaxDesc :
          /\ live' = live \cup {x}
          /\ state' = [state EXCEPT ![x] = "NEW"]
          /\ desc_num' = [desc_num EXCEPT ![x] = n]
          /\ transfer' = [transfer EXCEPT ![t] = x]
          /\ executed' = executed \ {x}
    BY DEF TransferCreate
  <1>2. /\ pc[t] = "create"
        /\ pc' = [pc EXCEPT ![t] = "queue"]
        /\ UNCHANGED <<transfer_list, running, desc_dequeued, status, svc_vars,
                       run_vars, hw_status, lost_status>>
        /\ Listed \subseteq live
    BY DEF TransferCreate, Defined, Referenced, engine_vars, irq_vars
  <1>3. /\ pc' \in [Threads -> {"idle", "create", "queue", "wait", "asleep",
                                "taken", "store"}]
        /\ \A u \in Threads : u # t => pc'[u] = pc[u] /\ transfer'[u] = transfer[u]
        /\ pc'[t] = "queue" /\ transfer'[t] = x
        /\ state'[x] = "NEW" /\ x \notin executed'
        /\ \A y \in Transfers : y # x => state'[y] = state[y]
        /\ \A y \in Transfers : y # x => desc_num'[y] = desc_num[y]
        /\ \A y : y # x => (y \in executed' <=> y \in executed)
    BY <1>1, <1>2, <1>t DEF TypeOK
  <1>4. Ownership'
    BY <1>1, <1>3, <1>t DEF Ownership, Holds, TypeInv, TypeOK
  <1>5. \A i \in 1 .. Len(transfer_list) :
          transfer_list[i] \in live /\ transfer_list[i] # x
          /\ transfer_list[i] \in Transfers
    BY <1>1, <1>2, <1>t DEF Listed, TypeOK
  <1>6. ListInv'
    BY <1>1, <1>2, <1>3, <1>5 DEF ListInv, svc_vars
  <1>7. HeapInv'
    BY <1>1, <1>3, <1>t DEF HeapInv, TypeOK
  <1>8. EngineInv'
    <2>1. transfer_list # <<>> => 1 \in 1 .. Len(transfer_list)
      BY <1>t DEF TypeOK
    <2>2. /\ Started' = Started /\ Stopped' = Stopped /\ Stalled' = Stalled
          /\ AllPending' = AllPending
      BY <1>2, <1>3, <1>5 DEF Started, Stopped, Stalled, AllPending, run_vars
    <2>3. Executing' = Executing /\ Done' = Done
      BY <1>2, <1>3, <1>5, <2>1, <2>2
         DEF Executing, Done, Started, run_vars
    <2>4. Finished' = Finished /\ Steady' = Steady
      BY <1>2, <2>2, <2>3 DEF Finished, Steady
    <2>5. svc = "unlink" => /\ svc_transfer \in Transfers
                            /\ svc_transfer # x
      BY <1>5, <2>1 DEF EngineInv
    <2>6. QED
      BY <1>1, <1>2, <1>3, <1>5, <2>1, <2>2, <2>3, <2>4, <2>5
         DEF EngineInv, svc_vars
  <1>9. QED
    BY <1>4, <1>6, <1>7, <1>8

\* transfer_queue(): the new entry goes behind the others, and becomes the
\* hardware's when it is the first.
LEMMA QueueSafe ==
  ASSUME IInv, NEW t \in Threads, TransferQueue(t)
  PROVE  SafeInv'
  <1> USE DEF IInv, SafeInv
  <1> DEFINE x == transfer[t]
  <1>t. TypeOK /\ TypeOK'
    BY StepType DEF TypeInv, Next, ThreadStep
  <1>1. /\ svc = "idle" /\ pc[t] = "queue"
        /\ pc' = [pc EXCEPT ![t] = "wait"]
        /\ state' = [state EXCEPT ![x] = "SUBMITTED"]
        /\ transfer_list' = Append(transfer_list, x)
        /\ UNCHANGED <<transfer, live, desc_num, svc_vars, hw_status, executed,
                       lost_status>>
    BY DEF TransferQueue, Locked, Enqueue, irq_vars
  <1>2. /\ x \in Transfers /\ x \in live /\ state[x] = "NEW"
        /\ x \notin executed
    BY <1>1 DEF Holds, TypeInv, Ownership
  <1>3. /\ Len(transfer_list') = Len(transfer_list) + 1
        /\ \A i \in 1 .. Len(transfer_list) : transfer_list'[i] = transfer_list[i]
        /\ transfer_list'[Len(transfer_list) + 1] = x
        /\ transfer_list' # <<>>
        /\ Head(transfer_list') = transfer_list'[1]
        /\ Len(transfer_list) \in Nat
    <2>1. transfer_list \in Seq(Transfers) /\ transfer_list' \in Seq(Transfers)
      BY <1>t DEF TypeOK
    <2>2. QED
      BY ONLY <1>1, <1>2, <2>1, AppendProps
  <1>4. \A i \in 1 .. Len(transfer_list) :
          transfer_list[i] \in Transfers /\ transfer_list[i] # x
    BY <1>1, <1>2, <1>t DEF ListInv, TypeOK
  <1>5. /\ state'[x] = "SUBMITTED"
        /\ \A y \in Transfers : y # x => state'[y] = state[y]
    BY <1>1, <1>2, <1>t DEF TypeOK
  <1>6. Ownership'
    <2>1. \A u \in Threads : u # t => pc'[u] = pc[u]
      BY <1>1, <1>t DEF TypeOK
    <2>2. pc'[t] = "wait"
      BY <1>1, <1>t DEF TypeOK
    <2>3. \A u \in Threads : Holds(u)' <=> Holds(u)
      BY <1>1, <2>1, <2>2 DEF Holds
    <2>4. \A u \in Threads : pc'[u] = "queue" =>
             pc[u] = "queue" /\ transfer[u] \in Transfers /\ transfer[u] # x
      BY <1>1, <2>1, <2>2, <2>3 DEF Holds, TypeInv, Ownership
    <2>5. QED
      BY <1>1, <1>5, <2>3, <2>4 DEF Ownership
  <1>7. ListInv'
    <2>1. \A i \in 1 .. Len(transfer_list') :
            i \in 1 .. Len(transfer_list) \/ i = Len(transfer_list) + 1
      BY <1>3
    <2>2. \A i \in 1 .. Len(transfer_list) :
            state'[transfer_list[i]] = "SUBMITTED"
      BY <1>1, <1>4, <1>5 DEF ListInv
    <2>3. QED
      BY <1>1, <1>2, <1>3, <1>4, <1>5, <2>1, <2>2 DEF ListInv, svc_vars
  <1>8. HeapInv'
    BY <1>1, <1>2, <1>5, <1>t DEF HeapInv, TypeOK
  <1>9. EngineInv'
    <2>1. Steady /\ svc' = "idle" /\ work' = work
      BY <1>1 DEF EngineInv, svc_vars
    <2>2. CASE running
      <3>1. UNCHANGED <<running, desc_dequeued, run_vars>>
        BY <2>2 DEF TransferQueue
      <3>2. Started => transfer_list # <<>> /\ transfer_list'[1] = transfer_list[1]
        BY <1>3, <1>t DEF Started, TypeOK
      <3>3. /\ Executing => Executing'
            /\ Finished => Finished'
            /\ Stalled => Stalled'
        BY <1>1, <1>3, <3>1, <3>2
           DEF Started, Executing, Done, Finished, Stalled, run_vars
      <3>4. AllPending => AllPending'
        <4>1. \A i \in 1 .. Len(transfer_list') :
                i \in 1 .. Len(transfer_list) \/ i = Len(transfer_list) + 1
          BY <1>3
        <4>2. QED
          BY <1>1, <1>2, <1>3, <4>1 DEF AllPending
      <3>5. QED
        BY <2>1, <2>2, <3>3, <3>4 DEF EngineInv, Steady, Stopped
    <2>3. CASE ~running
      <3>1. Stopped /\ transfer_list = <<>>
        BY <2>1, <2>3 DEF Steady, Executing, Finished, Done, Started, Stalled
      <3>2. EngineStart(Head(transfer_list'))
        BY <2>3 DEF TransferQueue
      <3>3. transfer_list'[1] = x
        BY <3>1, <1>3
      <3>4. 0 < desc_num'[x]
        BY <1>2, <1>t DEF TypeOK
      <3>5. Executing'
        BY <1>1, <1>2, <1>3, <3>1, <3>2, <3>3, <3>4
           DEF Executing, Started, Stopped, EngineStart
      <3>6. ~work
        BY <3>1 DEF EngineInv, Finished, Done, Started
      <3>7. QED
        BY <2>1, <3>5, <3>6 DEF EngineInv, Steady
    <2>4. QED
      BY <2>2, <2>3
  <1>10. QED
    BY <1>6, <1>7, <1>8, <1>9

\* transfer_destroy() at any moment: everything on the list is SUBMITTED, but
\* for the head just before it is unlinked, so nothing else on it is freed.
LEMMA DestroySafe ==
  ASSUME IInv, NEW t \in Threads, TransferDestroy(t)
  PROVE  SafeInv'
  <1> USE DEF IInv, SafeInv
  <1>t. TypeOK /\ TypeOK'
    BY StepType DEF TypeInv, Next, ThreadStep
  <1>1. /\ pc[t] = "taken"
        /\ state[transfer[t]] # "SUBMITTED"
        /\ live' = live \ {transfer[t]}
        /\ UNCHANGED <<state, desc_num, engine_vars, svc_vars, run_vars,
                       hw_status, executed, lost_status>>
    BY DEF TransferDestroy, NotSubmitted, irq_vars
  <1>2. /\ \A u \in Threads : u # t => pc'[u] = pc[u] /\ transfer'[u] = transfer[u]
        /\ ~Holds(t)' /\ pc'[t] # "queue"
    BY <1>t DEF TransferDestroy, Finish, Holds, TypeOK
  <1>3. \A i \in 1 .. Len(transfer_list) :
          transfer_list[i] # transfer[t] \/ (svc = "unlink" /\ i = 1)
    BY <1>1 DEF ListInv
  <1>4. Ownership'
    BY <1>1, <1>2 DEF Ownership, Holds
  <1>5. ListInv'
    BY <1>1, <1>3 DEF ListInv, engine_vars, svc_vars
  <1>6. HeapInv'
    BY <1>1 DEF HeapInv
  <1>7. EngineInv'
    <2>1. UNCHANGED <<Started, Stopped, Stalled, AllPending, Executing, Done>>
      BY <1>1 DEF Started, Stopped, Stalled, AllPending, Executing, Done,
                  engine_vars, run_vars
    <2>2. QED
      BY <1>1, <2>1 DEF EngineInv, Steady, Finished, engine_vars, svc_vars
  <1>8. QED
    BY <1>4, <1>5, <1>6, <1>7

\* The interrupted waiter's store of engine->status at any moment: it can turn
\* BUSY on between the service routine's read and its test, and is then lost.
LEMMA StoreSafe ==
  ASSUME IInv, NEW t \in Threads, StatusStore(t)
  PROVE  SafeInv'
  <1> USE DEF IInv, SafeInv
  <1>t. TypeOK
    BY DEF TypeInv
  <1>1. /\ UNCHANGED core_vars
        /\ status' = value[t] /\ "ERROR" \notin status'
        /\ lost_status => lost_status'
        /\ svc = "count" /\ status' # status => lost_status'
    BY DEF StatusStore, StatusInUse, NoErrorRead, core_vars, irq_vars
  <1>2. /\ \A u \in Threads : u # t => pc'[u] = pc[u] /\ transfer'[u] = transfer[u]
        /\ ~Holds(t)' /\ pc'[t] # "queue"
    BY <1>t DEF StatusStore, Finish, Holds, TypeOK
  <1>3. Ownership'
    BY <1>1, <1>2 DEF Ownership, Holds, core_vars, heap_vars
  <1>4. ListInv' /\ HeapInv'
    BY <1>1 DEF ListInv, HeapInv, core_vars, heap_vars, svc_vars
  <1>5. EngineInv'
    <2>1. /\ UNCHANGED <<Started, Stopped, AllPending, Executing, Done>>
          /\ Stalled => Stalled'
      BY <1>1 DEF Started, Stopped, Stalled, AllPending, Executing, Done,
                  core_vars, heap_vars, run_vars
    <2>2. svc = "count" => ("BUSY" \in status' => lost_status')
      BY <1>1 DEF EngineInv
    <2>3. QED
      BY <1>1, <2>1, <2>2
         DEF EngineInv, Steady, Finished, core_vars, heap_vars, svc_vars
  <1>6. QED
    BY <1>3, <1>4, <1>5

\* Steps of the service routine and of the hardware leave the threads' claims
\* on their transfers alone.
LEMMA OwnershipFrame ==
  ASSUME Ownership, UNCHANGED <<pc, transfer, live, state>>,
         \A u \in Threads : pc[u] = "queue" =>
            (transfer[u] \in executed' => transfer[u] \in executed)
  PROVE  Ownership'
  BY DEF Ownership, Holds

\* An interrupt is taken only for an engine that finished its transfer.
LEMMA IrqSafe ==
  ASSUME IInv, Irq
  PROVE  SafeInv'
  <1> USE DEF IInv, SafeInv
  <1>1. /\ msi
        /\ UNCHANGED <<pc, transfer, heap_vars, engine_vars, svc, svc_transfer,
                       desc_count, run_vars, hw_status, executed, lost_status>>
    BY DEF Irq, XdmaIsr, XdmaChannelIrq, thread_vars
  <1>2. svc = "idle" /\ hw_status # {}
    BY <1>1 DEF IrqInv
  <1>3. Finished
    BY <1>2 DEF EngineInv, Steady, Executing, Stopped, Stalled
  <1>4. Ownership'
    BY <1>1, OwnershipFrame DEF heap_vars
  <1>5. ListInv' /\ HeapInv'
    BY <1>1 DEF ListInv, HeapInv, heap_vars, engine_vars
  <1>6. Finished'
    BY <1>1, <1>3 DEF Finished, Done, Started, heap_vars, engine_vars, run_vars
  <1>7. EngineInv'
    BY <1>1, <1>2, <1>6 DEF EngineInv, Steady
  <1>8. QED
    BY <1>4, <1>5, <1>7

\* The work begins, and reads and clears the status of a finished engine.
LEMMA StatusSafe ==
  ASSUME IInv, WorkBegin \/ ServiceStatus
  PROVE  SafeInv'
  <1> USE DEF IInv, SafeInv
  <1>1. UNCHANGED <<pc, transfer, heap_vars, transfer_list, running,
                    desc_dequeued, svc_transfer, desc_count, run_vars, executed>>
    BY DEF WorkBegin, ServiceStatus, thread_vars, engine_vars
  <1>2. Finished /\ svc \in {"idle", "status"} /\ svc' \in {"status", "count", "unmask"}
    BY DEF WorkBegin, ServiceStatus, EngineInv
  <1>3. Ownership'
    BY <1>1, OwnershipFrame DEF heap_vars
  <1>4. ListInv' /\ HeapInv'
    BY <1>1, <1>2 DEF ListInv, HeapInv, heap_vars
  <1>5. Done' = Done
    BY <1>1 DEF Done, Started, heap_vars, run_vars
  <1>6. CASE WorkBegin
    <2>1. svc' = "status" /\ ~work' /\ hw_status' = hw_status
      BY <1>6 DEF WorkBegin, irq_vars
    <2>2. QED
      BY <1>2, <1>3, <1>4, <1>5, <2>1 DEF EngineInv, Finished
  <1>7. CASE ServiceStatus
    <2>1. /\ running /\ hw = "idle" /\ svc = "status"
          /\ hw_status' = {} /\ status' = hw_status
          /\ svc' = "count" /\ ~work'
          /\ hw_status \in SUBSET StatusBits
      BY <1>2, <1>7 DEF ServiceStatus, StatusRegister, Finished, Done, Started,
                        EngineInv, TypeInv, TypeOK
    <2>2. "BUSY" \notin status' /\ "ERROR" \notin status'
      BY <2>1 DEF StatusBits, NoErrorRead
    <2>3. EngineInv'
      BY <1>2, <1>5, <2>1, <2>2 DEF EngineInv, Finished
    <2>4. QED
      BY <1>3, <1>4, <2>3
  <1>8. QED
    BY <1>6, <1>7

\* The shutdown, and a count that is exactly the first transfer's.
LEMMA CountSafe ==
  ASSUME IInv, ServiceCount
  PROVE  SafeInv'
  <1> USE DEF IInv, SafeInv
  <1>t. TypeOK
    BY DEF TypeInv
  <1>1. /\ svc = "count" /\ svc' = "list"
        /\ Done /\ hw_status = {} /\ "ERROR" \notin status
        /\ UNCHANGED <<pc, transfer, heap_vars, transfer_list, status, work,
                       hw_status, executed, lost_status>>
    BY DEF ServiceCount, EngineInv, thread_vars, irq_vars
  <1>2. ~work
    BY <1>1 DEF EngineInv
  <1>3. desc_count' = hw_count
    <2>1. desc_count' = (hw_count - desc_dequeued) % CounterMod
      BY DEF ServiceCount, Undequeued
    <2>2. desc_dequeued = 0 /\ hw_count \in 0 .. MaxDesc
      BY <1>1, <1>t DEF Done, Started, TypeOK
    <2>3. hw_count % CounterMod = hw_count
      BY <2>2, BoundsAssumption
    <2>4. QED
      BY <2>1, <2>2, <2>3
  <1>4. Stopped' \/ Stalled'
    <2>1. CASE "BUSY" \in status
      BY <1>1, <2>1 DEF ServiceCount, EngineInv, Done, Started, Stalled
    <2>2. CASE "BUSY" \notin status
      BY <1>1, <2>2 DEF ServiceCount, Done, Stopped, EngineShutdown, EngineStop
    <2>3. QED
      BY <2>1, <2>2
  <1>5. Ownership'
    BY <1>1, OwnershipFrame DEF heap_vars
  <1>6. ListInv' /\ HeapInv'
    BY <1>1 DEF ListInv, HeapInv, heap_vars
  <1>7. EngineInv'
    BY <1>1, <1>2, <1>3, <1>4 DEF EngineInv, Done, Started, heap_vars
  <1>8. QED
    BY <1>5, <1>6, <1>7

\* The count is the head's, and no error is reported.
LEMMA NoPassOver == IInv => ~ServicePassOver /\ ~ServiceErr
  <1> SUFFICES ASSUME IInv, svc = "list" PROVE ~ServicePassOver /\ ~ServiceErr
    BY DEF ServicePassOver, ServiceErr
  <1>1. /\ transfer_list # <<>> /\ "ERROR" \notin status
        /\ desc_count = desc_num[transfer_list[1]]
        /\ desc_count \in Nat
        /\ Head(transfer_list) = transfer_list[1]
    BY TailProps DEF IInv, SafeInv, EngineInv, TypeInv, TypeOK
  <1>2. QED
    BY <1>1 DEF ServicePassOver, ServiceErr

\* The verdict on a transfer all of whose descriptors are done.
LEMMA FinalSafe ==
  ASSUME IInv, ServiceFinal
  PROVE  SafeInv'
  <1> USE DEF IInv, SafeInv
  <1>t. TypeOK
    BY DEF TypeInv
  <1> DEFINE x == transfer_list[1]
  <1>1. /\ svc = "list" /\ transfer_list # <<>> /\ Head(transfer_list) = x
        /\ x \in Transfers /\ 1 \in 1 .. Len(transfer_list)
    BY <1>t, TailProps DEF ServiceFinal, TypeOK
  <1>2. /\ svc' = "unlink" /\ svc_transfer' = x
        /\ state' = [state EXCEPT ![x] = Verdict(x)]
        /\ UNCHANGED <<pc, transfer, live, desc_num, engine_vars, work,
                       desc_count, run_vars, hw_status, executed, lost_status>>
    BY <1>1 DEF ServiceFinal, thread_vars, irq_vars
  <1>3. /\ Stopped \/ Stalled
        /\ desc_count = desc_num[x] /\ "ERROR" \notin status
        /\ x \in executed /\ ~work
    BY <1>1 DEF EngineInv
  <1>4. Verdict(x) = "COMPLETED"
    <2>1. desc_num[x] \in Nat
      BY <1>1, <1>t DEF TypeOK
    <2>2. QED
      BY <1>3, <2>1 DEF Verdict
  <1>5. /\ state'[x] = "COMPLETED"
        /\ \A y \in Transfers : y # x => state'[y] = state[y]
    BY <1>1, <1>2, <1>4, <1>t DEF TypeOK
  <1>6. Ownership'
    <2>1. \A u \in Threads : pc[u] = "queue" =>
             transfer[u] \in Transfers /\ transfer[u] # x
      BY <1>3 DEF Ownership, Holds, TypeInv
    <2>2. QED
      BY <1>2, <1>5, <2>1 DEF Ownership, Holds
  <1>7. ListInv'
    <2>1. \A i \in 1 .. Len(transfer_list) :
            /\ transfer_list[i] \in Transfers
            /\ i # 1 => transfer_list[i] # x
      BY <1>1, <1>t DEF ListInv, TypeOK
    <2>2. \A i \in 1 .. Len(transfer_list) : i # 1 =>
            state'[transfer_list[i]] = "SUBMITTED"
      BY <1>1, <1>5, <2>1 DEF ListInv
    <2>3. QED
      BY <1>1, <1>2, <2>2 DEF ListInv, engine_vars
  <1>8. HeapInv'
    BY <1>2, <1>3, <1>5, <1>t DEF HeapInv, TypeOK
  <1>9. EngineInv'
    BY <1>1, <1>2, <1>3, <1>5
       DEF EngineInv, Stopped, Stalled, engine_vars, run_vars
  <1>10. QED
    BY <1>6, <1>7, <1>8, <1>9

\* The list moves up by one.
LEMMA UnlinkSafe ==
  ASSUME IInv, ServiceUnlink
  PROVE  SafeInv'
  <1> USE DEF IInv, SafeInv
  <1>t. TypeOK
    BY DEF TypeInv
  <1>1. /\ svc = "unlink" /\ svc' = "wake" /\ transfer_list # <<>>
        /\ transfer_list' = Tail(transfer_list)
        /\ UNCHANGED <<pc, transfer, heap_vars, running, work, svc_transfer,
                       run_vars, hw_status, executed, lost_status>>
    BY DEF ServiceUnlink, EngineInv, Dequeue, thread_vars, irq_vars
  <1>2. /\ Stopped \/ Stalled
        /\ ~work /\ svc_transfer = transfer_list[1]
    BY <1>1 DEF EngineInv
  <1>3. /\ Len(transfer_list') = Len(transfer_list) - 1
        /\ \A i \in 1 .. Len(transfer_list) - 1 :
             transfer_list'[i] = transfer_list[i + 1]
        /\ Len(transfer_list) \in Nat /\ Len(transfer_list) > 0
    <2>1. transfer_list \in Seq(Transfers)
      BY <1>t DEF TypeOK
    <2>2. QED
      BY ONLY <1>1, <2>1, TailProps
  <1>4. \A i \in 1 .. Len(transfer_list') :
          /\ i + 1 \in 1 .. Len(transfer_list)
          /\ i + 1 > 1
          /\ transfer_list'[i] = transfer_list[i + 1]
    BY ONLY <1>3
  <1>5. Ownership'
    BY <1>1, OwnershipFrame DEF heap_vars
  <1>6. ListInv'
    <2>1. \A i \in 1 .. Len(transfer_list') :
            /\ transfer_list'[i] \in live
            /\ state[transfer_list'[i]] = "SUBMITTED"
            /\ transfer_list'[i] \notin executed
      BY <1>4 DEF ListInv
    <2>2. \A i, j \in 1 .. Len(transfer_list') :
            transfer_list'[i] = transfer_list'[j] => i + 1 = j + 1
      BY <1>4 DEF ListInv
    <2>3. \A i, j \in 1 .. Len(transfer_list') : i + 1 = j + 1 => i = j
      BY ONLY <1>3
    <2>4. QED
      BY <1>1, <2>1, <2>2, <2>3 DEF ListInv, heap_vars
  <1>7. HeapInv'
    BY <1>1 DEF HeapInv, heap_vars
  <1>8. EngineInv'
    <2>2. \A i \in 1 .. Len(transfer_list') :
            /\ transfer_list'[i] # svc_transfer
            /\ transfer_list'[i] \notin executed
      BY <1>2, <1>3, <1>4 DEF ListInv
    <2>3. Stopped' \/ Stalled'
      BY <1>1, <1>2 DEF Stopped, Stalled, run_vars
    <2>4. QED
      BY <1>1, <1>2, <2>2, <2>3 DEF EngineInv, AllPending
  <1>9. QED
    BY <1>5, <1>6, <1>7, <1>8

\* Waking moves a sleeping thread back to its condition.
LEMMA WakeSafe ==
  ASSUME IInv, ServiceWake
  PROVE  SafeInv'
  <1> USE DEF IInv, SafeInv
  <1>t. TypeOK
    BY DEF TypeInv
  <1>1. /\ svc = "wake" /\ svc' = "resume"
        /\ pc' = WakeUp(svc_transfer)
        /\ UNCHANGED <<transfer, heap_vars, engine_vars, work, run_vars,
                       hw_status, executed, lost_status>>
    BY DEF ServiceWake, EngineInv, irq_vars
  <1>2. \A u \in Threads : /\ Holds(u)' = Holds(u)
                           /\ pc'[u] = "queue" => pc[u] = "queue"
    BY <1>1, <1>t DEF WakeUp, Holds, TypeOK
  <1>3. Ownership'
    BY <1>1, <1>2 DEF Ownership, heap_vars
  <1>4. ListInv' /\ HeapInv'
    BY <1>1 DEF ListInv, HeapInv, heap_vars, engine_vars
  <1>5. EngineInv'
    BY <1>1 DEF EngineInv, Stopped, Stalled, AllPending, engine_vars, run_vars
  <1>6. QED
    BY <1>3, <1>4, <1>5

\* The engine is restarted on the first of the transfers left.
LEMMA ResumeSafe ==
  ASSUME IInv, ServiceResume
  PROVE  SafeInv'
  <1> USE DEF IInv, SafeInv
  <1>t. TypeOK
    BY DEF TypeInv
  <1>1. /\ svc = "resume" /\ svc' = "unmask"
        /\ UNCHANGED <<pc, transfer, heap_vars, transfer_list, work, hw_status,
                       executed, lost_status>>
    BY DEF ServiceResume, thread_vars, irq_vars
  <1>2. /\ Stopped \/ Stalled
        /\ AllPending /\ ~work
    BY <1>1 DEF EngineInv
  <1>3. Ownership'
    BY <1>1, OwnershipFrame DEF heap_vars
  <1>4. ListInv' /\ HeapInv'
    BY <1>1 DEF ListInv, HeapInv, heap_vars
  <1>5. Steady'
    <2>0. CASE Stalled
      BY <1>1, <1>2, <2>0
         DEF ServiceResume, MustRestart, Steady, Stalled, AllPending, run_vars
    <2>1. CASE Stopped /\ transfer_list = <<>>
      BY <1>1, <1>2, <2>1
         DEF ServiceResume, MustRestart, Steady, Stopped, run_vars
    <2>2. CASE Stopped /\ transfer_list # <<>>
      <3>1. /\ Head(transfer_list) = transfer_list[1]
            /\ 1 \in 1 .. Len(transfer_list)
            /\ transfer_list[1] \in Transfers
        BY <2>2, <1>t, TailProps DEF TypeOK
      <3>2. EngineStart(Head(transfer_list))
        BY <1>2, <2>2 DEF ServiceResume, MustRestart, Stopped
      <3>3. 0 < desc_num[transfer_list[1]]
        BY <3>1, <1>t DEF TypeOK
      <3>4. Executing'
        BY <1>1, <1>2, <2>2, <3>1, <3>2, <3>3
           DEF Executing, Started, Stopped, AllPending, EngineStart, heap_vars
      <3>5. QED
        BY <3>4 DEF Steady
    <2>3. QED
      BY <1>2, <2>0, <2>1, <2>2
  <1>6. EngineInv'
    BY <1>1, <1>2, <1>5 DEF EngineInv
  <1>7. QED
    BY <1>3, <1>4, <1>6

\* The end of the work.
LEMMA UnmaskSafe ==
  ASSUME IInv, ServiceUnmask
  PROVE  SafeInv'
  <1> USE DEF IInv, SafeInv
  <1>1. /\ svc = "unmask" /\ svc' = "idle"
        /\ UNCHANGED <<pc, transfer, heap_vars, engine_vars, work, run_vars,
                       hw_status, executed, lost_status>>
    BY DEF ServiceUnmask, thread_vars
  <1>2. Steady /\ ~work
    BY <1>1 DEF EngineInv
  <1>3. Steady'
    BY <1>1, <1>2 DEF Steady, Executing, Finished, Done, Started, Stopped,
                      Stalled, AllPending, heap_vars, engine_vars, run_vars
  <1>4. Ownership'
    BY <1>1, OwnershipFrame DEF heap_vars
  <1>5. ListInv' /\ HeapInv'
    BY <1>1 DEF ListInv, HeapInv, heap_vars, engine_vars
  <1>6. EngineInv'
    BY <1>1, <1>2, <1>3 DEF EngineInv
  <1>7. QED
    BY <1>4, <1>5, <1>6

\* The hardware runs only outside the service routine or at its very end.
LEMMA HwSafe ==
  ASSUME QuietHardware, IInv, HwStep \/ HwError
  PROVE  SafeInv'
  <1> USE DEF IInv, SafeInv
  <1>t. TypeOK
    BY DEF TypeInv
  <1>1. hw \in {"run", "idle"}
    BY <1>t DEF EngineInv, Steady, Executing, Finished, Done, Stopped, Stalled,
                TypeOK
  <1>2. /\ hw = "run"
        /\ (HwDescriptor \/ HwLastDescriptor)
        /\ UNCHANGED <<pc, transfer, heap_vars, engine_vars, svc_vars, hw_run,
                       hw_transfer>>
    <2>1. ~HwError
      BY DEF HwError, QuietHardware
    <2>2. ~HwIdle
      BY <1>1 DEF HwIdle
    <2>3. CASE HwDescriptor
      BY <2>3 DEF HwDescriptor, thread_vars
    <2>4. CASE HwLastDescriptor
      BY <2>4 DEF HwLastDescriptor, thread_vars
    <2>5. QED
      BY <2>1, <2>2, <2>3, <2>4 DEF HwStep
  <1>3. Executing /\ svc \in {"idle", "unmask"} /\ ~work
    BY <1>2, <1>t
       DEF EngineInv, Steady, Finished, Done, Stopped, Stalled, TypeOK
  <1>4. /\ hw_transfer = transfer_list[1] /\ transfer_list # <<>>
        /\ transfer_list[1] \in Transfers /\ 1 \in 1 .. Len(transfer_list)
    BY <1>3, <1>t DEF Executing, Started, TypeOK
  <1>5. CASE HwDescriptor
    <2>1. /\ UNCHANGED <<hw, hw_status, executed>>
          /\ hw_count' = hw_count + 1 /\ hw_count + 1 < desc_num[hw_transfer]
      BY <1>5 DEF HwDescriptor, irq_vars
    <2>2. Executing'
      BY <1>2, <1>3, <1>4, <2>1 DEF Executing, Started, heap_vars, engine_vars
    <2>3. Ownership'
      BY <1>2, <2>1, OwnershipFrame DEF heap_vars
    <2>4. ListInv' /\ HeapInv'
      BY <1>2, <2>1 DEF ListInv, HeapInv, heap_vars, engine_vars, svc_vars
    <2>5. EngineInv'
      BY <1>2, <1>3, <2>2 DEF EngineInv, Steady, svc_vars
    <2>6. QED
      BY <2>3, <2>4, <2>5
  <1>6. CASE HwLastDescriptor
    <2>1. /\ hw' = "idle" /\ executed' = executed \cup {hw_transfer}
          /\ hw_status' = {"DESC_COMPLETED", "DESC_STOPPED"}
          /\ hw_count' = desc_num[hw_transfer]
      BY <1>3, <1>6 DEF HwLastDescriptor, QuietHardware, Executing
    <2>2. Finished'
      BY <1>2, <1>3, <1>4, <2>1
         DEF Executing, Finished, Done, Started, heap_vars, engine_vars
    <2>3. /\ hw_transfer \in live /\ state[hw_transfer] = "SUBMITTED"
      BY <1>3, <1>4 DEF ListInv
    <2>4. \A i \in 1 .. Len(transfer_list) : i > 1 =>
            transfer_list[i] # hw_transfer
      BY <1>4 DEF ListInv
    <2>5. Ownership'
      <3>1. \A u \in Threads : pc[u] = "queue" => transfer[u] # hw_transfer
        BY <2>3 DEF Ownership
      <3>2. QED
        BY <1>2, <2>1, <3>1, OwnershipFrame DEF heap_vars
    <2>6. ListInv'
      BY <1>2, <2>1, <2>4 DEF ListInv, heap_vars, engine_vars, svc_vars
    <2>7. HeapInv'
      BY <1>2, <2>1 DEF HeapInv, heap_vars
    <2>8. EngineInv'
      BY <1>2, <1>3, <2>2 DEF EngineInv, Steady, svc_vars
    <2>9. QED
      BY <2>5, <2>6, <2>7, <2>8
  <1>7. QED
    BY <1>2, <1>5, <1>6

\* Every step preserves the inductive invariant.
LEMMA StepSafe == QuietHardware /\ IInv /\ [Next]_vars => IInv'
  <1> SUFFICES ASSUME QuietHardware, IInv, [Next]_vars PROVE IInv'
    OBVIOUS
  <1>1. TypeInv' /\ IrqInv' /\ NoErrorRead'
    BY StepType, StepIrq, StepNoError DEF IInv
  <1>2. ASSUME NEW t \in Threads, Request(t) \/ ThreadStep(t) \/ Interrupt(t)
        PROVE  SafeInv'
    BY <1>2, ThreadLocalSafe, CreateSafe, QueueSafe, DestroySafe,
       StoreSafe DEF ThreadStep
  <1>3. CASE Irq
    BY <1>1, <1>3, IrqSafe DEF IInv
  <1>4. CASE Service
    <2>1. SafeInv'
      BY <1>4, StatusSafe, CountSafe, NoPassOver, FinalSafe,
         UnlinkSafe, WakeSafe, ResumeSafe, UnmaskSafe DEF Service
    <2>2. QED
      BY <1>1, <2>1 DEF IInv
  <1>5. CASE HwStep \/ HwError
    BY <1>1, <1>5, HwSafe DEF IInv
  <1>6. CASE UNCHANGED vars
    <2>1. UNCHANGED <<core_vars, status, lost_status, pc, transfer, live, state,
                      executed>>
      BY <1>6 DEF vars, core_vars, thread_vars, engine_vars, heap_vars, irq_vars
    <2>2. QED
      BY <1>1, <2>1, CoreFrame, OwnershipFrame DEF IInv, SafeInv
  <1>7. QED
    BY <1>1, <1>2, <1>3, <1>4, <1>5, <1>6 DEF Next, IInv

\* IInv is an invariant of the engine on quiet hardware.
LEMMA InvSafe == ASSUME QuietHardware PROVE Spec => []IInv
  <1>1. Init => IInv
    BY InitType, InitIrq, InitNoError, InitSafe DEF IInv
  <1>2. IInv /\ [Next]_vars => IInv'
    BY StepSafe
  <1>3. QED
    BY <1>1, <1>2, PTL DEF Spec

(***************************************************************************)
(* What IInv implies.                                                      *)
(***************************************************************************)

\* The list and the hardware refer to allocated transfers, but for the one the
\* service routine is completing.
LEMMA ReferencedLive == IInv => NoDanglingReference /\ ~BugOn
  <1> SUFFICES ASSUME IInv PROVE NoDanglingReference /\ ~BugOn
    OBVIOUS
  <1> USE DEF IInv, SafeInv
  <1>t. TypeOK
    BY DEF TypeInv
  <1>1. transfer_list # <<>> => 1 \in 1 .. Len(transfer_list)
    BY <1>t DEF TypeOK
  <1>2. Listed \ live \subseteq Completing
    BY DEF Listed, ListInv, EngineInv, Completing
  <1>3. hw = "run" => Executing /\ svc # "unlink"
    BY <1>t
       DEF EngineInv, Steady, Finished, Done, Stopped, Stalled, TypeOK
  <1>4. hw = "run" => hw_transfer \in live
    BY <1>1, <1>3 DEF Executing, Started, ListInv
  <1>5. ~BugOn
    BY DEF BugOn, EngineInv
  <1>6. QED
    BY <1>2, <1>4, <1>5 DEF Referenced, NoDanglingReference

\* On hardware that neither fails nor lingers, for any number of threads, with
\* signals and every interleaving of the unlocked test and free with the service
\* routine: what is freed while referenced is at most the transfer under
\* completion, never another one of the list or the hardware's.
THEOREM MemorySafe ==
  ASSUME QuietHardware PROVE Spec => []NoDanglingReference
  <1>1. IInv => NoDanglingReference
    BY ReferencedLive
  <1>2. QED
    BY <1>1, InvSafe, PTL

\* In the same generality the BUG_ON of the service routine never fires, and
\* its WARN_ON only once an interrupted waiter has replaced the status under
\* service.
THEOREM AssertionsNeverFire ==
  ASSUME QuietHardware PROVE Spec => []AssertionsHold
  <1>1. IInv => AssertionsHold
    BY ReferencedLive
       DEF AssertionsHold, NoBugOn, NoWarnOn, IInv, SafeInv, EngineInv, Stopped,
           Stalled
  <1>2. QED
    BY <1>1, InvSafe, PTL

\* In the same generality a transfer reported COMPLETED was executed, and none
\* is given up; here a replaced status is no exception.
THEOREM CompletionSound ==
  ASSUME QuietHardware PROVE Spec => [](CompletedExecuted /\ NeverFailed)
  <1>1. IInv => CompletedExecuted /\ NeverFailed
    BY DEF CompletedExecuted, NeverFailed, IInv, SafeInv, HeapInv
  <1>2. QED
    BY <1>1, InvSafe, PTL

\* In the same generality an engine with something queued is marked running
\* outside the service routine, and works on the first transfer of the list
\* until a replaced status stalls it.
THEOREM EngineRunsHead ==
  ASSUME QuietHardware PROVE Spec => []RunsHead
  <1>1. IInv => RunsHead
    <2> SUFFICES ASSUME IInv, svc = "idle"
                 PROVE  /\ transfer_list # <<>> => running
                        /\ running /\ ~lost_status =>
                             /\ transfer_list # <<>>
                             /\ hw_transfer = Head(transfer_list)
      BY DEF RunsHead, Locked
    <2>1. Steady /\ transfer_list \in Seq(Transfers)
      BY DEF IInv, SafeInv, EngineInv, TypeInv, TypeOK
    <2>2. transfer_list # <<>> => Head(transfer_list) = transfer_list[1]
      BY <2>1
    <2>3. QED
      BY <2>1, <2>2
         DEF Steady, Executing, Finished, Done, Started, Stopped, Stalled
  <1>2. QED
    BY <1>1, InvSafe, PTL

(***************************************************************************)
(* The engine implements DmaQueue as long as behaviour is defined, and     *)
(* executes each transfer once, in the order of the list.                  *)
(***************************************************************************)

\* The refinement mapping's value for the variable phase of DmaQueue.
phase == [x \in Transfers |-> PhaseOf(x)]

\* A step that leaves the heap, the list and the history alone is invisible.
LEMMA QueueStutter ==
  ASSUME UNCHANGED <<heap_vars, transfer_list, executed>>
  PROVE  UNCHANGED <<transfer_list, phase>>
  BY DEF phase, PhaseOf, Listed, heap_vars

\* Creating a transfer leaves its slot free for the queue.
LEMMA CreateStutter ==
  ASSUME IInv, NEW t \in Threads, TransferCreate(t)
  PROVE  UNCHANGED <<transfer_list, phase>>
  <1>t. TypeOK
    BY DEF IInv, TypeInv
  <1>1. PICK y \in Transfers \ live :
          /\ live' = live \cup {y}
          /\ state' = [state EXCEPT ![y] = "NEW"]
          /\ executed' = executed \ {y}
    BY DEF TransferCreate
  <1>2. UNCHANGED transfer_list
    BY DEF TransferCreate, engine_vars
  <1>3. \A x \in Transfers : PhaseOf(x)' = PhaseOf(x)
    <2> TAKE x \in Transfers
    <2>1. CASE x = y
      BY <1>1, <1>t, <2>1 DEF PhaseOf, TypeOK
    <2>2. CASE x # y
      <3>1. /\ state'[x] = state[x]
            /\ x \in live' <=> x \in live
            /\ x \in executed' <=> x \in executed
        BY <1>1, <1>t, <2>2 DEF TypeOK
      <3>2. Listed' = Listed
        BY <1>2 DEF Listed
      <3>3. QED
        BY <3>1, <3>2 DEF PhaseOf
    <2>3. QED
      BY <2>1, <2>2
  <1>4. QED
    BY <1>2, <1>3 DEF phase

\* transfer_queue() is Submit.
LEMMA QueueSubmits ==
  ASSUME IInv, NEW t \in Threads, TransferQueue(t)
  PROVE  Queue!Submit(transfer[t])
  <1>t. TypeOK
    BY DEF IInv, TypeInv
  <1>0. PICK y \in Transfers : y = transfer[t]
    BY DEF TransferQueue, IInv, TypeInv, Holds
  <1>1. /\ pc[t] = "queue" /\ svc = "idle"
        /\ state' = [state EXCEPT ![y] = "SUBMITTED"]
        /\ transfer_list' = Append(transfer_list, y)
        /\ UNCHANGED <<live, executed>>
    BY <1>0 DEF TransferQueue, Enqueue, Locked
  <1>2. y \in Transfers /\ y \in live /\ state[y] = "NEW" /\ y \notin executed
    BY <1>0, <1>1 DEF IInv, SafeInv, Ownership, TypeInv, Holds
  <1>3. PhaseOf(y) = "free" /\ PhaseOf(y)' = "queued"
    BY <1>1, <1>2, <1>t DEF PhaseOf, TypeOK
  <1>4. \A x \in Transfers : x # y => (x \in Listed' <=> x \in Listed)
    <2>1. transfer_list \in Seq(Transfers)
      BY <1>t DEF TypeOK
    <2>2. /\ Len(transfer_list') = Len(transfer_list) + 1
          /\ \A i \in 1 .. Len(transfer_list) :
               transfer_list'[i] = transfer_list[i]
          /\ transfer_list'[Len(transfer_list) + 1] = y
          /\ Len(transfer_list) \in Nat
      BY ONLY <1>1, <1>2, <2>1, AppendProps
    <2>3. /\ 1 .. Len(transfer_list') =
               1 .. Len(transfer_list) \cup {Len(transfer_list) + 1}
      BY ONLY <2>2
    <2>4. QED
      BY <2>2, <2>3 DEF Listed
  <1>5. \A x \in Transfers : x # y => PhaseOf(x)' = PhaseOf(x)
    <2> SUFFICES ASSUME NEW x \in Transfers, x # y
                 PROVE  PhaseOf(x)' = PhaseOf(x)
      OBVIOUS
    <2>1. state'[x] = state[x] /\ (x \in Listed' <=> x \in Listed)
      BY <1>1, <1>4, <1>t DEF TypeOK
    <2>2. QED
      BY <1>1, <2>1 DEF PhaseOf
  <1>6. phase' = [phase EXCEPT ![y] = "queued"]
    BY <1>2, <1>3, <1>5 DEF phase
  <1>7. phase[y] = "free"
    BY <1>2, <1>3 DEF phase
  <1>8. QED
    BY <1>0, <1>1, <1>6, <1>7 DEF Queue!Submit, phase

\* transfer_destroy() is Release: what is freed is off the list, or behaviour
\* is undefined from here.
LEMMA DestroyReleases ==
  ASSUME IInv, NEW t \in Threads, TransferDestroy(t), Defined'
  PROVE  \/ \E x \in Transfers : Queue!Release(x)
         \/ UNCHANGED <<transfer_list, phase>>
  <1>t. TypeOK
    BY DEF IInv, TypeInv
  <1>0. PICK y \in Transfers : y = transfer[t]
    BY DEF TransferDestroy, IInv, TypeInv, Holds
  <1>1. /\ pc[t] = "taken" /\ state[y] # "SUBMITTED"
        /\ live' = live \ {y}
        /\ UNCHANGED <<state, transfer_list, executed>>
    BY <1>0 DEF TransferDestroy, NotSubmitted, engine_vars
  <1>2. y \in live /\ y \notin Listed
    <2>1. y \in live
      BY <1>0, <1>1 DEF IInv, SafeInv, Ownership, Holds
    <2>2. Listed' = Listed /\ Listed' \subseteq live'
      BY <1>1 DEF Listed, Defined, Referenced
    <2>3. QED
      BY <1>1, <2>1, <2>2
  <1>3. \A x \in Transfers : x # y => PhaseOf(x)' = PhaseOf(x)
    BY <1>1 DEF PhaseOf, Listed
  <1>4. PhaseOf(y)' = "free" /\ PhaseOf(y) \in {"free", "retired"}
    BY <1>1, <1>2 DEF PhaseOf
  <1>5. CASE PhaseOf(y) = "free"
    BY <1>1, <1>3, <1>4, <1>5 DEF phase
  <1>6. CASE PhaseOf(y) = "retired"
    <2>1. phase' = [phase EXCEPT ![y] = "free"] /\ phase[y] = "retired"
      BY <1>3, <1>4, <1>6 DEF phase
    <2>2. QED
      BY <1>1, <2>1 DEF Queue!Release, phase
  <1>7. QED
    BY <1>4, <1>5, <1>6

\* The last descriptor of the head of the list is Move.
LEMMA LastMoves ==
  ASSUME QuietHardware, IInv, HwLastDescriptor
  PROVE  Queue!Move
  <1>t. TypeOK
    BY DEF IInv, TypeInv
  <1>1. Executing /\ svc \in {"idle", "unmask"}
    BY <1>t DEF HwLastDescriptor, IInv, SafeInv, EngineInv, Steady, Finished,
                Done, Stopped, Stalled, TypeOK
  <1>2. PICK y \in Transfers : y = transfer_list[1]
    BY <1>1, <1>t DEF Executing, Started, TypeOK
  <1>3. /\ transfer_list # <<>> /\ Head(transfer_list) = y
        /\ 1 \in 1 .. Len(transfer_list)
    BY <1>1, <1>2, <1>t DEF Executing, Started, TypeOK
  <1>4. /\ executed' = executed \cup {y}
        /\ UNCHANGED <<heap_vars, transfer_list>>
    BY <1>1, <1>2 DEF HwLastDescriptor, Executing, Started, engine_vars
  <1>5. y \in live /\ state[y] = "SUBMITTED" /\ y \notin executed
    BY <1>1, <1>2, <1>3 DEF IInv, SafeInv, ListInv, Executing
  <1>6. PhaseOf(y) = "queued" /\ PhaseOf(y)' = "moved"
    BY <1>4, <1>5 DEF PhaseOf, heap_vars
  <1>7. \A x \in Transfers : x # y => PhaseOf(x)' = PhaseOf(x)
    BY <1>4 DEF PhaseOf, Listed, heap_vars
  <1>8. phase' = [phase EXCEPT ![y] = "moved"] /\ phase[y] = "queued"
    BY <1>6, <1>7 DEF phase
  <1>9. QED
    BY <1>3, <1>4, <1>8 DEF Queue!Move, phase

\* The verdict on the head of the list is Report.
LEMMA FinalReports ==
  ASSUME IInv, ServiceFinal
  PROVE  Queue!Report
  <1>t. TypeOK
    BY DEF IInv, TypeInv
  <1>0. svc = "list" /\ transfer_list # <<>> /\ transfer_list \in Seq(Transfers)
    BY <1>t DEF ServiceFinal, TypeOK
  <1>1. PICK y \in Transfers : y = Head(transfer_list) /\ y = transfer_list[1]
    BY <1>0
  <1>2. 1 \in 1 .. Len(transfer_list)
    BY <1>0
  <1>3. /\ state' = [state EXCEPT ![y] = Verdict(y)]
        /\ UNCHANGED <<live, transfer_list, executed>>
    BY <1>1 DEF ServiceFinal, engine_vars
  <1>4. /\ y \in live /\ state[y] = "SUBMITTED" /\ y \in executed
        /\ desc_count = desc_num[y]
    BY <1>0, <1>1, <1>2 DEF IInv, SafeInv, ListInv, EngineInv
  <1>5. Verdict(y) = "COMPLETED"
    BY <1>4, <1>t DEF Verdict, TypeOK
  <1>6. y \in Listed /\ Listed' = Listed
    BY <1>1, <1>2, <1>3 DEF Listed
  <1>7. /\ state'[y] = "COMPLETED"
        /\ \A x \in Transfers : x # y => state'[x] = state[x]
    BY <1>3, <1>5, <1>t DEF TypeOK
  <1>8. PhaseOf(y) = "moved" /\ PhaseOf(y)' = "reported"
    BY <1>3, <1>4, <1>6, <1>7 DEF PhaseOf
  <1>9. \A x \in Transfers : x # y => PhaseOf(x)' = PhaseOf(x)
    BY <1>3, <1>6, <1>7 DEF PhaseOf
  <1>10. phase' = [phase EXCEPT ![y] = "reported"] /\ phase[y] = "moved"
    BY <1>8, <1>9 DEF phase
  <1>11. QED
    BY <1>0, <1>1, <1>3, <1>10 DEF Queue!Report, phase

\* Unlinking the head of the list is Retire.
LEMMA UnlinkRetires ==
  ASSUME IInv, ServiceUnlink
  PROVE  Queue!Retire
  <1>t. TypeOK
    BY DEF IInv, TypeInv
  <1>0. svc = "unlink" /\ transfer_list # <<>> /\ transfer_list \in Seq(Transfers)
    BY <1>t DEF ServiceUnlink, IInv, SafeInv, EngineInv, TypeOK
  <1>1. PICK y \in Transfers : y = Head(transfer_list) /\ y = transfer_list[1]
    BY <1>0
  <1>2. /\ transfer_list' = Tail(transfer_list)
        /\ UNCHANGED <<heap_vars, executed>>
    BY DEF ServiceUnlink, Dequeue
  <1>3. y \in live /\ state[y] = "COMPLETED"
    <2>1. 1 \in 1 .. Len(transfer_list)
      BY <1>0
    <2>2. QED
      BY <1>0, <1>1, <2>1 DEF ServiceUnlink, Defined, Referenced, Listed, IInv,
                              SafeInv, EngineInv
  <1>4. /\ Len(transfer_list') = Len(transfer_list) - 1
        /\ \A i \in 1 .. Len(transfer_list) - 1 :
             transfer_list'[i] = transfer_list[i + 1]
        /\ Len(transfer_list) \in Nat /\ Len(transfer_list) > 0
    BY ONLY <1>0, <1>2, TailProps
  <1>5. y \in Listed /\ y \notin Listed'
    <2>1. 1 \in 1 .. Len(transfer_list)
      BY <1>4
    <2>2. \A i \in 1 .. Len(transfer_list') :
            i + 1 \in 1 .. Len(transfer_list) /\ i + 1 # 1
            /\ transfer_list'[i] = transfer_list[i + 1]
      BY ONLY <1>4
    <2>3. \A i \in 1 .. Len(transfer_list') : transfer_list'[i] # y
      BY <1>1, <2>1, <2>2 DEF IInv, SafeInv, ListInv
    <2>4. QED
      BY <1>1, <2>1, <2>3 DEF Listed
  <1>6. \A x \in Transfers : x # y => (x \in Listed' <=> x \in Listed)
    <2> SUFFICES ASSUME NEW x \in Transfers, x # y
                 PROVE  x \in Listed' <=> x \in Listed
      OBVIOUS
    <2>1. ASSUME x \in Listed PROVE x \in Listed'
      <3>1. PICK i \in 1 .. Len(transfer_list) : transfer_list[i] = x
        BY <2>1 DEF Listed
      <3>2. i - 1 \in 1 .. Len(transfer_list') /\ transfer_list'[i - 1] = x
        BY <1>1, <1>4, <3>1
      <3>3. QED
        BY <3>2 DEF Listed
    <2>2. ASSUME x \in Listed' PROVE x \in Listed
      <3>1. PICK i \in 1 .. Len(transfer_list') : transfer_list'[i] = x
        BY <2>2 DEF Listed
      <3>2. i + 1 \in 1 .. Len(transfer_list) /\ transfer_list[i + 1] = x
        BY <1>4, <3>1
      <3>3. QED
        BY <3>2 DEF Listed
    <2>3. QED
      BY <2>1, <2>2
  <1>7. PhaseOf(y) = "reported" /\ PhaseOf(y)' = "retired"
    BY <1>2, <1>3, <1>5 DEF PhaseOf, heap_vars
  <1>8. \A x \in Transfers : x # y => PhaseOf(x)' = PhaseOf(x)
    BY <1>2, <1>6 DEF PhaseOf, heap_vars
  <1>9. phase' = [phase EXCEPT ![y] = "retired"] /\ phase[y] = "reported"
    BY <1>7, <1>8 DEF phase
  <1>10. QED
    BY <1>0, <1>1, <1>2, <1>9 DEF Queue!Retire, phase

\* Every step into a defined state is a step of the queue or invisible.
LEMMA StepQueue ==
  ASSUME QuietHardware, IInv, [Next]_vars, Defined'
  PROVE  Queue!Next \/ UNCHANGED <<transfer_list, phase>>
  <1>1. ASSUME NEW t \in Threads, Request(t) \/ ThreadStep(t) \/ Interrupt(t)
        PROVE  Queue!Next \/ UNCHANGED <<transfer_list, phase>>
    <2>1. CASE \/ Request(t) \/ TransferCreateFails(t) \/ TransferMonitor(t)
               \/ Interrupt(t) \/ StatusRead(t) \/ StatusStore(t)
      <3>1. UNCHANGED <<heap_vars, transfer_list, executed>>
        BY <2>1 DEF Request, TransferCreateFails, TransferMonitor, Interrupt,
                    StatusRead, StatusStore, engine_vars
      <3>2. QED
        BY <3>1, QueueStutter
    <2>2. CASE TransferCreate(t)
      BY <2>2, CreateStutter
    <2>3. CASE TransferQueue(t)
      <3>1. transfer[t] \in Transfers
        BY <2>3 DEF TransferQueue, IInv, TypeInv, Holds
      <3>2. QED
        BY <2>3, <3>1, QueueSubmits DEF Queue!Next
    <2>4. CASE TransferDestroy(t)
      BY <2>4, DestroyReleases DEF Queue!Next
    <2>5. QED
      BY <1>1, <2>1, <2>2, <2>3, <2>4 DEF ThreadStep
  <1>2. CASE Irq
    <2>1. UNCHANGED <<heap_vars, transfer_list, executed>>
      BY <1>2 DEF Irq, XdmaIsr, XdmaChannelIrq, engine_vars
    <2>2. QED
      BY <2>1, QueueStutter
  <1>3. CASE Service
    <2>1. CASE \/ WorkBegin \/ ServiceStatus \/ ServiceCount \/ ServiceWake
               \/ ServiceResume \/ ServiceUnmask
      <3>1. UNCHANGED <<heap_vars, transfer_list, executed>>
        BY <2>1 DEF WorkBegin, ServiceStatus, ServiceCount, ServiceWake,
                    ServiceResume, ServiceUnmask, engine_vars
      <3>2. QED
        BY <3>1, QueueStutter
    <2>2. QED
      BY <1>3, <2>1, NoPassOver, FinalReports, UnlinkRetires
         DEF Service, Queue!Next
  <1>4. CASE HwStep \/ HwError
    <2>1. CASE HwLastDescriptor
      BY <2>1, LastMoves DEF Queue!Next
    <2>2. CASE HwDescriptor \/ HwIdle \/ HwError
      <3>1. UNCHANGED <<heap_vars, transfer_list, executed>>
        BY <2>2 DEF HwDescriptor, HwIdle, HwError, engine_vars
      <3>2. QED
        BY <3>1, QueueStutter
    <2>3. QED
      BY <1>4, <2>1, <2>2 DEF HwStep
  <1>5. CASE UNCHANGED vars
    BY <1>5, QueueStutter DEF vars, engine_vars
  <1>6. QED
    BY <1>1, <1>2, <1>3, <1>4, <1>5 DEF Next

\* The driver's engine, with its locks, interrupts, signals and unlocked
\* accesses, implements the abstract queue up to the step that frees a transfer
\* in use, on hardware that neither fails nor lingers.
THEOREM EngineImplementsQueue ==
  ASSUME QuietHardware PROVE Spec => ImplementsDmaQueue
  <1>1. Init => Queue!Init
    BY DEF Init, Queue!Init, PhaseOf
  <1>2. IInv /\ [Next]_vars =>
          [Defined' => [Queue!Next]_<<transfer_list,
                                     [x \in Transfers |-> PhaseOf(x)]>>]_vars
    BY StepQueue DEF phase
  <1>3. QED
    BY <1>1, <1>2, InvSafe, PTL DEF Spec, ImplementsDmaQueue

\* engine_start() is never called on a transfer the hardware already executed,
\* and the hardware executes the head of the list.
LEMMA StepOrder ==
  ASSUME QuietHardware, IInv, [Next]_vars
  PROVE  /\ hw # "run" /\ hw' = "run" => hw_transfer' \notin executed
         /\ executed' \ executed # {} =>
              transfer_list # <<>> /\ hw_transfer = Head(transfer_list)
  <1>t. TypeOK
    BY DEF IInv, TypeInv
  <1>1. ASSUME hw # "run", hw' = "run" PROVE hw_transfer' \notin executed
    <2>1. ASSUME NEW t \in Threads, TransferQueue(t)
          PROVE  hw_transfer' \notin executed
      <3>1. EngineStart(Head(transfer_list')) /\ ~running /\ svc = "idle"
        BY <1>1, <2>1 DEF TransferQueue, run_vars, Locked
      <3>2. Stopped /\ transfer_list = <<>>
        BY <3>1 DEF IInv, SafeInv, EngineInv, Steady, Executing, Finished,
                    Done, Started, Stalled
      <3>3. transfer_list' = <<transfer[t]>> /\ transfer[t] \notin executed
        BY <2>1, <3>2 DEF TransferQueue, Enqueue, IInv, SafeInv, Ownership
      <3>4. QED
        BY <3>1, <3>2, <3>3 DEF EngineStart, Stopped
    <2>2. ASSUME ServiceResume PROVE hw_transfer' \notin executed
      <3>1. /\ Stopped /\ transfer_list # <<>>
            /\ EngineStart(Head(transfer_list))
            /\ \A i \in 1 .. Len(transfer_list) : transfer_list[i] \notin executed
        BY <1>1, <2>2 DEF ServiceResume, MustRestart, run_vars, IInv, SafeInv,
                          EngineInv, Stalled, AllPending
      <3>2. Head(transfer_list) \notin executed
        BY <3>1, <1>t DEF TypeOK
      <3>3. QED
        BY <3>1, <3>2 DEF EngineStart, Stopped
    <2>3. (\E t \in Threads : TransferQueue(t)) \/ ServiceResume
      BY <1>1 DEF Next, ThreadStep, Request, TransferCreate,
         TransferCreateFails, TransferMonitor, Interrupt, TransferDestroy,
         StatusRead, StatusStore, Irq, XdmaIsr, XdmaChannelIrq, Service,
         WorkBegin, ServiceStatus, ServiceCount, EngineShutdown, EngineStop,
         ServicePassOver, ServiceErr, ServiceFinal, ServiceUnlink, ServiceWake,
         ServiceUnmask, HwStep, HwDescriptor, HwLastDescriptor, HwIdle,
         HwError, run_vars, vars
    <2>4. QED
      BY <2>1, <2>2, <2>3
  <1>2. ASSUME executed' \ executed # {}
        PROVE  transfer_list # <<>> /\ hw_transfer = Head(transfer_list)
    <2>1. HwLastDescriptor
      BY <1>2 DEF Next, ThreadStep, Request, TransferCreate,
         TransferCreateFails, TransferQueue, TransferMonitor, Interrupt,
         TransferDestroy, StatusRead, StatusStore, Irq, XdmaIsr,
         XdmaChannelIrq, Service, WorkBegin, ServiceStatus, ServiceCount,
         ServicePassOver, ServiceErr, ServiceFinal, ServiceUnlink, ServiceWake,
         ServiceResume, ServiceUnmask, HwStep, HwDescriptor, HwIdle, HwError,
         vars
    <2>2. Executing
      BY <2>1, <1>t DEF HwLastDescriptor, IInv, SafeInv, EngineInv, Steady,
                        Finished, Done, Stopped, Stalled, TypeOK
    <2>3. QED
      BY <2>2, <1>t DEF Executing, Started, TypeOK
  <1>3. QED
    BY <1>1, <1>2

\* On quiet hardware every transfer is started at most once ...
THEOREM NeverExecutedTwice ==
  ASSUME QuietHardware PROVE Spec => ExecutedOnce
  <1>1. IInv /\ [Next]_vars =>
          [~lost_status /\ hw # "run" /\ hw' = "run"
             => hw_transfer' \notin executed]_vars
    BY StepOrder
  <1>2. QED
    BY <1>1, InvSafe, PTL DEF Spec, ExecutedOnce

\* ... and they are executed in the order of the list.
THEOREM ExecutesInOrder ==
  ASSUME QuietHardware PROVE Spec => ExecutedInOrder
  <1>1. IInv /\ [Next]_vars =>
          [~lost_status /\ executed' \ executed # {}
             => transfer_list # <<>> /\ hw_transfer = Head(transfer_list)]_vars
    BY StepOrder
  <1>2. QED
    BY <1>1, InvSafe, PTL DEF Spec, ExecutedInOrder
=============================================================================
