-------------------------- MODULE XdmaAsyncProofs --------------------------
(***************************************************************************)
(* Theorems about XdmaAsync, for any number of requests, transfers,        *)
(* readers and threads using the ioctls: no user interrupt is lost between *)
(* the handler and the readers, PERF ioctls that do not overlap agree on   *)
(* their memory, and a request is completed once, after what it asked for  *)
(* was executed.                                                           *)
(***************************************************************************)
EXTENDS XdmaAsync, FiniteSetTheorems, TLAPS

\* The steps of one thread in the PERF ioctls and in char_events_read().
Perform(a) ==
  \/ PerfStart(a) \/ PerfAlloc(a) \/ PerfSubmit(a) \/ PerfStop(a) \/ PerfHalt(a)
  \/ PerfStats(a) \/ PerfFree(a) \/ PerfNull(a) \/ PerfGet(a) \/ PerfGetStats(a)

Reading(r) == EventsRead(r) \/ EventsWait(r) \/ EventsSignal(r) \/ EventsTake(r)

(***************************************************************************)
(* User interrupts.                                                        *)
(***************************************************************************)

\* The pending flag is what the wait condition tests: while it is set nobody
\* sleeps, and it is set as long as an interrupt was not reported.
EventInv ==
  /\ reader \in [Readers -> {"idle", "wait", "asleep", "take"}]
  /\ user_irq \in BOOLEAN /\ events_irq \in BOOLEAN /\ unseen \in BOOLEAN
  /\ unseen => events_irq
  /\ events_irq => \A r \in Readers : reader[r] # "asleep"

\* The steps of char_events_read() keep EventInv.
LEMMA ReaderStep ==
  ASSUME EventInv, NEW r \in Readers, Reading(r)
  PROVE  EventInv'
  <1>1. CASE EventsRead(r)
    BY <1>1 DEF EventInv, EventsRead
  <1>2. CASE EventsWait(r)
    BY <1>2 DEF EventInv, EventsWait
  <1>3. CASE EventsSignal(r)
    BY <1>3 DEF EventInv, EventsSignal
  <1>4. CASE EventsTake(r)
    BY <1>4 DEF EventInv, EventsTake
  <1>5. QED
    BY <1>1, <1>2, <1>3, <1>4 DEF Reading

\* xdma_isr() keeps EventInv: it sets the flag and wakes every sleeper.
LEMMA IsrStep == ASSUME EventInv, XdmaIsr PROVE EventInv'
  <1>1. CASE user_irq /\ ~events_irq
    <2>1. /\ events_irq' = TRUE
          /\ reader' = [r \in Readers |-> Woken(r)]
      BY <1>1 DEF XdmaIsr, UserIrqService
    <2>2. \A r \in Readers : Woken(r) \in {"idle", "wait", "take"}
      BY DEF EventInv, Woken
    <2>3. user_irq' \in BOOLEAN /\ unseen' \in BOOLEAN
      BY DEF XdmaIsr, EventInv
    <2>4. QED
      BY <2>1, <2>2, <2>3 DEF EventInv
  <1>2. CASE ~(user_irq /\ ~events_irq)
    BY <1>2 DEF EventInv, XdmaIsr, UserIrqService
  <1>3. QED
    BY <1>1, <1>2

\* What does not touch the events keeps EventInv.
LEMMA EventFrame == ASSUME EventInv, UNCHANGED event_vars PROVE EventInv'
  BY DEF EventInv, event_vars

\* Every step keeps EventInv.
LEMMA EventStep == EventInv /\ [Next]_vars => EventInv'
  <1> SUFFICES ASSUME EventInv, [Next]_vars PROVE EventInv'
    OBVIOUS
  <1>1. CASE UNCHANGED vars
    BY <1>1, EventFrame DEF vars
  <1>2. ASSUME NEW i \in Iocbs, AioRequest(i) \/ AioSubmit(i) \/ AioReap(i)
        PROVE  EventInv'
    <2>1. UNCHANGED event_vars
      BY <1>2 DEF AioRequest, AioSubmit, AioQueue, AioMisaligned, AioReap
    <2>2. QED
      BY <2>1, EventFrame
  <1>3. ASSUME NEW a \in Admins, Perform(a)
        PROVE  EventInv'
    <2>1. UNCHANGED event_vars
      BY <1>3 DEF Perform, PerfStart, PerfAlloc, PerfSubmit, PerfStop, PerfHalt,
                  PerfStats, PerfFree, PerfNull, PerfGet, PerfGetStats, Begin
    <2>2. QED
      BY <2>1, EventFrame
  <1>4. ASSUME NEW r \in Readers, Reading(r)
        PROVE  EventInv'
    BY <1>4, ReaderStep
  <1>5. CASE XdmaIsr
    BY <1>5, IsrStep
  <1>6. CASE Service \/ HwDone
    <2>1. UNCHANGED event_vars
      BY <1>6 DEF Service, ServiceBegin, ServicePerf, ServicePerfUse, ServiceFinal,
                  HwDone
    <2>2. QED
      BY <2>1, EventFrame
  <1>7. CASE HwUserIrq
    BY <1>7 DEF EventInv, HwUserIrq
  <1>8. CASE Halted
    BY <1>8, <1>1 DEF Halted
  <1>9. QED
    BY <1>1, <1>2, <1>3, <1>4, <1>5, <1>6, <1>7, <1>8 DEF Next, Perform, Reading

\* No user interrupt is lost, for any number of readers of the events node:
\* one that no read() has reported is pending, and no reader sleeps on it.
THEOREM NoLostEvent == Spec => []EventsNotLost
  <1>1. Init => EventInv
    BY DEF Init, EventInv
  <1>2. EventInv => EventsNotLost
    BY DEF EventInv, EventsNotLost
  <1>3. QED
    BY <1>1, <1>2, EventStep, PTL DEF Spec

(***************************************************************************)
(* The engine: how the interrupt, the work, the service routine and the    *)
(* hardware take turns.                                                    *)
(***************************************************************************)
Serving == svc \in {"perf", "use", "final"}

\* One stop of the hardware gives one interrupt, one work item and one run of
\* the service routine, and outside of it the engine runs exactly while
\* something is queued.
EngineInv ==
  /\ hw \in {"idle", "run", "done"}
  /\ running \in BOOLEAN /\ idle_irq \in BOOLEAN
  /\ ch_irq \in BOOLEAN /\ work \in BOOLEAN
  /\ svc \in {"idle", "perf", "use", "final", "broken"}
  /\ transfer_list \in Seq([owner : Iocbs \cup {Perf}, last_in_request : BOOLEAN])
  /\ ~(ch_irq /\ work)
  /\ ch_irq \/ work => running /\ svc = "idle" /\ hw # "run"
  /\ hw = "run" => running /\ svc = "idle"
  /\ svc = "idle" => (running <=> transfer_list # <<>>)
  /\ Serving => ~running /\ transfer_list # <<>>

\* What does not touch the engine keeps EngineInv.
LEMMA EngineFrame ==
  ASSUME EngineInv, UNCHANGED <<engine_vars, irq_vars>> PROVE EngineInv'
  BY DEF EngineInv, engine_vars, irq_vars, Serving

\* transfer_queue() keeps EngineInv.
LEMMA QueueStep ==
  ASSUME EngineInv, UNCHANGED irq_vars,
         NEW x \in [owner : Iocbs \cup {Perf}, last_in_request : BOOLEAN], Queue(x)
  PROVE  EngineInv'
  <1>1. /\ transfer_list' = Append(transfer_list, x)
        /\ transfer_list' \in Seq([owner : Iocbs \cup {Perf},
                                   last_in_request : BOOLEAN])
        /\ transfer_list' # <<>>
    BY DEF Queue, EngineInv
  <1>2. QED
    BY <1>1 DEF Queue, Started, Unlocked, EngineInv, irq_vars, Serving

\* The steps of the service routine keep EngineInv.
LEMMA ServiceStep == ASSUME EngineInv, Service PROVE EngineInv'
  <1>1. CASE ServiceBegin
    BY <1>1 DEF ServiceBegin, Unlocked, EngineInv, Serving
  <1>2. CASE ServicePerf \/ ServicePerfUse
    BY <1>2 DEF ServicePerf, ServicePerfUse, EngineInv, Serving, engine_vars
  <1>3. CASE ServiceFinal
    <2>1. transfer_list' = Tail(transfer_list)
      BY <1>3 DEF ServiceFinal, Dequeue
    <2>2. transfer_list # <<>>
      BY <1>3 DEF ServiceFinal, EngineInv, Serving
    <2>3. transfer_list' \in Seq([owner : Iocbs \cup {Perf},
                                 last_in_request : BOOLEAN])
      BY <2>1, <2>2 DEF EngineInv
    <2>4. CASE transfer_list' # <<>>
      BY <1>3, <2>3, <2>4 DEF ServiceFinal, Dequeue, MustRestart, Started,
                                 EngineInv, Serving
    <2>5. CASE transfer_list' = <<>>
      BY <1>3, <2>3, <2>5 DEF ServiceFinal, Dequeue, MustRestart, Started,
                                 EngineInv, Serving
    <2>6. QED
      BY <2>4, <2>5
  <1>4. QED
    BY <1>1, <1>2, <1>3 DEF Service

\* Every step keeps EngineInv.
LEMMA EngineStep == EngineInv /\ [Next]_vars => EngineInv'
  <1> SUFFICES ASSUME EngineInv, [Next]_vars PROVE EngineInv'
    OBVIOUS
  <1>1. CASE UNCHANGED vars
    BY <1>1, EngineFrame DEF vars
  <1>2. ASSUME NEW i \in Iocbs, AioRequest(i) \/ AioSubmit(i) \/ AioReap(i)
        PROVE  EngineInv'
    <2>1. CASE AioQueue(i)
      <3>1. PICK l \in BOOLEAN : Queue([owner |-> i, last_in_request |-> l])
        BY <2>1 DEF AioQueue
      <3>2. UNCHANGED irq_vars
        BY <2>1 DEF AioQueue
      <3>3. QED
        BY <3>1, <3>2, QueueStep
    <2>2. CASE AioRequest(i) \/ AioMisaligned(i) \/ AioReap(i)
      <3>1. UNCHANGED <<engine_vars, irq_vars>>
        BY <2>2 DEF AioRequest, AioMisaligned, AioReap
      <3>2. QED
        BY <3>1, EngineFrame
    <2>3. QED
      BY <1>2, <2>1, <2>2 DEF AioSubmit
  <1>3. ASSUME NEW a \in Admins, Perform(a)
        PROVE  EngineInv'
    <2>1. CASE PerfSubmit(a)
      BY <2>1, QueueStep DEF PerfSubmit
    <2>2. CASE PerfHalt(a)
      BY <2>2 DEF PerfHalt, HwStopped, EngineInv, Serving
    <2>3. CASE ~PerfSubmit(a) /\ ~PerfHalt(a)
      <3>1. UNCHANGED <<engine_vars, irq_vars>>
        BY <1>3, <2>3 DEF Perform, PerfStart, PerfAlloc, PerfStop, PerfStats, PerfFree,
                          PerfNull, PerfGet, PerfGetStats, Begin
      <3>2. QED
        BY <3>1, EngineFrame
    <2>4. QED
      BY <2>1, <2>2, <2>3
  <1>4. ASSUME NEW r \in Readers, Reading(r)
        PROVE  EngineInv'
    <2>1. UNCHANGED <<engine_vars, irq_vars>>
      BY <1>4 DEF Reading, EventsRead, EventsWait, EventsSignal, EventsTake
    <2>2. QED
      BY <2>1, EngineFrame
  <1>5. CASE XdmaIsr
    BY <1>5 DEF XdmaIsr, EngineInv, Serving, engine_vars
  <1>6. CASE Service
    BY <1>6, ServiceStep
  <1>7. CASE HwDone
    BY <1>7 DEF HwDone, EngineInv, Serving
  <1>8. CASE HwUserIrq
    <2>1. UNCHANGED <<engine_vars, irq_vars>>
      BY <1>8 DEF HwUserIrq
    <2>2. QED
      BY <2>1, EngineFrame
  <1>9. CASE Halted
    BY <1>9, <1>1 DEF Halted
  <1>10. QED
    BY <1>1, <1>2, <1>3, <1>4, <1>5, <1>6, <1>7, <1>8, <1>9
       DEF Next, Perform, Reading

LEMMA EngineInit == Init => EngineInv
<1>1. \A S : <<>> \in Seq(S)
  OBVIOUS
<1>2. Init => transfer_list \in Seq([owner : Iocbs \cup {Perf}, last_in_request : BOOLEAN])
  BY <1>1, Zenon DEF Init
<1>3. Init => /\ hw = "idle" /\ svc = "idle" /\ running = FALSE /\ idle_irq \in BOOLEAN
              /\ ch_irq = FALSE /\ work = FALSE /\ transfer_list = <<>>
  BY DEF Init
<1>4. QED BY <1>2, <1>3 DEF EngineInv, Serving

(***************************************************************************)
(* Performance runs.                                                       *)
(***************************************************************************)

\* Unless ioctls overlapped: one thread at a time is in them, what it found of
\* xdma_perf is still true, and freed memory is pointed to only between kfree()
\* and the reset of the pointer.
PerfInv ==
  /\ \A a, b \in Admins : admin[a] # "idle" /\ admin[b] # "idle" => a = b
  /\ \A a \in Admins :
       /\ admin[a] # "broken"
       /\ admin[a] = "alloc" => xdma_perf = "null"
       /\ admin[a] \in {"submit", "stop", "stats", "free", "get"} =>
            xdma_perf = "live"
       /\ admin[a] = "null" => xdma_perf = "freed"
  /\ xdma_perf = "freed" => \E a \in Admins : admin[a] = "null"

SafeInv ==
  /\ admin \in [Admins -> {"idle", "alloc", "submit", "stop", "stats", "free",
                          "null", "get", "broken"}]
  /\ xdma_perf \in {"null", "live", "freed"}
  /\ overlapped \in BOOLEAN
  /\ overlapped \/ PerfInv

\* What the ioctls have no part in keeps SafeInv.
LEMMA SafeFrame ==
  ASSUME SafeInv, UNCHANGED <<perf_vars, overlapped>> PROVE SafeInv'
  BY DEF SafeInv, PerfInv, perf_vars

\* Each step of the ioctls keeps SafeInv.
LEMMA PerformStep ==
  ASSUME SafeInv, NEW a \in Admins, Perform(a) PROVE SafeInv'
  <1>1. CASE PerfStart(a)
    BY <1>1 DEF PerfStart, Begin, Step, SafeInv, PerfInv, irq_vars
  <1>2. CASE PerfStop(a)
    BY <1>2 DEF PerfStop, Begin, Step, SafeInv, PerfInv, irq_vars
  <1>3. CASE PerfGet(a)
    BY <1>3 DEF PerfGet, Begin, Step, SafeInv, PerfInv, irq_vars
  <1>4. CASE PerfAlloc(a)
    BY <1>4 DEF PerfAlloc, Step, SafeInv, PerfInv, irq_vars
  <1>5. CASE PerfSubmit(a)
    BY <1>5 DEF PerfSubmit, Deref, Step, SafeInv, PerfInv, irq_vars
  <1>6. CASE PerfHalt(a)
    BY <1>6 DEF PerfHalt, Step, SafeInv, PerfInv
  <1>7. CASE PerfStats(a)
    BY <1>7 DEF PerfStats, Deref, Step, SafeInv, PerfInv, irq_vars
  <1>8. CASE PerfFree(a)
    BY <1>8 DEF PerfFree, Unlocked, Step, SafeInv, PerfInv, irq_vars
  <1>9. CASE PerfNull(a)
    BY <1>9 DEF PerfNull, PointerCleared, Step, SafeInv, PerfInv, irq_vars
  <1>10. CASE PerfGetStats(a)
    BY <1>10 DEF PerfGetStats, Deref, Step, SafeInv, PerfInv, irq_vars
  <1>11. QED
    BY <1>1, <1>2, <1>3, <1>4, <1>5, <1>6, <1>7, <1>8, <1>9, <1>10 DEF Perform

\* Every step keeps SafeInv.
LEMMA SafeStep == SafeInv /\ [Next]_vars => SafeInv'
  <1> SUFFICES ASSUME SafeInv, [Next]_vars PROVE SafeInv'
    OBVIOUS
  <1>1. CASE UNCHANGED vars
    BY <1>1, SafeFrame DEF vars, irq_vars
  <1>2. ASSUME NEW i \in Iocbs, AioRequest(i) \/ AioSubmit(i) \/ AioReap(i)
        PROVE  SafeInv'
    <2>1. UNCHANGED <<perf_vars, overlapped>>
      BY <1>2 DEF AioRequest, AioSubmit, AioQueue, AioMisaligned, AioReap, irq_vars
    <2>2. QED
      BY <2>1, SafeFrame
  <1>3. ASSUME NEW a \in Admins, Perform(a)
        PROVE  SafeInv'
    BY <1>3, PerformStep
  <1>4. ASSUME NEW r \in Readers, Reading(r)
        PROVE  SafeInv'
    <2>1. UNCHANGED <<perf_vars, overlapped>>
      BY <1>4 DEF Reading, EventsRead, EventsWait, EventsSignal, EventsTake, irq_vars
    <2>2. QED
      BY <2>1, SafeFrame
  <1>5. CASE Service
    <2>1. UNCHANGED <<perf_vars, overlapped>>
      BY <1>5 DEF Service, ServiceBegin, ServicePerf, ServicePerfUse, ServiceFinal
    <2>2. QED
      BY <2>1, SafeFrame
  <1>6. CASE XdmaIsr \/ HwDone \/ HwUserIrq
    <2>1. UNCHANGED <<perf_vars, overlapped>>
      BY <1>6 DEF XdmaIsr, HwDone, HwUserIrq
    <2>2. QED
      BY <2>1, SafeFrame
  <1>7. CASE Halted
    BY <1>7, <1>1 DEF Halted
  <1>8. QED
    BY <1>1, <1>2, <1>3, <1>4, <1>5, <1>6, <1>7 DEF Next, Perform, Reading

\* For any number of threads and asynchronous requests, PERF ioctls that do not
\* overlap never use or free xdma_perf twice among themselves and leave no
\* pointer to freed memory behind; and, overlapping or not, they never make the
\* service routine meet an empty list.  That a single stop frees the memory
\* under the service routine is not excluded (PerfStopWaits is violated).
THEOREM PerfMemorySafe == Spec => []PerfIoctlsSafe
  <1>1. Init => SafeInv /\ EngineInv
    <2>1. Init => SafeInv
      BY DEF Init, SafeInv, PerfInv
    <2>2. Init => EngineInv
      BY EngineInit
    <2>3. QED
      BY <2>1, <2>2
  <1>2. SafeInv /\ EngineInv => PerfIoctlsSafe
    BY DEF SafeInv, PerfInv, EngineInv, PerfIoctlsSafe
  <1>3. SafeInv /\ EngineInv /\ [Next]_vars => SafeInv' /\ EngineInv'
    BY SafeStep, EngineStep
  <1>4. QED
    BY <1>1, <1>2, <1>3, PTL DEF Spec

(***************************************************************************)
(* Asynchronous requests: what is queued, executed and completed.          *)
(***************************************************************************)

\* How many members of P the sequence s holds.
Count(s, P) == Cardinality({k \in 1 .. Len(s) : s[k] \in P})

LEMMA CountNat ==
  ASSUME NEW S, NEW s \in Seq(S), NEW P
  PROVE  /\ Count(s, P) \in Nat
         /\ IsFiniteSet({k \in 1 .. Len(s) : s[k] \in P})
         /\ Count(s, P) = 0 <=> \A k \in 1 .. Len(s) : s[k] \notin P
<1> DEFINE C == {k \in 1 .. Len(s) : s[k] \in P}
<1>1. IsFiniteSet(C)
  BY FS_Interval, FS_Subset
<1>2. Cardinality(C) \in Nat /\ (Cardinality(C) = 0 <=> C = {})
  BY <1>1, FS_CardinalityType, FS_EmptySet
<1>3. QED BY <1>1, <1>2 DEF Count

LEMMA CountAppend ==
  ASSUME NEW S, NEW s \in Seq(S), NEW x \in S, NEW P
  PROVE  Count(Append(s, x), P) = Count(s, P) + (IF x \in P THEN 1 ELSE 0)
<1> DEFINE C == {k \in 1 .. Len(s) : s[k] \in P}
           D == {k \in 1 .. Len(Append(s, x)) : Append(s, x)[k] \in P}
           n == Len(s) + 1
<1>1. n \notin C
  OBVIOUS
<1>a. IsFiniteSet(C) /\ Cardinality(C) \in Nat
  BY CountNat DEF Count
<1>2. D = IF x \in P THEN C \cup {n} ELSE C
  OBVIOUS
<1>3. Cardinality(C \cup {n}) = Cardinality(C) + 1
  BY <1>1, <1>a, FS_AddElement
<1>4. Count(s, P) = Cardinality(C) /\ Count(Append(s, x), P) = Cardinality(D)
  BY DEF Count
<1> HIDE DEF C, D
<1>5. QED BY <1>a, <1>2, <1>3, <1>4

LEMMA CountTail ==
  ASSUME NEW S, NEW s \in Seq(S), s # <<>>, NEW P
  PROVE  Count(s, P) = Count(Tail(s), P) + (IF Head(s) \in P THEN 1 ELSE 0)
<1> DEFINE C == {k \in 1 .. Len(s) : s[k] \in P}
           T == {k \in 1 .. Len(Tail(s)) : Tail(s)[k] \in P}
           U == {k \in 2 .. Len(s) : s[k] \in P}
           f == [k \in T |-> k + 1]
<1>1. IsFiniteSet(T) /\ Cardinality(T) \in Nat
  <2>1. Tail(s) \in Seq(S)
    OBVIOUS
  <2>2. QED BY <2>1, CountNat DEF Count
<1>2. T = {k \in 1 .. Len(s) - 1 : s[k + 1] \in P}
  OBVIOUS
<1>3. f \in Injection(T, U)
  BY <1>2 DEF Injection, IsInjective
<1>4. \A u \in U : u - 1 \in T /\ f[u - 1] = u
  BY <1>2
<1>5. f \in Bijection(T, U)
  BY <1>3, <1>4 DEF Bijection, Surjection, Injection
<1>6. IsFiniteSet(U) /\ Cardinality(U) = Cardinality(T)
  <2>1. ExistsBijection(T, U)
    BY <1>5 DEF ExistsBijection
  <2> HIDE DEF T, U
  <2>2. QED BY <1>1, <2>1, FS_Bijection
<1>7. C = (IF Head(s) \in P THEN U \cup {1} ELSE U) /\ 1 \notin U
  OBVIOUS
<1>8. Cardinality(U \cup {1}) = Cardinality(U) + 1
  BY <1>6, <1>7, FS_AddElement
<1>9. Count(s, P) = Cardinality(C) /\ Count(Tail(s), P) = Cardinality(T)
  BY DEF Count
<1> HIDE DEF C, T, U
<1>10. QED BY <1>1, <1>6, <1>7, <1>8, <1>9

Entries == [owner : Iocbs \cup {Perf}, last_in_request : BOOLEAN]

\* The transfers of request i, and those that complete it.
Own(i) == {x \in Entries : x.owner = i}
Last(i) == {x \in Own(i) : x.last_in_request}

Waiting(i) == Count(transfer_list, Own(i))
Completing(i) == Count(transfer_list, Last(i))

\* The first transfer of the list, if it is one of i, was executed.
HeadDone(i) ==
  IF hw = "done" /\ transfer_list # <<>> /\ Head(transfer_list).owner = i THEN 1 ELSE 0

\* Every transfer of i on the list is followed by one that completes i.
EndsInLast(i) ==
  \A k \in 1 .. Len(transfer_list) :
    transfer_list[k].owner = i => \E m \in k .. Len(transfer_list) : transfer_list[m] \in Last(i)

\* How many transfers of i were queued, and how many of them complete it: at
\* most, after a misaligned segment.
Queued(i) ==
  CASE aio[i].pc = "idle"   -> 0
    [] aio[i].pc = "submit" -> (aio[i].seg - 1) * aio[i].shape[2] + (aio[i].chunk - 1)
    [] aio[i].pc = "queued" -> aio[i].shape[1] * aio[i].shape[2]

Segments(i) ==
  CASE aio[i].pc = "idle"   -> 0
    [] aio[i].pc = "submit" -> aio[i].seg - 1
    [] aio[i].pc = "queued" -> aio[i].shape[1]

Requests == [pc : {"idle", "submit", "queued"}, shape : (Nat \ {0}) \X (Nat \ {0}),
             seg : Nat, chunk : Nat]

AioType ==
  /\ aio \in [Iocbs -> Requests]
  /\ executed \in [Iocbs -> Nat]
  /\ completed \in [Iocbs -> Nat]
  /\ misdirected \in BOOLEAN
  /\ \A i \in Iocbs :
       /\ aio[i].shape \in Shapes \cup {<<1, 1>>}
       /\ aio[i].seg \in 1 .. aio[i].shape[1]
       /\ aio[i].chunk \in 1 .. aio[i].shape[2]

\* Nothing is executed or completed that was not queued.
Counts(i) ==
  /\ executed[i] + Waiting(i) <= Queued(i) + HeadDone(i)
  /\ completed[i] + Completing(i) <= Segments(i)

\* A request that has queued nothing has nothing on the list.
Unqueued(i) ==
  \/ aio[i].pc = "idle"
  \/ aio[i].pc = "submit" /\ aio[i].seg = 1 /\ aio[i].chunk = 1

Fresh(i) == Unqueued(i) => ~Listed(i) /\ executed[i] = 0

\* A request of one segment: its completion is still on the list, at the end
\* of its transfers, or was done, and each of its transfers was executed or
\* still will be.
Single(i) ==
  aio[i].shape[1] = 1 =>
    /\ aio[i].pc = "queued" => completed[i] + Completing(i) = 1 /\ EndsInLast(i)
    /\ ~misdirected =>
         \/ executed[i] + Waiting(i) = Queued(i) + HeadDone(i)
         \/ aio[i].pc = "queued" /\ executed[i] = 0 /\ ~Listed(i)

RequestInv(i) == Counts(i) /\ Fresh(i) /\ Single(i)

\* Only a misdirected stop leaves a transfer of a request halted.
HeadRuns ==
  ~misdirected /\ transfer_list # <<>> /\ Head(transfer_list).owner # Perf => hw # "idle"

AioInv ==
  /\ EngineInv
  /\ AioType
  /\ HeadRuns
  /\ \A i \in Iocbs : RequestInv(i)

\* The counts of the list.
LEMMA ListFacts ==
  ASSUME EngineInv, NEW i \in Iocbs
  PROVE  /\ Waiting(i) \in Nat /\ Completing(i) \in Nat /\ HeadDone(i) \in {0, 1}
         /\ HeadDone(i) <= Waiting(i)
         /\ Listed(i) <=> Waiting(i) # 0
         /\ ~Listed(i) => Completing(i) = 0
         /\ EndsInLast(i) /\ Completing(i) = 0 => ~Listed(i)
<1>1. transfer_list \in Seq(Entries)
  BY DEF EngineInv, Entries
<1>2. /\ Waiting(i) \in Nat
      /\ Waiting(i) = 0 <=> \A k \in 1 .. Len(transfer_list) : transfer_list[k] \notin Own(i)
  BY <1>1, CountNat DEF Waiting
<1>3. /\ Completing(i) \in Nat
      /\ Completing(i) = 0 <=> \A k \in 1 .. Len(transfer_list) : transfer_list[k] \notin Last(i)
  BY <1>1, CountNat DEF Completing
<1>4. \A k \in 1 .. Len(transfer_list) :
        /\ transfer_list[k] \in Own(i) <=> transfer_list[k].owner = i
        /\ transfer_list[k] \in Last(i) => transfer_list[k].owner = i
  BY <1>1 DEF Own, Last
<1>5. Listed(i) <=> Waiting(i) # 0
  BY <1>2, <1>4 DEF Listed
<1>6. ~Listed(i) => Completing(i) = 0
  BY <1>3, <1>4 DEF Listed
<1>7. EndsInLast(i) /\ Completing(i) = 0 => ~Listed(i)
  <2> SUFFICES ASSUME EndsInLast(i), Completing(i) = 0,
                      NEW k \in 1 .. Len(transfer_list), transfer_list[k].owner = i
               PROVE  FALSE
    BY DEF Listed
  <2>1. PICK m \in k .. Len(transfer_list) : transfer_list[m] \in Last(i)
    BY DEF EndsInLast
  <2>2. Len(transfer_list) \in Nat
    BY <1>1
  <2>3. m \in 1 .. Len(transfer_list)
    BY <2>1, <2>2
  <2>4. QED BY <1>3, <2>1, <2>3
<1>8. HeadDone(i) \in {0, 1} /\ (HeadDone(i) = 1 => Listed(i))
  <2>1. HeadDone(i) \in {0, 1}
    BY DEF HeadDone
  <2>2. ASSUME transfer_list # <<>> /\ Head(transfer_list).owner = i PROVE Listed(i)
    <3>1. 1 \in 1 .. Len(transfer_list) /\ transfer_list[1] = Head(transfer_list)
      BY <1>1, <2>2
    <3>2. QED BY <2>2, <3>1 DEF Listed
  <2>3. QED BY <2>1, <2>2 DEF HeadDone
<1>9. HeadDone(i) <= Waiting(i)
  BY <1>2, <1>5, <1>8
<1>10. QED BY <1>2, <1>3, <1>5, <1>6, <1>7, <1>8, <1>9

\* transfer_queue() adds one transfer at the end.
LEMMA QueueFacts ==
  ASSUME EngineInv, NEW x \in Entries, Queue(x), NEW i \in Iocbs
  PROVE  /\ Waiting(i)' = Waiting(i) + (IF x.owner = i THEN 1 ELSE 0)
         /\ Completing(i)' = Completing(i)
                              + (IF x.owner = i /\ x.last_in_request THEN 1 ELSE 0)
         /\ HeadDone(i)' = HeadDone(i)
         /\ x.owner # i /\ ~Listed(i) => ~Listed(i)'
         /\ x.owner # i /\ EndsInLast(i) => EndsInLast(i)'
         /\ x.owner = i /\ x.last_in_request => EndsInLast(i)'
<1>1. transfer_list \in Seq(Entries)
  BY DEF EngineInv, Entries
<1>2. transfer_list' = Append(transfer_list, x)
  BY DEF Queue
<1>3. (x \in Own(i) <=> x.owner = i) /\ (x \in Last(i) <=> x.owner = i /\ x.last_in_request)
  BY DEF Own, Last
<1>4. Waiting(i)' = Waiting(i) + (IF x.owner = i THEN 1 ELSE 0)
  <2>1. Waiting(i)' = Count(Append(transfer_list, x), Own(i))
    BY <1>2 DEF Waiting, Own, Entries
  <2>2. QED BY <1>1, <1>3, <2>1, CountAppend DEF Waiting
<1>5. Completing(i)' = Completing(i) + (IF x.owner = i /\ x.last_in_request THEN 1 ELSE 0)
  <2>1. Completing(i)' = Count(Append(transfer_list, x), Last(i))
    BY <1>2 DEF Completing, Last, Own, Entries
  <2>2. QED BY <1>1, <1>3, <2>1, CountAppend DEF Completing
<1>6. HeadDone(i)' = HeadDone(i)
  <2>1. CASE transfer_list = <<>>
    <3>1. ~running /\ hw' = "run"
      BY <2>1 DEF Queue, Unlocked, EngineInv
    <3>2. QED BY <2>1, <3>1 DEF HeadDone
  <2>2. CASE transfer_list # <<>>
    <3>1. running /\ hw' = hw
      BY <2>2 DEF Queue, Unlocked, EngineInv
    <3>2. Head(transfer_list') = Head(transfer_list) /\ transfer_list' # <<>>
      BY <1>1, <1>2, <2>2
    <3>3. QED BY <2>2, <3>1, <3>2 DEF HeadDone
  <2>3. QED BY <2>1, <2>2
<1>7. /\ Len(transfer_list) \in Nat /\ Len(transfer_list') = Len(transfer_list) + 1
      /\ \A k \in 1 .. Len(transfer_list) : transfer_list'[k] = transfer_list[k]
      /\ transfer_list'[Len(transfer_list) + 1] = x
  BY <1>1, <1>2
<1>8. \A k \in 1 .. Len(transfer_list') :
        k \in 1 .. Len(transfer_list) \/ k = Len(transfer_list) + 1
  BY <1>7
<1>9. x.owner # i /\ ~Listed(i) => ~Listed(i)'
  BY <1>7, <1>8 DEF Listed
<1>10. ASSUME x.owner # i, EndsInLast(i) PROVE EndsInLast(i)'
  <2> SUFFICES ASSUME NEW k \in 1 .. Len(transfer_list'), transfer_list'[k].owner = i
               PROVE  \E m \in k .. Len(transfer_list') : transfer_list'[m] \in Last(i)
    BY DEF EndsInLast, Last, Own, Entries
  <2>1. k \in 1 .. Len(transfer_list) /\ transfer_list[k].owner = i
    BY <1>7, <1>8, <1>10
  <2>2. PICK m \in k .. Len(transfer_list) : transfer_list[m] \in Last(i)
    BY <1>10, <2>1 DEF EndsInLast
  <2>3. m \in 1 .. Len(transfer_list) /\ m \in k .. Len(transfer_list')
    BY <1>7, <2>1, <2>2
  <2>4. QED BY <1>7, <2>2, <2>3
<1>11. ASSUME x.owner = i, x.last_in_request PROVE EndsInLast(i)'
  <2>1. transfer_list'[Len(transfer_list')] \in Last(i)
    BY <1>3, <1>7, <1>11
  <2>2. \A k \in 1 .. Len(transfer_list') : Len(transfer_list') \in k .. Len(transfer_list')
    BY <1>7
  <2>3. QED BY <2>1, <2>2 DEF EndsInLast, Last, Own, Entries
<1>12. QED BY <1>4, <1>5, <1>6, <1>9, <1>10, <1>11

\* The service routine takes the first transfer off the list.
LEMMA FinalFacts ==
  ASSUME AioInv, ServiceFinal, NEW i \in Iocbs
  PROVE  LET x == Head(transfer_list) IN
         /\ Waiting(i) = Waiting(i)' + (IF x.owner = i THEN 1 ELSE 0)
         /\ Completing(i) = Completing(i)'
                             + (IF x.owner = i /\ x.last_in_request THEN 1 ELSE 0)
         /\ completed'[i] = completed[i]
                             + (IF x.owner = i /\ x.last_in_request THEN 1 ELSE 0)
         /\ HeadDone(i)' = 0
         /\ x.owner # i => HeadDone(i) = 0
         /\ x.owner = i /\ ~misdirected => HeadDone(i) = 1
         /\ ~Listed(i) => ~Listed(i)' /\ x.owner # i
         /\ EndsInLast(i) => EndsInLast(i)'
<1> DEFINE x == Head(transfer_list)
<1>1. transfer_list \in Seq(Entries) /\ transfer_list # <<>>
  BY DEF AioInv, EngineInv, Entries, Serving, ServiceFinal
<1>2. transfer_list' = Tail(transfer_list) /\ x \in Entries
  BY <1>1 DEF ServiceFinal, Dequeue
<1>3. (x \in Own(i) <=> x.owner = i) /\ (x \in Last(i) <=> x.owner = i /\ x.last_in_request)
  BY <1>2 DEF Own, Last
<1>4. Waiting(i) = Waiting(i)' + (IF x.owner = i THEN 1 ELSE 0)
  <2>1. Waiting(i)' = Count(Tail(transfer_list), Own(i))
    BY <1>2 DEF Waiting, Own, Entries
  <2>2. QED BY <1>1, <1>3, <2>1, CountTail DEF Waiting
<1>5. Completing(i) = Completing(i)' + (IF x.owner = i /\ x.last_in_request THEN 1 ELSE 0)
  <2>1. Completing(i)' = Count(Tail(transfer_list), Last(i))
    BY <1>2 DEF Completing, Last, Own, Entries
  <2>2. QED BY <1>1, <1>3, <2>1, CountTail DEF Completing
<1>6. completed'[i] = completed[i] + (IF x.owner = i /\ x.last_in_request THEN 1 ELSE 0)
  BY AsyncAssumption DEF ServiceFinal, Completes
<1>7. ~running /\ hw # "run"
  BY DEF AioInv, EngineInv, Serving, ServiceFinal
<1>8. transfer_list' = <<>> \/ hw' = "run"
  BY <1>7 DEF ServiceFinal, MustRestart, Dequeue
<1>9. HeadDone(i)' = 0 /\ (x.owner # i => HeadDone(i) = 0)
  BY <1>8 DEF HeadDone
<1>10. ASSUME x.owner = i, ~misdirected PROVE HeadDone(i) = 1
  <2>1. hw # "idle"
    BY <1>1, <1>10, AsyncAssumption DEF AioInv, HeadRuns
  <2>2. hw = "done"
    BY <1>7, <2>1 DEF AioInv, EngineInv
  <2>3. QED BY <1>1, <1>10, <2>2 DEF HeadDone
<1>11. /\ Len(transfer_list) \in Nat \ {0} /\ Len(transfer_list') = Len(transfer_list) - 1
       /\ \A k \in 1 .. Len(transfer_list') : transfer_list'[k] = transfer_list[k + 1]
       /\ transfer_list[1] = x
  BY <1>1, <1>2
<1>12. \A k \in 1 .. Len(transfer_list') : k + 1 \in 1 .. Len(transfer_list)
  BY <1>11
<1>13. ASSUME ~Listed(i) PROVE ~Listed(i)' /\ x.owner # i
  <2>1. ~Listed(i)'
    BY <1>11, <1>12, <1>13 DEF Listed
  <2>2. 1 \in 1 .. Len(transfer_list)
    BY <1>11
  <2>3. QED BY <1>11, <1>13, <2>1, <2>2 DEF Listed
<1>14. ASSUME EndsInLast(i) PROVE EndsInLast(i)'
  <2> SUFFICES ASSUME NEW k \in 1 .. Len(transfer_list'), transfer_list'[k].owner = i
               PROVE  \E m \in k .. Len(transfer_list') : transfer_list'[m] \in Last(i)
    BY DEF EndsInLast, Last, Own, Entries
  <2>1. k + 1 \in 1 .. Len(transfer_list) /\ transfer_list[k + 1].owner = i
    BY <1>11, <1>12
  <2>2. PICK m \in k + 1 .. Len(transfer_list) : transfer_list[m] \in Last(i)
    BY <1>14, <2>1 DEF EndsInLast
  <2>3. m - 1 \in k .. Len(transfer_list') /\ m - 1 \in 1 .. Len(transfer_list')
        /\ (m - 1) + 1 = m
    BY <1>11, <2>1, <2>2
  <2>4. transfer_list'[m - 1] \in Last(i)
    BY <1>11, <2>2, <2>3
  <2>5. QED BY <2>3, <2>4
<1>15. QED BY <1>4, <1>5, <1>6, <1>9, <1>10, <1>13, <1>14

\* What is said of a request depends on the request itself.
LEMMA RequestFrame ==
  ASSUME NEW i \in Iocbs, aio'[i] = aio[i]
  PROVE  /\ Queued(i)' = Queued(i) /\ Segments(i)' = Segments(i)
         /\ Unqueued(i)' <=> Unqueued(i)
BY DEF Queued, Segments, Unqueued

\* The requests and their counts are numbers of the right size.
LEMMA RequestTypes ==
  ASSUME AioType, NEW i \in Iocbs
  PROVE  /\ aio[i] \in Requests /\ aio[i].shape[1] \in Nat \ {0}
         /\ aio[i].shape[2] \in Nat \ {0} /\ aio[i].seg \in Nat \ {0}
         /\ aio[i].chunk \in Nat \ {0}
         /\ executed[i] \in Nat /\ completed[i] \in Nat
         /\ Queued(i) \in Int /\ Segments(i) \in Int
<1>1. aio[i] \in Requests
  BY DEF AioType
<1>2. aio[i].shape \in (Nat \ {0}) \X (Nat \ {0}) /\ aio[i].seg \in Nat
      /\ aio[i].chunk \in Nat /\ aio[i].pc \in {"idle", "submit", "queued"}
  BY <1>1 DEF Requests
<1>3. aio[i].shape[1] \in Nat \ {0} /\ aio[i].shape[2] \in Nat \ {0}
  BY <1>2
<1>4. aio[i].seg \in Nat \ {0} /\ aio[i].chunk \in Nat \ {0}
  BY <1>2, <1>3 DEF AioType
<1>5. executed[i] \in Nat /\ completed[i] \in Nat
  BY DEF AioType
<1>6. Segments(i) \in Int
  BY <1>2, <1>3, <1>4 DEF Segments
<1>7. Queued(i) \in Int
  <2>1. CASE aio[i].pc = "idle"
    BY <2>1 DEF Queued
  <2>2. CASE aio[i].pc = "submit"
    BY <1>3, <1>4, <2>2 DEF Queued
  <2>3. CASE aio[i].pc = "queued"
    BY <1>3, <2>3 DEF Queued
  <2>4. QED BY <1>2, <2>1, <2>2, <2>3
<1>8. QED BY <1>1, <1>3, <1>4, <1>5, <1>6, <1>7

\* What a request sees of a list that did not change.
LEMMA SameList ==
  ASSUME NEW i \in Iocbs, transfer_list' = transfer_list, hw' = hw
  PROVE  /\ Waiting(i)' = Waiting(i) /\ Completing(i)' = Completing(i)
         /\ HeadDone(i)' = HeadDone(i)
         /\ Listed(i)' <=> Listed(i)
         /\ EndsInLast(i)' <=> EndsInLast(i)
<1>1. /\ Waiting(i)' = Waiting(i) /\ Completing(i)' = Completing(i)
      /\ HeadDone(i)' = HeadDone(i)
  BY DEF Waiting, Completing, HeadDone, Own, Last, Entries
<1>2. (Listed(i)' <=> Listed(i)) /\ (EndsInLast(i)' <=> EndsInLast(i))
  BY DEF Listed, EndsInLast, Own, Last, Entries
<1>3. QED BY <1>1, <1>2

\* A request that a step does not touch, nor the list and the hardware.
LEMMA RequestUntouched ==
  ASSUME NEW j \in Iocbs, RequestInv(j), aio'[j] = aio[j], executed'[j] = executed[j],
         completed'[j] = completed[j], misdirected' = misdirected,
         transfer_list' = transfer_list, hw' = hw
  PROVE  RequestInv(j)'
<1>1. /\ Waiting(j)' = Waiting(j) /\ Completing(j)' = Completing(j)
      /\ HeadDone(j)' = HeadDone(j)
      /\ Listed(j)' <=> Listed(j)
      /\ EndsInLast(j)' <=> EndsInLast(j)
  BY SameList
<1>2. /\ Queued(j)' = Queued(j) /\ Segments(j)' = Segments(j)
      /\ Unqueued(j)' <=> Unqueued(j)
  BY RequestFrame
<1>3. Counts(j) /\ Fresh(j) /\ Single(j)
  BY DEF RequestInv
<1>4. Counts(j)'
  BY <1>1, <1>2, <1>3 DEF Counts
<1>5. Fresh(j)'
  BY <1>1, <1>2, <1>3 DEF Fresh
<1>6. Single(j)'
  BY <1>1, <1>2, <1>3 DEF Single
<1>7. QED BY <1>4, <1>5, <1>6 DEF RequestInv

\* Steps that leave the requests and the list alone.
LEMMA AioFrame ==
  ASSUME AioInv, UNCHANGED <<aio_vars, transfer_list, hw, misdirected>>
  PROVE  AioType' /\ HeadRuns' /\ \A i \in Iocbs : RequestInv(i)'
<1>1. /\ aio' = aio /\ executed' = executed /\ completed' = completed
      /\ transfer_list' = transfer_list /\ hw' = hw /\ misdirected' = misdirected
  BY DEF aio_vars
<1>2. AioType'
  BY <1>1 DEF AioInv, AioType
<1>3. HeadRuns'
  BY <1>1 DEF AioInv, HeadRuns
<1>4. \A i \in Iocbs : RequestInv(i)'
  BY <1>1, RequestUntouched DEF AioInv
<1>5. QED BY <1>2, <1>3, <1>4

\* A request that another's transfer is queued behind.
LEMMA OtherQueued ==
  ASSUME AioInv, NEW x \in Entries, Queue(x), NEW j \in Iocbs, x.owner # j,
         aio'[j] = aio[j], executed' = executed, completed' = completed,
         misdirected' = misdirected
  PROVE  RequestInv(j)'
<1>1. /\ Waiting(j)' = Waiting(j) /\ Completing(j)' = Completing(j)
      /\ HeadDone(j)' = HeadDone(j)
      /\ ~Listed(j) => ~Listed(j)'
      /\ EndsInLast(j) => EndsInLast(j)'
  <2>1. EngineInv
    BY DEF AioInv
  <2>2. Waiting(j) \in Nat /\ Completing(j) \in Nat
    BY <2>1, ListFacts
  <2>3. QED BY <2>1, <2>2, QueueFacts
<1>2. Counts(j) /\ Fresh(j) /\ Single(j)
  BY DEF AioInv, RequestInv
<1>3. /\ Queued(j)' = Queued(j) /\ Segments(j)' = Segments(j)
      /\ Unqueued(j)' <=> Unqueued(j)
  BY RequestFrame
<1>4. Counts(j)'
  BY <1>1, <1>2, <1>3 DEF Counts
<1>5. Fresh(j)'
  BY <1>1, <1>2, <1>3 DEF Fresh
<1>6. Single(j)'
  BY <1>1, <1>2, <1>3 DEF Single
<1>7. QED BY <1>4, <1>5, <1>6 DEF RequestInv

\* A transfer queued on an idle engine starts it.
LEMMA QueueRuns ==
  ASSUME EngineInv, HeadRuns, NEW x \in Entries, Queue(x), misdirected' = misdirected
  PROVE  HeadRuns'
<1>1. transfer_list \in Seq(Entries) /\ transfer_list' = Append(transfer_list, x)
  BY DEF EngineInv, Entries, Queue
<1>2. CASE transfer_list = <<>>
  BY <1>2 DEF Queue, Unlocked, EngineInv, HeadRuns
<1>3. CASE transfer_list # <<>>
  <2>1. hw' = hw
    BY <1>3 DEF Queue, Unlocked, EngineInv
  <2>2. Head(transfer_list') = Head(transfer_list)
    BY <1>1, <1>3
  <2>3. QED BY <1>3, <2>1, <2>2 DEF HeadRuns
<1>4. QED BY <1>2, <1>3

\* The record of a request after one of its transfers was queued.
LEMMA AioQueueRecord ==
  ASSUME AioType, NEW i \in Iocbs, AioQueue(i)
  PROVE  LET r == aio[i]
             s == aio'[i]
             last == r.chunk = r.shape[2]
         IN
         /\ r.pc = "submit" /\ s \in Requests /\ s.shape = r.shape
         /\ s.pc = IF last /\ r.seg = r.shape[1] THEN "queued" ELSE "submit"
         /\ s.seg = IF last /\ r.seg < r.shape[1] THEN r.seg + 1 ELSE r.seg
         /\ s.chunk = IF last THEN 1 ELSE r.chunk + 1
         /\ \A j \in Iocbs \ {i} : aio'[j] = aio[j]
         /\ aio' \in [Iocbs -> Requests]
         /\ executed' = executed /\ completed' = completed /\ misdirected' = misdirected
<1> DEFINE r == aio[i]
           last == r.chunk = r.shape[2]
           s == [r EXCEPT !.pc    = IF last /\ r.seg = r.shape[1] THEN "queued" ELSE @,
                          !.seg   = IF last /\ r.seg < r.shape[1] THEN @ + 1 ELSE @,
                          !.chunk = IF last THEN 1 ELSE @ + 1]
<1>1. r \in Requests /\ r.pc = "submit" /\ r.seg \in Nat /\ r.chunk \in Nat
  BY RequestTypes DEF AioQueue
<1>2. aio' = [aio EXCEPT ![i] = s] /\ aio \in [Iocbs -> Requests]
  BY DEF AioQueue, AioType
<1>3. /\ s.shape = r.shape
      /\ s.pc = IF last /\ r.seg = r.shape[1] THEN "queued" ELSE "submit"
      /\ s.seg = IF last /\ r.seg < r.shape[1] THEN r.seg + 1 ELSE r.seg
      /\ s.chunk = IF last THEN 1 ELSE r.chunk + 1
  BY <1>1 DEF Requests
<1>4. s \in Requests
  <2>1. (IF last /\ r.seg = r.shape[1] THEN "queued" ELSE r.pc) \in {"idle", "submit", "queued"}
    BY <1>1
  <2>2. (IF last /\ r.seg < r.shape[1] THEN r.seg + 1 ELSE r.seg) \in Nat
    BY <1>1
  <2>3. (IF last THEN 1 ELSE r.chunk + 1) \in Nat
    BY <1>1
  <2>4. \A p \in {"idle", "submit", "queued"}, g, c \in Nat :
          [r EXCEPT !.pc = p, !.seg = g, !.chunk = c] \in Requests
    BY <1>1 DEF Requests
  <2>5. QED BY <2>1, <2>2, <2>3, <2>4
<1> HIDE DEF s
<1>5. aio' \in [Iocbs -> Requests] /\ aio'[i] = s /\ \A j \in Iocbs \ {i} : aio'[j] = aio[j]
  BY <1>2, <1>4
<1>6. executed' = executed /\ completed' = completed /\ misdirected' = misdirected
  BY DEF AioQueue
<1>7. QED BY <1>1, <1>3, <1>4, <1>5, <1>6

\* sg_aio_read_write() queues a transfer.
LEMMA AioQueueStep ==
  ASSUME AioInv, NEW i \in Iocbs, AioQueue(i)
  PROVE  AioType' /\ HeadRuns' /\ \A j \in Iocbs : RequestInv(j)'
<1> DEFINE r == aio[i]
           s == aio'[i]
           last == r.chunk = r.shape[2]
           x == [owner |-> i, last_in_request |-> last]
<1>1. /\ r.pc = "submit" /\ s \in Requests /\ s.shape = r.shape
      /\ s.pc = IF last /\ r.seg = r.shape[1] THEN "queued" ELSE "submit"
      /\ s.seg = IF last /\ r.seg < r.shape[1] THEN r.seg + 1 ELSE r.seg
      /\ s.chunk = IF last THEN 1 ELSE r.chunk + 1
      /\ \A j \in Iocbs \ {i} : aio'[j] = aio[j]
      /\ aio' \in [Iocbs -> Requests]
      /\ executed' = executed /\ completed' = completed /\ misdirected' = misdirected
  BY AioQueueRecord DEF AioInv
<1>2. x \in Entries /\ Queue(x) /\ x.owner = i /\ (x.last_in_request <=> last)
  BY DEF Entries, AioQueue
<1>3. EngineInv /\ AioType /\ HeadRuns /\ Counts(i) /\ Fresh(i) /\ Single(i)
  BY DEF AioInv, RequestInv
<1>4. /\ r.shape[1] \in Nat \ {0} /\ r.shape[2] \in Nat \ {0} /\ r.seg \in Nat \ {0}
      /\ r.chunk \in Nat \ {0} /\ executed[i] \in Nat /\ completed[i] \in Nat
      /\ Queued(i) \in Int /\ Segments(i) \in Int
  BY <1>3, RequestTypes
<1>5. r.seg <= r.shape[1] /\ r.chunk <= r.shape[2] /\ r.shape \in Shapes \cup {<<1, 1>>}
  BY <1>3, <1>4 DEF AioType
<1>6. AioType'
  <2>1. s.seg \in 1 .. s.shape[1] /\ s.chunk \in 1 .. s.shape[2]
    BY <1>1, <1>4, <1>5
  <2>2. s.shape \in Shapes \cup {<<1, 1>>}
    BY <1>1, <1>5
  <2>3. QED BY <1>1, <1>3, <2>1, <2>2 DEF AioType
<1>7. HeadRuns'
  BY <1>1, <1>2, <1>3, QueueRuns
<1>8. /\ Waiting(i)' = Waiting(i) + 1
      /\ Completing(i)' = Completing(i) + (IF last THEN 1 ELSE 0)
      /\ HeadDone(i)' = HeadDone(i)
      /\ last => EndsInLast(i)'
  BY <1>2, <1>3, QueueFacts
<1>9. Waiting(i) \in Nat /\ Completing(i) \in Nat /\ HeadDone(i) \in {0, 1}
  BY <1>3, ListFacts
<1>10. Queued(i)' = Queued(i) + 1
  <2>1. Queued(i) = (r.seg - 1) * r.shape[2] + (r.chunk - 1)
    BY <1>1 DEF Queued
  <2>2. CASE ~last
    <3>1. Queued(i)' = (r.seg - 1) * r.shape[2] + ((r.chunk + 1) - 1)
      BY <1>1, <2>2 DEF Queued
    <3>2. QED BY <1>4, <2>1, <3>1
  <2>3. CASE last
    <3>1. Queued(i)' = r.seg * r.shape[2]
      <4>1. CASE r.seg = r.shape[1]
        BY <1>1, <2>3, <4>1 DEF Queued
      <4>2. CASE r.seg # r.shape[1]
        <5>1. s.pc = "submit" /\ s.seg = r.seg + 1 /\ s.chunk = 1
          BY <1>1, <1>4, <1>5, <2>3, <4>2
        <5>2. Queued(i)' = ((r.seg + 1) - 1) * r.shape[2] + (1 - 1)
          BY <1>1, <5>1 DEF Queued
        <5>3. QED BY <1>4, <5>2
      <4>3. QED BY <4>1, <4>2
    <3>2. r.seg * r.shape[2] = (r.seg - 1) * r.shape[2] + r.shape[2]
      BY <1>4
    <3>3. QED BY <1>4, <2>1, <2>3, <3>1, <3>2
  <2>4. QED BY <2>2, <2>3
<1>11. Segments(i)' = Segments(i) + (IF last THEN 1 ELSE 0)
  <2>1. Segments(i) = r.seg - 1
    BY <1>1 DEF Segments
  <2>2. Segments(i)' = IF last THEN r.seg ELSE r.seg - 1
    BY <1>1, <1>4, <1>5 DEF Segments
  <2>3. QED BY <1>4, <2>1, <2>2
<1>12. Counts(i)'
  BY <1>1, <1>3, <1>4, <1>8, <1>9, <1>10, <1>11 DEF Counts
<1>13. ~Unqueued(i)'
  BY <1>1, <1>4, <1>5 DEF Unqueued
<1>14. Single(i)'
  <2> SUFFICES ASSUME r.shape[1] = 1
               PROVE  /\ s.pc = "queued" =>
                           (completed'[i] + Completing(i)' = 1 /\ EndsInLast(i)')
                      /\ ~misdirected =>
                           executed'[i] + Waiting(i)' = Queued(i)' + HeadDone(i)'
    BY <1>1 DEF Single
  <2>1. ASSUME s.pc = "queued"
        PROVE  completed'[i] + Completing(i)' = 1 /\ EndsInLast(i)'
    <3>1. last /\ r.seg = 1
      BY <1>1, <2>1
    <3>2. completed[i] + Completing(i) <= 0
      BY <1>1, <1>3, <3>1 DEF Counts, Segments
    <3>3. QED BY <1>1, <1>4, <1>8, <1>9, <3>1, <3>2
  <2>2. ASSUME ~misdirected
        PROVE  executed'[i] + Waiting(i)' = Queued(i)' + HeadDone(i)'
    <3>1. executed[i] + Waiting(i) = Queued(i) + HeadDone(i)
      BY <1>1, <1>3, <2>2 DEF Single
    <3>2. QED BY <1>1, <1>4, <1>8, <1>9, <1>10, <3>1
  <2>3. QED BY <2>1, <2>2
<1>15. RequestInv(i)'
  BY <1>12, <1>13, <1>14 DEF RequestInv, Fresh
<1>16. ASSUME NEW j \in Iocbs, j # i PROVE RequestInv(j)'
  BY <1>1, <1>2, <1>16, OtherQueued
<1>17. QED BY <1>6, <1>7, <1>15, <1>16

\* The first record of a request.
LEMMA FreeRecord ==
  /\ Free \in Requests /\ Free.pc = "idle" /\ Free.shape = <<1, 1>>
  /\ Free.seg = 1 /\ Free.chunk = 1
  /\ \A s \in Shapes :
       LET r == [Free EXCEPT !.pc = "submit", !.shape = s] IN
       /\ r \in Requests /\ r.pc = "submit" /\ r.shape = s /\ r.seg = 1 /\ r.chunk = 1
<1>1. <<1, 1>> \in (Nat \ {0}) \X (Nat \ {0})
  OBVIOUS
<1>2. QED BY <1>1, AsyncAssumption DEF Free, Requests

\* A request that begins.
LEMMA AioRequestStep ==
  ASSUME AioInv, NEW i \in Iocbs, AioRequest(i)
  PROVE  AioType' /\ HeadRuns' /\ \A j \in Iocbs : RequestInv(j)'
<1>1. PICK s \in Shapes : aio' = [aio EXCEPT ![i] = [Free EXCEPT !.pc = "submit", !.shape = s]]
  BY DEF AioRequest
<1>2. /\ aio[i].pc = "idle" /\ executed' = executed /\ completed' = completed
      /\ transfer_list' = transfer_list /\ hw' = hw /\ misdirected' = misdirected
  BY DEF AioRequest, engine_vars
<1> DEFINE r == [Free EXCEPT !.pc = "submit", !.shape = s]
<1>3. /\ r \in Requests /\ r.pc = "submit" /\ r.shape = s /\ r.seg = 1 /\ r.chunk = 1
      /\ s[1] \in Nat \ {0} /\ s[2] \in Nat \ {0}
  BY FreeRecord, AsyncAssumption
<1>4. aio' = [aio EXCEPT ![i] = r]
  BY <1>1
<1> HIDE DEF r
<1>5. EngineInv /\ AioType /\ HeadRuns /\ Counts(i) /\ Fresh(i)
  BY DEF AioInv, RequestInv
<1>6. aio' \in [Iocbs -> Requests] /\ aio'[i] = r /\ \A j \in Iocbs \ {i} : aio'[j] = aio[j]
  BY <1>3, <1>4, <1>5 DEF AioType
<1>7. AioType'
  <2>1. s \in Shapes \cup {<<1, 1>>} /\ r.seg \in 1 .. s[1] /\ r.chunk \in 1 .. s[2]
    BY <1>3
  <2>2. QED BY <1>2, <1>3, <1>5, <1>6, <2>1 DEF AioType
<1>8. HeadRuns'
  BY <1>2, <1>5 DEF HeadRuns
<1>9. ~Listed(i) /\ executed[i] = 0
  BY <1>2, <1>5 DEF Fresh, Unqueued
<1>10. Waiting(i) = 0 /\ Completing(i) = 0 /\ HeadDone(i) = 0
  BY <1>5, <1>9, ListFacts
<1>11. completed[i] = 0
  <2>1. completed[i] + Completing(i) <= 0 /\ completed[i] \in Nat
    BY <1>2, <1>5, RequestTypes DEF Counts, Segments
  <2>2. QED BY <1>10, <2>1
<1>12. Queued(i)' = 0 /\ Segments(i)' = 0
  <2>1. Queued(i)' = (1 - 1) * s[2] + (1 - 1) /\ Segments(i)' = 1 - 1
    BY <1>3, <1>6 DEF Queued, Segments
  <2>2. QED BY <1>3, <2>1
<1>13. RequestInv(i)'
  <2>1. Waiting(i)' = 0 /\ Completing(i)' = 0 /\ HeadDone(i)' = 0 /\ ~Listed(i)'
    BY <1>2, <1>9, <1>10, SameList
  <2>2. Counts(i)'
    BY <1>2, <1>9, <1>11, <1>12, <2>1 DEF Counts
  <2>3. Fresh(i)'
    BY <1>2, <1>9, <2>1 DEF Fresh
  <2>4. Single(i)'
    BY <1>2, <1>3, <1>6, <1>9, <1>12, <2>1 DEF Single
  <2>5. QED BY <2>2, <2>3, <2>4 DEF RequestInv
<1>14. ASSUME NEW j \in Iocbs, j # i PROVE RequestInv(j)'
  BY <1>2, <1>6, <1>14, RequestUntouched DEF AioInv
<1>15. QED BY <1>7, <1>8, <1>13, <1>14

\* A request whose next segment is not aligned.
LEMMA AioMisalignedStep ==
  ASSUME AioInv, NEW i \in Iocbs, AioMisaligned(i)
  PROVE  AioType' /\ HeadRuns' /\ \A j \in Iocbs : RequestInv(j)'
<1> DEFINE r == aio[i]
           s == [aio[i] EXCEPT !.pc = "queued"]
<1>1. /\ r.pc = "submit" /\ r.chunk = 1 /\ aio' = [aio EXCEPT ![i] = s]
      /\ completed' = [completed EXCEPT ![i] = @ + 1] /\ executed' = executed
      /\ transfer_list' = transfer_list /\ hw' = hw /\ misdirected' = misdirected
  BY DEF AioMisaligned, engine_vars
<1>2. EngineInv /\ AioType /\ HeadRuns /\ Counts(i) /\ Fresh(i) /\ Single(i)
  BY DEF AioInv, RequestInv
<1>3. /\ r \in Requests /\ r.shape[1] \in Nat \ {0} /\ r.shape[2] \in Nat \ {0}
      /\ r.seg \in Nat \ {0} /\ executed[i] \in Nat /\ completed[i] \in Nat
  BY <1>2, RequestTypes
<1>4. s \in Requests /\ s.pc = "queued" /\ s.shape = r.shape /\ s.seg = r.seg /\ s.chunk = 1
  BY <1>1, <1>3 DEF Requests
<1> HIDE DEF s
<1>5. /\ aio' \in [Iocbs -> Requests] /\ aio'[i] = s
      /\ \A j \in Iocbs \ {i} : aio'[j] = aio[j]
  BY <1>1, <1>2, <1>4 DEF AioType
<1>6. /\ completed' \in [Iocbs -> Nat] /\ completed'[i] = completed[i] + 1
      /\ \A j \in Iocbs \ {i} : completed'[j] = completed[j]
  BY <1>1, <1>2 DEF AioType
<1>7. /\ r.shape \in Shapes \cup {<<1, 1>>} /\ r.seg \in 1 .. r.shape[1]
      /\ r.chunk \in 1 .. r.shape[2]
  BY <1>2 DEF AioType
<1>8. AioType'
  BY <1>1, <1>2, <1>4, <1>5, <1>6, <1>7 DEF AioType
<1>9. HeadRuns'
  BY <1>1, <1>2 DEF HeadRuns
<1>10. /\ Waiting(i)' = Waiting(i) /\ Completing(i)' = Completing(i)
       /\ HeadDone(i)' = HeadDone(i)
       /\ Listed(i)' <=> Listed(i)
       /\ EndsInLast(i)' <=> EndsInLast(i)
  BY <1>1, SameList
<1>11. Waiting(i) \in Nat /\ Completing(i) \in Nat /\ HeadDone(i) \in {0, 1}
  BY <1>2, ListFacts
<1>12. Queued(i) <= Queued(i)' /\ Queued(i) \in Int /\ Queued(i)' \in Int
  <2>1. Queued(i) = (r.seg - 1) * r.shape[2]
    BY <1>1, <1>3 DEF Queued
  <2>2. Queued(i)' = r.shape[1] * r.shape[2]
    BY <1>4, <1>5 DEF Queued
  <2>3. r.shape[1] * r.shape[2]
          = (r.seg - 1) * r.shape[2] + (r.shape[1] - (r.seg - 1)) * r.shape[2]
    BY <1>3
  <2>4. (r.shape[1] - (r.seg - 1)) * r.shape[2] \in Nat
    BY <1>3, <1>7
  <2>5. (r.seg - 1) * r.shape[2] \in Int
    BY <1>3
  <2>6. QED BY <2>1, <2>2, <2>3, <2>4, <2>5
<1>13. Segments(i) = r.seg - 1 /\ Segments(i)' = r.shape[1]
  BY <1>1, <1>4, <1>5 DEF Segments
<1>14. Counts(i)'
  <2>1. executed[i] + Waiting(i) <= Queued(i) + HeadDone(i)
    BY <1>2 DEF Counts
  <2>2. completed[i] + Completing(i) <= r.seg - 1
    BY <1>2, <1>13 DEF Counts
  <2>3. executed'[i] + Waiting(i)' <= Queued(i)' + HeadDone(i)'
    BY <1>1, <1>3, <1>10, <1>11, <1>12, <2>1
  <2>4. completed'[i] + Completing(i)' <= Segments(i)'
    BY <1>3, <1>6, <1>7, <1>10, <1>11, <1>13, <2>2
  <2>5. QED BY <2>3, <2>4 DEF Counts
<1>15. Fresh(i)'
  BY <1>4, <1>5 DEF Fresh, Unqueued
<1>16. Single(i)'
  <2> SUFFICES ASSUME r.shape[1] = 1
               PROVE  /\ completed'[i] + Completing(i)' = 1 /\ EndsInLast(i)'
                      /\ executed'[i] = 0 /\ ~Listed(i)'
    BY <1>4, <1>5 DEF Single
  <2>1. r.seg = 1
    BY <1>3, <1>7
  <2>2. ~Listed(i) /\ executed[i] = 0
    BY <1>1, <1>2, <2>1 DEF Fresh, Unqueued
  <2>3. Completing(i) = 0
    BY <1>2, <2>2, ListFacts
  <2>4. completed[i] = 0
    BY <1>2, <1>3, <1>13, <2>1, <2>3 DEF Counts
  <2>5. EndsInLast(i)
    BY <2>2 DEF EndsInLast, Listed
  <2>6. QED BY <1>1, <1>6, <1>10, <2>2, <2>3, <2>4, <2>5
<1>17. ASSUME NEW j \in Iocbs, j # i PROVE RequestInv(j)'
  BY <1>1, <1>5, <1>6, <1>17, RequestUntouched DEF AioInv
<1>18. RequestInv(i)'
  BY <1>14, <1>15, <1>16 DEF RequestInv
<1>19. QED BY <1>8, <1>9, <1>17, <1>18

\* A request that was reaped.
LEMMA AioReapStep ==
  ASSUME AioInv, NEW i \in Iocbs, AioReap(i)
  PROVE  AioType' /\ HeadRuns' /\ \A j \in Iocbs : RequestInv(j)'
<1>1. /\ ~Listed(i) /\ aio' = [aio EXCEPT ![i] = Free]
      /\ executed' = [executed EXCEPT ![i] = 0] /\ completed' = [completed EXCEPT ![i] = 0]
      /\ transfer_list' = transfer_list /\ hw' = hw /\ misdirected' = misdirected
  BY DEF AioReap, engine_vars
<1>2. EngineInv /\ AioType /\ HeadRuns
  BY DEF AioInv
<1>3. /\ aio' \in [Iocbs -> Requests] /\ aio'[i] = Free
      /\ \A j \in Iocbs \ {i} : aio'[j] = aio[j]
  BY <1>1, <1>2, FreeRecord DEF AioType
<1>4. /\ executed' \in [Iocbs -> Nat] /\ executed'[i] = 0
      /\ \A j \in Iocbs \ {i} : executed'[j] = executed[j]
      /\ completed' \in [Iocbs -> Nat] /\ completed'[i] = 0
      /\ \A j \in Iocbs \ {i} : completed'[j] = completed[j]
  BY <1>1, <1>2 DEF AioType
<1>5. AioType'
  <2>1. /\ Free.shape \in Shapes \cup {<<1, 1>>} /\ Free.seg \in 1 .. Free.shape[1]
        /\ Free.chunk \in 1 .. Free.shape[2]
    <3>1. <<1, 1>>[1] = 1 /\ <<1, 1>>[2] = 1 /\ 1 \in 1 .. 1
      OBVIOUS
    <3>2. QED BY <3>1, FreeRecord
  <2>2. QED BY <1>1, <1>2, <1>3, <1>4, <2>1 DEF AioType
<1>6. HeadRuns'
  BY <1>1, <1>2 DEF HeadRuns
<1>7. Waiting(i)' = 0 /\ Completing(i)' = 0 /\ HeadDone(i)' = 0 /\ ~Listed(i)'
  <2>1. Waiting(i) = 0 /\ Completing(i) = 0 /\ HeadDone(i) = 0
    BY <1>1, <1>2, ListFacts
  <2>2. QED BY <1>1, <2>1, SameList
<1>8. Queued(i)' = 0 /\ Segments(i)' = 0
  BY <1>3, FreeRecord DEF Queued, Segments
<1>9. RequestInv(i)'
  <2>1. Counts(i)'
    BY <1>4, <1>7, <1>8 DEF Counts
  <2>2. Fresh(i)'
    BY <1>4, <1>7 DEF Fresh
  <2>3. Single(i)'
    BY <1>3, <1>4, <1>7, <1>8, FreeRecord DEF Single
  <2>4. QED BY <2>1, <2>2, <2>3 DEF RequestInv
<1>10. ASSUME NEW j \in Iocbs, j # i PROVE RequestInv(j)'
  BY <1>1, <1>3, <1>4, <1>10, RequestUntouched DEF AioInv
<1>11. QED BY <1>5, <1>6, <1>9, <1>10

\* engine_cyclic_stop() halts whatever runs, which is seen as misdirected if
\* it is a transfer of a request.
LEMMA PerfHaltStep ==
  ASSUME AioInv, NEW a \in Admins, PerfHalt(a)
  PROVE  AioType' /\ HeadRuns' /\ \A j \in Iocbs : RequestInv(j)'
<1>1. /\ aio' = aio /\ executed' = executed /\ completed' = completed
      /\ transfer_list' = transfer_list
  BY DEF PerfHalt, aio_vars
<1>2. misdirected \in BOOLEAN /\ misdirected' \in BOOLEAN
      /\ (misdirected' <=> misdirected \/ Misses)
  BY DEF PerfHalt, AioInv, AioType
<1>3. hw' = hw \/ (hw = "run" /\ hw' = "idle")
  BY DEF PerfHalt, HwStopped
<1>4. AioType'
  BY <1>1, <1>2 DEF AioInv, AioType
<1>5. HeadRuns'
  BY <1>1, <1>2, <1>3 DEF AioInv, HeadRuns, Misses
<1>6. ASSUME NEW j \in Iocbs PROVE RequestInv(j)'
  <2>1. Waiting(j)' = Waiting(j) /\ Completing(j)' = Completing(j)
    BY <1>1 DEF Waiting, Completing, Own, Last, Entries
  <2>2. HeadDone(j)' = HeadDone(j)
    BY <1>1, <1>3 DEF HeadDone
  <2>3. (Listed(j)' <=> Listed(j)) /\ (EndsInLast(j)' <=> EndsInLast(j))
    BY <1>1 DEF Listed, EndsInLast, Own, Last, Entries
  <2>4. /\ Queued(j)' = Queued(j) /\ Segments(j)' = Segments(j)
        /\ Unqueued(j)' <=> Unqueued(j)
    BY <1>1, RequestFrame
  <2>5. Counts(j) /\ Fresh(j) /\ Single(j)
    BY DEF AioInv, RequestInv
  <2>6. Counts(j)'
    BY <1>1, <2>1, <2>2, <2>4, <2>5 DEF Counts
  <2>7. Fresh(j)'
    BY <1>1, <2>3, <2>4, <2>5 DEF Fresh
  <2>8. Single(j)'
    BY <1>1, <1>2, <2>1, <2>2, <2>3, <2>4, <2>5 DEF Single
  <2>9. QED BY <2>6, <2>7, <2>8 DEF RequestInv
<1>7. QED BY <1>4, <1>5, <1>6

\* The loop of a performance run is queued.
LEMMA PerfSubmitStep ==
  ASSUME AioInv, NEW a \in Admins, PerfSubmit(a)
  PROVE  AioType' /\ HeadRuns' /\ \A j \in Iocbs : RequestInv(j)'
<1> DEFINE x == [owner |-> Perf, last_in_request |-> FALSE]
<1>1. x \in Entries /\ x.owner = Perf /\ Queue(x)
  BY DEF PerfSubmit, Entries
<1>2. /\ aio' = aio /\ executed' = executed /\ completed' = completed
      /\ misdirected' = misdirected
  BY DEF PerfSubmit, aio_vars
<1>3. AioType'
  BY <1>2 DEF AioInv, AioType
<1> HIDE DEF x
<1>4. HeadRuns'
  BY <1>1, <1>2, QueueRuns DEF AioInv
<1>5. ASSUME NEW j \in Iocbs PROVE RequestInv(j)'
  <2>1. x.owner # j
    BY <1>1, AsyncAssumption
  <2>2. QED BY <1>1, <1>2, <2>1, OtherQueued
<1>6. QED BY <1>3, <1>4, <1>5

\* The hardware executed the first transfer of the list.
LEMMA HwDoneStep ==
  ASSUME AioInv, HwDone
  PROVE  AioType' /\ HeadRuns' /\ \A j \in Iocbs : RequestInv(j)'
<1> DEFINE o == Head(transfer_list).owner
<1>1. /\ hw = "run" /\ hw' = "done" /\ o # Perf
      /\ executed' = [executed EXCEPT ![o] = @ + 1]
      /\ aio' = aio /\ completed' = completed /\ transfer_list' = transfer_list
      /\ misdirected' = misdirected
  BY DEF HwDone
<1>2. transfer_list \in Seq(Entries) /\ transfer_list # <<>>
  BY <1>1 DEF AioInv, EngineInv, Entries
<1>3. o \in Iocbs
  <2>1. Head(transfer_list) \in Entries
    BY <1>2
  <2>2. QED BY <1>1, <2>1 DEF Entries
<1> HIDE DEF o
<1>4. /\ executed \in [Iocbs -> Nat] /\ executed' \in [Iocbs -> Nat]
      /\ executed'[o] = executed[o] + 1
      /\ \A j \in Iocbs \ {o} : executed'[j] = executed[j]
  BY <1>1, <1>3 DEF AioInv, AioType
<1>5. AioType'
  BY <1>1, <1>4 DEF AioInv, AioType
<1>6. HeadRuns'
  BY <1>1 DEF HeadRuns
<1>7. ASSUME NEW j \in Iocbs PROVE RequestInv(j)'
  <2>1. Waiting(j)' = Waiting(j) /\ Completing(j)' = Completing(j)
    BY <1>1 DEF Waiting, Completing, Own, Last, Entries
  <2>2. HeadDone(j) = 0 /\ HeadDone(j)' = IF j = o THEN 1 ELSE 0
    BY <1>1, <1>2 DEF HeadDone, o
  <2>3. (Listed(j)' <=> Listed(j)) /\ (EndsInLast(j)' <=> EndsInLast(j))
    BY <1>1 DEF Listed, EndsInLast, Own, Last, Entries
  <2>4. /\ Queued(j)' = Queued(j) /\ Segments(j)' = Segments(j)
        /\ Unqueued(j)' <=> Unqueued(j)
    BY <1>1, RequestFrame
  <2>5. Counts(j) /\ Fresh(j) /\ Single(j)
    BY DEF AioInv, RequestInv
  <2>6. Waiting(j) \in Nat /\ executed[j] \in Nat /\ Queued(j) \in Int
    BY ListFacts, RequestTypes DEF AioInv
  <2>7. executed'[j] + Waiting(j) - HeadDone(j)' = executed[j] + Waiting(j)
    BY <1>4, <2>2, <2>6
  <2>8. Counts(j)'
    <3>1. executed'[j] + Waiting(j)' <= Queued(j)' + HeadDone(j)'
      <4>1. executed[j] + Waiting(j) <= Queued(j)
        BY <2>2, <2>5, <2>6 DEF Counts
      <4>2. QED BY <1>4, <2>1, <2>2, <2>4, <2>6, <2>7, <4>1
    <3>2. QED BY <1>1, <2>1, <2>4, <2>5, <3>1 DEF Counts
  <2>9. j = o => Listed(j)
    <3>1. 1 \in 1 .. Len(transfer_list) /\ transfer_list[1] = Head(transfer_list)
      BY <1>2
    <3>2. QED BY <3>1 DEF Listed, o
  <2>10. Fresh(j)'
    BY <1>4, <2>3, <2>4, <2>5, <2>9 DEF Fresh
  <2>11. Single(j)'
    <3> SUFFICES ASSUME aio[j].shape[1] = 1
                 PROVE  /\ aio[j].pc = "queued" =>
                             completed[j] + Completing(j) = 1 /\ EndsInLast(j)
                        /\ ~misdirected =>
                             \/ executed'[j] + Waiting(j) = Queued(j) + HeadDone(j)'
                             \/ /\ aio[j].pc = "queued" /\ executed'[j] = 0
                                /\ ~Listed(j)
      BY <1>1, <2>1, <2>3, <2>4 DEF Single
    <3>1. ASSUME ~misdirected, executed[j] + Waiting(j) = Queued(j)
          PROVE  executed'[j] + Waiting(j) = Queued(j) + HeadDone(j)'
      BY <1>4, <2>2, <2>6, <2>7, <3>1
    <3>2. executed[j] + Waiting(j) = Queued(j) + HeadDone(j)
            => executed[j] + Waiting(j) = Queued(j)
      BY <2>2, <2>6
    <3>3. ~Listed(j) => executed'[j] = executed[j]
      BY <1>4, <2>9
    <3>4. QED BY <2>5, <3>1, <3>2, <3>3 DEF Single
  <2>12. QED BY <2>8, <2>10, <2>11 DEF RequestInv
<1>8. QED BY <1>5, <1>6, <1>7

\* The service routine ends a transfer and completes its request if it is the
\* last one.
LEMMA FinalStep ==
  ASSUME AioInv, ServiceFinal
  PROVE  AioType' /\ HeadRuns' /\ \A j \in Iocbs : RequestInv(j)'
<1> DEFINE x == Head(transfer_list)
<1>1. aio' = aio /\ executed' = executed /\ misdirected' = misdirected
  BY DEF ServiceFinal
<1>2. completed' \in [Iocbs -> Nat]
  <2>1. completed \in [Iocbs -> Nat]
    BY DEF AioInv, AioType
  <2>2. completed' = [i \in Iocbs |->
                        completed[i] + (IF i = x.owner /\ Completes(x) THEN 1 ELSE 0)]
    BY DEF ServiceFinal
  <2>3. QED BY <2>1, <2>2
<1>3. AioType'
  BY <1>1, <1>2 DEF AioInv, AioType
<1>4. HeadRuns'
  <2>1. ~running
    BY DEF AioInv, EngineInv, Serving, ServiceFinal
  <2>2. transfer_list' = <<>> \/ hw' = "run"
    BY <2>1 DEF ServiceFinal, MustRestart, Dequeue
  <2>3. QED BY <2>2 DEF HeadRuns
<1>5. ASSUME NEW j \in Iocbs PROVE RequestInv(j)'
  <2> DEFINE own == IF x.owner = j THEN 1 ELSE 0
             last == IF x.owner = j /\ x.last_in_request THEN 1 ELSE 0
  <2>1. /\ Waiting(j) = Waiting(j)' + own
        /\ Completing(j) = Completing(j)' + last
        /\ completed'[j] = completed[j] + last
        /\ HeadDone(j)' = 0
        /\ HeadDone(j) <= own
        /\ ~misdirected => HeadDone(j) = own
        /\ ~Listed(j) => ~Listed(j)'
        /\ EndsInLast(j) => EndsInLast(j)'
    <3>1. HeadDone(j) \in {0, 1}
      BY ListFacts DEF AioInv
    <3>2. QED BY <3>1, FinalFacts
  <2>2. /\ Waiting(j)' \in Nat /\ Completing(j)' \in Nat
    <3>1. EngineInv'
      BY ServiceStep DEF AioInv, Service
    <3>2. transfer_list' \in Seq(Entries)
      BY <3>1 DEF EngineInv, Entries
    <3>3. Count(transfer_list', Own(j)) \in Nat /\ Count(transfer_list', Last(j)) \in Nat
      BY <3>2, CountNat
    <3>4. QED BY <3>3 DEF Waiting, Completing, Own, Last, Entries
  <2>3. own \in {0, 1} /\ last \in {0, 1}
    OBVIOUS
  <2> HIDE DEF own, last
  <2>4. Counts(j) /\ Fresh(j) /\ Single(j)
    BY DEF AioInv, RequestInv
  <2>5. /\ executed[j] \in Nat /\ completed[j] \in Nat /\ Queued(j) \in Int
        /\ Segments(j) \in Int /\ HeadDone(j) \in {0, 1}
    BY ListFacts, RequestTypes DEF AioInv
  <2>6. /\ Queued(j)' = Queued(j) /\ Segments(j)' = Segments(j)
        /\ Unqueued(j)' <=> Unqueued(j)
    BY <1>1, RequestFrame
  <2>7. Counts(j)'
    <3>1. executed[j] + Waiting(j) <= Queued(j) + HeadDone(j)
          /\ completed[j] + Completing(j) <= Segments(j)
      BY <2>4 DEF Counts
    <3>2. executed[j] + Waiting(j)' <= Queued(j)
      BY <2>1, <2>2, <2>3, <2>5, <3>1
    <3>3. completed'[j] + Completing(j)' <= Segments(j)
      BY <2>1, <2>2, <2>3, <2>5, <3>1
    <3>4. QED BY <1>1, <2>1, <2>5, <2>6, <3>2, <3>3 DEF Counts
  <2>8. Fresh(j)'
    BY <1>1, <2>1, <2>4, <2>6 DEF Fresh
  <2>9. Single(j)'
    <3> SUFFICES ASSUME aio[j].shape[1] = 1
                 PROVE  /\ aio[j].pc = "queued" =>
                             (completed'[j] + Completing(j)' = 1 /\ EndsInLast(j)')
                        /\ ~misdirected =>
                             \/ executed[j] + Waiting(j)' = Queued(j)
                             \/ /\ aio[j].pc = "queued" /\ executed[j] = 0
                                /\ ~Listed(j)'
      <4>1. HeadDone(j)' = 0 /\ Queued(j)' = Queued(j) /\ Queued(j) + 0 = Queued(j)
        BY <2>1, <2>5, <2>6
      <4>2. QED BY <1>1, <4>1 DEF Single
    <3>1. ASSUME aio[j].pc = "queued"
          PROVE  completed'[j] + Completing(j)' = 1 /\ EndsInLast(j)'
      <4>1. completed[j] + Completing(j) = 1 /\ EndsInLast(j)
        BY <2>4, <3>1 DEF Single
      <4>2. completed'[j] + Completing(j)' = 1
        BY <2>1, <2>2, <2>3, <2>5, <4>1
      <4>3. QED BY <2>1, <4>1, <4>2
    <3>2. ASSUME ~misdirected, executed[j] + Waiting(j) = Queued(j) + HeadDone(j)
          PROVE  executed[j] + Waiting(j)' = Queued(j)
      BY <2>1, <2>2, <2>3, <2>5, <3>2
    <3>3. QED BY <2>1, <2>4, <3>1, <3>2 DEF Single
  <2>10. QED BY <2>7, <2>8, <2>9 DEF RequestInv
<1>6. QED BY <1>3, <1>4, <1>5

\* Every step keeps AioInv.
LEMMA AioInvStep == AioInv /\ [Next]_vars => AioInv'
<1> SUFFICES ASSUME AioInv, [Next]_vars PROVE AioInv'
  OBVIOUS
<1>1. EngineInv'
  BY EngineStep DEF AioInv
<1> DEFINE Kept == AioType' /\ HeadRuns' /\ \A i \in Iocbs : RequestInv(i)'
<1> SUFFICES Kept
  BY <1>1 DEF AioInv
<1>2. CASE UNCHANGED vars
  BY <1>2, AioFrame DEF vars, engine_vars
<1>3. ASSUME NEW i \in Iocbs, AioRequest(i) \/ AioSubmit(i) \/ AioReap(i) PROVE Kept
  BY <1>3, AioRequestStep, AioQueueStep, AioMisalignedStep, AioReapStep DEF AioSubmit
<1>4. ASSUME NEW a \in Admins, Perform(a) PROVE Kept
  <2>1. CASE PerfSubmit(a)
    BY <2>1, PerfSubmitStep
  <2>2. CASE PerfHalt(a)
    BY <2>2, PerfHaltStep
  <2>3. CASE ~PerfSubmit(a) /\ ~PerfHalt(a)
    <3>1. UNCHANGED <<aio_vars, transfer_list, hw, misdirected>>
      BY <1>4, <2>3 DEF Perform, PerfStart, PerfAlloc, PerfStop, PerfStats, PerfFree,
                        PerfNull, PerfGet, PerfGetStats, Begin, engine_vars
    <3>2. QED BY <3>1, AioFrame
  <2>4. QED BY <2>1, <2>2, <2>3
<1>5. ASSUME NEW r \in Readers, Reading(r) PROVE Kept
  <2>1. UNCHANGED <<aio_vars, transfer_list, hw, misdirected>>
    BY <1>5 DEF Reading, EventsRead, EventsWait, EventsSignal, EventsTake, engine_vars
  <2>2. QED BY <2>1, AioFrame
<1>6. CASE ServiceFinal
  BY <1>6, FinalStep
<1>7. CASE HwDone
  BY <1>7, HwDoneStep
<1>8. CASE XdmaIsr \/ ServiceBegin \/ ServicePerf \/ ServicePerfUse \/ HwUserIrq
  <2>1. UNCHANGED <<aio_vars, transfer_list, hw, misdirected>>
    BY <1>8 DEF XdmaIsr, ServiceBegin, ServicePerf, ServicePerfUse, HwUserIrq, engine_vars
  <2>2. QED BY <2>1, AioFrame
<1>9. CASE Halted
  BY <1>2, <1>9 DEF Halted
<1>10. QED
  BY <1>2, <1>3, <1>4, <1>5, <1>6, <1>7, <1>8, <1>9 DEF Next, Perform, Reading, Service

LEMMA AioInit == Init => AioInv
<1> SUFFICES ASSUME Init PROVE AioInv
  OBVIOUS
<1>1. EngineInv
  BY EngineInit
<1>2. AioType
  <2>1. /\ Free.shape \in Shapes \cup {<<1, 1>>} /\ Free.seg \in 1 .. Free.shape[1]
        /\ Free.chunk \in 1 .. Free.shape[2]
    <3>1. <<1, 1>>[1] = 1 /\ <<1, 1>>[2] = 1 /\ 1 \in 1 .. 1
      OBVIOUS
    <3>2. QED BY <3>1, FreeRecord
  <2>2. misdirected \in BOOLEAN
    BY DEF Init
  <2>3. /\ aio \in [Iocbs -> Requests] /\ executed \in [Iocbs -> Nat]
        /\ completed \in [Iocbs -> Nat] /\ \A i \in Iocbs : aio[i] = Free
    BY FreeRecord DEF Init
  <2>4. QED BY <2>1, <2>2, <2>3 DEF AioType
<1>3. HeadRuns
  BY DEF Init, HeadRuns
<1>4. ASSUME NEW i \in Iocbs PROVE RequestInv(i)
  <2>1. /\ aio[i] = Free /\ executed[i] = 0 /\ completed[i] = 0 /\ transfer_list = <<>>
    BY DEF Init
  <2>2. ~Listed(i)
    BY <2>1 DEF Listed
  <2>3. Waiting(i) = 0 /\ Completing(i) = 0 /\ HeadDone(i) = 0
    BY <1>1, <2>2, ListFacts
  <2>4. Queued(i) = 0 /\ Segments(i) = 0
    BY <2>1, FreeRecord DEF Queued, Segments
  <2>5. Counts(i) /\ Fresh(i)
    BY <2>1, <2>2, <2>3, <2>4 DEF Counts, Fresh
  <2>6. Single(i)
    BY <2>1, <2>3, <2>4, FreeRecord DEF Single
  <2>7. QED BY <2>5, <2>6 DEF RequestInv
<1>5. QED BY <1>1, <1>2, <1>3, <1>4 DEF AioInv

LEMMA AioInvariant == Spec => []AioInv
BY AioInit, AioInvStep, PTL DEF Spec

\* No request executes more transfers than it queued, nor is it completed more
\* than once for each segment: the bounds that AioInv gives.
LEMMA RequestBounds ==
  ASSUME AioInv, NEW i \in Iocbs
  PROVE  /\ executed[i] \in 0 .. aio[i].shape[1] * aio[i].shape[2]
         /\ completed[i] \in 0 .. aio[i].shape[1]
<1> DEFINE r == aio[i]
<1>1. /\ r \in Requests /\ r.shape[1] \in Nat \ {0} /\ r.shape[2] \in Nat \ {0}
      /\ r.seg \in Nat \ {0} /\ r.chunk \in Nat \ {0} /\ executed[i] \in Nat
      /\ completed[i] \in Nat /\ Queued(i) \in Int /\ Segments(i) \in Int
  BY RequestTypes DEF AioInv
<1>2. r.seg <= r.shape[1] /\ r.chunk <= r.shape[2]
  BY <1>1 DEF AioInv, AioType
<1>3. /\ Waiting(i) \in Nat /\ Completing(i) \in Nat /\ HeadDone(i) \in {0, 1}
      /\ HeadDone(i) <= Waiting(i)
  BY ListFacts DEF AioInv
<1>4. executed[i] <= Queued(i) /\ completed[i] <= Segments(i)
  <2>1. executed[i] + Waiting(i) <= Queued(i) + HeadDone(i)
        /\ completed[i] + Completing(i) <= Segments(i)
    BY DEF AioInv, RequestInv, Counts
  <2>2. QED BY <1>1, <1>3, <2>1
<1>5. r.shape[1] * r.shape[2] \in Nat
  BY <1>1
<1>6. Queued(i) <= r.shape[1] * r.shape[2] /\ Segments(i) <= r.shape[1]
  <2>1. CASE r.pc = "idle"
    BY <1>1, <1>5, <2>1 DEF Queued, Segments
  <2>2. CASE r.pc = "queued"
    BY <1>1, <1>5, <2>2 DEF Queued, Segments
  <2>3. CASE r.pc = "submit"
    <3>1. Queued(i) = (r.seg - 1) * r.shape[2] + (r.chunk - 1) /\ Segments(i) = r.seg - 1
      BY <2>3 DEF Queued, Segments
    <3>2. r.shape[1] * r.shape[2]
            = (r.seg - 1) * r.shape[2] + r.shape[2] + (r.shape[1] - r.seg) * r.shape[2]
      BY <1>1
    <3>3. (r.shape[1] - r.seg) * r.shape[2] \in Nat
      BY <1>1, <1>2
    <3>4. (r.seg - 1) * r.shape[2] \in Int
      BY <1>1
    <3>5. Queued(i) <= r.shape[1] * r.shape[2]
      BY <1>1, <1>2, <3>1, <3>2, <3>3, <3>4
    <3>6. QED BY <1>1, <1>2, <3>1, <3>5
  <2>4. QED BY <1>1, <2>1, <2>2, <2>3 DEF Requests
<1>7. QED BY <1>1, <1>4, <1>5, <1>6

\* A request of one segment is completed exactly once, when the last of its
\* transfers leaves the list and, unless a PERF stop halted one of them, after
\* all were executed: for any number of requests, transfers and ioctls.
THEOREM AioCompletes == Spec => []AioCompletedOnce
<1>1. ASSUME AioInv, NEW i \in Iocbs, aio[i].shape[1] = 1
      PROVE  /\ completed[i] <= 1
             /\ completed[i] = 1 => ~Listed(i)
             /\ aio[i].pc = "queued" /\ ~Listed(i) => completed[i] = 1
             /\ completed[i] = 1 /\ ~misdirected => executed[i] \in {0, aio[i].shape[2]}
  <2>1. /\ aio[i] \in Requests /\ aio[i].shape[2] \in Nat /\ executed[i] \in Nat
        /\ aio[i].seg \in Nat \ {0} /\ completed[i] \in 0 .. 1
    BY <1>1, RequestTypes, RequestBounds DEF AioInv
  <2>2. /\ Waiting(i) \in Nat /\ Completing(i) \in Nat /\ HeadDone(i) \in {0, 1}
        /\ HeadDone(i) <= Waiting(i)
        /\ Listed(i) <=> Waiting(i) # 0
        /\ ~Listed(i) => Completing(i) = 0
        /\ EndsInLast(i) /\ Completing(i) = 0 => ~Listed(i)
    BY <1>1, ListFacts DEF AioInv
  <2>3. Counts(i) /\ Single(i)
    BY <1>1 DEF AioInv, RequestInv
  <2>4. aio[i].pc = "queued" => completed[i] + Completing(i) = 1 /\ EndsInLast(i)
    BY <1>1, <2>3 DEF Single
  <2>5. ASSUME completed[i] = 1 PROVE aio[i].pc = "queued" /\ ~Listed(i)
    <3>1. Segments(i) >= 1
      <4>1. Segments(i) \in Int
        BY <1>1, RequestTypes DEF AioInv
      <4>2. completed[i] + Completing(i) <= Segments(i)
        BY <2>3 DEF Counts
      <4>3. QED BY <2>2, <2>5, <4>1, <4>2
    <3>2. aio[i].seg = 1
      BY <1>1, <2>1 DEF AioInv, AioType
    <3>3. aio[i].pc = "queued"
      BY <2>1, <3>1, <3>2 DEF Segments, Requests
    <3>4. Completing(i) = 0
      BY <2>2, <2>4, <2>5, <3>3
    <3>5. QED BY <2>2, <2>4, <3>3, <3>4
  <2>6. ASSUME aio[i].pc = "queued", ~Listed(i) PROVE completed[i] = 1
    BY <2>1, <2>2, <2>4, <2>6
  <2>7. ASSUME completed[i] = 1, ~misdirected PROVE executed[i] \in {0, aio[i].shape[2]}
    <3>1. Queued(i) = 1 * aio[i].shape[2]
      BY <1>1, <2>5, <2>7 DEF Queued
    <3>2. Waiting(i) = 0 /\ HeadDone(i) = 0
      BY <2>2, <2>5, <2>7
    <3>3. executed[i] = 0 \/ executed[i] + Waiting(i) = Queued(i) + HeadDone(i)
      BY <1>1, <2>3, <2>7 DEF Single
    <3>4. QED BY <2>1, <3>1, <3>2, <3>3
  <2>8. QED BY <2>1, <2>5, <2>6, <2>7
<1>2. AioInv => AioCompletedOnce
  BY <1>1 DEF AioCompletedOnce
<1>3. QED BY <1>2, AioInvariant, PTL

\* The ranges of all variables of the model, and the bounds of what is executed
\* and completed.
THEOREM AsyncTypeCorrect == Spec => []TypeOK
<1>1. ASSUME AioInv, EventInv, SafeInv
      PROVE  TypeOK
  <2>1. ASSUME NEW i \in Iocbs
        PROVE  /\ aio[i].pc \in {"idle", "submit", "queued"}
               /\ aio[i].shape \in Shapes \cup {<<1, 1>>}
               /\ aio[i].seg \in 1 .. aio[i].shape[1]
               /\ aio[i].chunk \in 1 .. aio[i].shape[2]
    BY <1>1 DEF AioInv, AioType, Requests
  <2>2. /\ transfer_list \in Seq([owner : Iocbs \cup {Perf}, last_in_request : BOOLEAN])
        /\ hw \in {"idle", "run", "done"}
        /\ svc \in {"idle", "perf", "use", "final", "broken", "bug"}
    BY <1>1 DEF AioInv, EngineInv
  <2>3. {running, idle_irq, ch_irq, work, user_irq, events_irq, unseen, overlapped,
         misdirected} \subseteq BOOLEAN
    BY <1>1 DEF AioInv, AioType, EngineInv, EventInv, SafeInv
  <2>4. \A a \in Admins : admin[a] \in {"idle", "alloc", "submit", "stop", "stats",
                                        "free", "null", "get", "broken"}
    BY <1>1 DEF SafeInv
  <2>5. \A r \in Readers : reader[r] \in {"idle", "wait", "asleep", "take"}
    BY <1>1 DEF EventInv
  <2>6. xdma_perf \in {"null", "live", "freed"}
    BY <1>1 DEF SafeInv
  <2>7. QED BY <1>1, <2>1, <2>2, <2>3, <2>4, <2>5, <2>6, RequestBounds DEF TypeOK
<1>2. Init => AioInv /\ EventInv /\ SafeInv
  BY AioInit DEF Init, EventInv, SafeInv, PerfInv
<1>3. AioInv /\ EventInv /\ SafeInv /\ [Next]_vars => AioInv' /\ EventInv' /\ SafeInv'
  BY AioInvStep, EventStep, SafeStep DEF AioInv
<1>4. QED BY <1>1, <1>2, <1>3, PTL DEF Spec
=============================================================================
