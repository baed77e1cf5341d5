--------------------------- MODULE XdmaPollProofs ---------------------------
(***************************************************************************)
(* Proofs for XdmaPoll, for every number of threads, transfers, faults and *)
(* descriptors: the types, no transfer stranded on an engine that nobody   *)
(* will start again, and, for a thread alone in the engine, a success that *)
(* is real and a driver that does not break.  Rounds of timeouts leave the *)
(* engine running with the word of an earlier transfer (LateWord), which   *)
(* is what the inductive invariant is about.                               *)
(***************************************************************************)
EXTENDS XdmaPoll, WellFoundedInduction, TLAPS

(***************************************************************************)
(* Sums of descriptor counts and the transfers passed over.                *)
(***************************************************************************)

\* Every set of natural numbers that is not empty has a least element.
LEMMA LeastElement ==
  ASSUME NEW T, T \subseteq Nat, T # {}
  PROVE  \E i \in T : \A j \in T : i <= j
<1> DEFINE R == OpToRel(<, Nat)
<1>1. IsWellFoundedOn(R, Nat)
  BY NatLessThanWellFounded
<1>2. \A i, j \in Nat : j < i => <<j, i>> \in R
  BY DEF OpToRel
<1> HIDE DEF R
<1>3. \E i \in T : \A j \in T : ~(<<j, i>> \in R)
  BY <1>1, WFMin
<1>4. PICK i \in T : \A j \in T : ~(j < i)
  BY <1>2, <1>3, Zenon
<1>5. \A j \in T : i <= j
  BY <1>4
<1>6. QED BY <1>5

\* The running sum of the numbers g[1], g[2], ... exists.
LEMMA SumExists ==
  ASSUME NEW n \in Nat, NEW g \in [1 .. n -> Nat]
  PROVE  \E f \in [0 .. n -> Nat] :
           f = [i \in 0 .. n |-> IF i = 0 THEN 0 ELSE f[i - 1] + g[i]]
<1> DEFINE Good(m) == \E f \in [0 .. m -> Nat] :
                        f = [i \in 0 .. m |-> IF i = 0 THEN 0 ELSE f[i - 1] + g[i]]
           Bad == {m \in 0 .. n : ~Good(m)}
<1>1. Good(0)
  <2> DEFINE f == [i \in 0 .. 0 |-> 0]
  <2>1. f \in [0 .. 0 -> Nat]
    OBVIOUS
  <2>2. f = [i \in 0 .. 0 |-> IF i = 0 THEN 0 ELSE f[i - 1] + g[i]]
    OBVIOUS
  <2>3. QED BY <2>1, <2>2
<1>2. ASSUME NEW m \in 0 .. n - 1, Good(m) PROVE Good(m + 1)
  <2>1. PICK f \in [0 .. m -> Nat] :
          f = [i \in 0 .. m |-> IF i = 0 THEN 0 ELSE f[i - 1] + g[i]]
    BY <1>2
  <2> DEFINE h == [i \in 0 .. m + 1 |-> IF i = m + 1 THEN f[m] + g[m + 1] ELSE f[i]]
  <2>2. h \in [0 .. m + 1 -> Nat]
    <3>1. m \in Nat /\ m + 1 \in 1 .. n /\ m \in 0 .. m
      OBVIOUS
    <3>2. f[m] + g[m + 1] \in Nat
      BY <3>1
    <3>3. \A i \in 0 .. m + 1 : i # m + 1 => i \in 0 .. m
      BY <3>1
    <3>4. QED BY <3>2, <3>3
  <2>3. ASSUME NEW i \in 0 .. m + 1
        PROVE  h[i] = IF i = 0 THEN 0 ELSE h[i - 1] + g[i]
    <3>1. \A k \in 0 .. m : f[k] = IF k = 0 THEN 0 ELSE f[k - 1] + g[k]
      BY <2>1
    <3>2. QED BY <3>1
  <2>4. h = [i \in 0 .. m + 1 |-> IF i = 0 THEN 0 ELSE h[i - 1] + g[i]]
    BY <2>2, <2>3
  <2>5. QED BY <2>2, <2>4
<1> HIDE DEF Good
<1>3. Bad = {}
  <2> SUFFICES ASSUME Bad # {} PROVE FALSE
    OBVIOUS
  <2>1. PICK m \in Bad : \A j \in Bad : m <= j
    <3>1. Bad \subseteq Nat
      OBVIOUS
    <3> HIDE DEF Bad
    <3>2. QED BY <3>1, LeastElement
  <2>2. m # 0
    BY <1>1
  <2>3. Good(m - 1)
    BY <2>1, <2>2
  <2>4. Good(m - 1 + 1)
    BY <2>2, <2>3, <1>2
  <2>5. QED BY <2>4
<1>4. Good(n)
  BY <1>3
<1>5. QED BY <1>4 DEF Good

\* The descriptors of the first j transfers.
LEMMA DescSumValue ==
  ASSUME transfer_list \in Seq(Transfers), desc_num \in [Transfers -> Nat]
  PROVE  /\ \A j \in 0 .. Len(transfer_list) : DescSum(j) \in Nat
         /\ DescSum(0) = 0
         /\ transfer_list # <<>> => DescSum(1) = desc_num[transfer_list[1]]
<1> DEFINE n == Len(transfer_list)
           g == [i \in 1 .. n |-> desc_num[transfer_list[i]]]
           F(f) == [i \in 0 .. n |->
                      IF i = 0 THEN 0 ELSE f[i - 1] + desc_num[transfer_list[i]]]
           sum == CHOOSE f : f = F(f)
<1>1. n \in Nat /\ g \in [1 .. n -> Nat]
  OBVIOUS
<1>2. PICK f \in [0 .. n -> Nat] :
        f = [i \in 0 .. n |-> IF i = 0 THEN 0 ELSE f[i - 1] + g[i]]
  BY <1>1, SumExists
<1>3. f = F(f)
  <2>1. \A i \in 0 .. n : f[i] = IF i = 0 THEN 0 ELSE f[i - 1] + desc_num[transfer_list[i]]
    <3>1. \A i \in 0 .. n : f[i] = IF i = 0 THEN 0 ELSE f[i - 1] + g[i]
      BY <1>2
    <3>2. \A i \in 1 .. n : g[i] = desc_num[transfer_list[i]]
      OBVIOUS
    <3> HIDE DEF g
    <3>3. QED BY <1>1, <3>1, <3>2
  <2>2. QED BY <2>1
<1>4. sum = F(sum)
  BY <1>3
<1>5. \A j : DescSum(j) = sum[j]
  BY DEF DescSum
<1>6. sum = f
  <2> DEFINE Bad == {i \in 0 .. n : sum[i] # f[i]}
  <2>1. \A i \in 0 .. n :
          /\ sum[i] = IF i = 0 THEN 0 ELSE sum[i - 1] + desc_num[transfer_list[i]]
          /\ f[i] = IF i = 0 THEN 0 ELSE f[i - 1] + desc_num[transfer_list[i]]
    BY <1>3, <1>4
  <2> HIDE DEF sum
  <2>2. ASSUME Bad # {} PROVE FALSE
    <3>1. PICK m \in Bad : \A j \in Bad : m <= j
      <4>1. Bad \subseteq Nat
        OBVIOUS
      <4> HIDE DEF Bad
      <4>2. QED BY <2>2, <4>1, LeastElement
    <3>2. m # 0
      BY <2>1
    <3>3. m - 1 \in 0 .. n /\ m - 1 \notin Bad
      BY <3>1, <3>2
    <3>4. QED BY <2>1, <3>2, <3>3
  <2>3. \A i \in 0 .. n : sum[i] = f[i]
    BY <2>2
  <2>4. F(sum) = F(f)
    BY <2>3, <1>1
  <2>5. QED BY <1>3, <1>4, <2>4
<1> HIDE DEF sum
<1>7. \A j \in 0 .. n : sum[j] \in Nat
  BY <1>6
<1>8. sum[0] = 0
  BY <1>4, <1>1
<1>9. n >= 1 => sum[1] = desc_num[transfer_list[1]]
  <2> SUFFICES ASSUME n >= 1 PROVE sum[1] = desc_num[transfer_list[1]]
    OBVIOUS
  <2>1. sum[1] = sum[0] + desc_num[transfer_list[1]]
    BY <1>4, <1>1
  <2>2. QED BY <2>1, <1>8
<1>10. QED BY <1>5, <1>7, <1>8, <1>9

\* The walk passes over some of the listed transfers, at most all of them.
LEMMA PassedOverRange ==
  ASSUME transfer_list \in Seq(Transfers), desc_num \in [Transfers -> Nat],
         NEW k \in Int
  PROVE  /\ PassedOver(k) \in 0 .. Len(transfer_list)
         /\ k >= 0 => \A j \in PassedOver(k) + 1 .. Len(transfer_list) : k <= DescSum(j)
         /\ k >= 0 => PassedOver(k) = 0 \/ k > DescSum(PassedOver(k))
<1> DEFINE n == Len(transfer_list)
           S == {j \in 0 .. n : j = 0 \/ k > DescSum(j)}
<1>1. n \in Nat /\ S \subseteq 0 .. n /\ 0 \in S
  OBVIOUS
<1>2. \E x \in S : \A y \in S : x >= y
  <2> DEFINE T == {n - j : j \in S}
  <2>1. T \subseteq Nat /\ T # {}
    BY <1>1
  <2>2. PICK i \in T : \A j \in T : i <= j
    BY <2>1, LeastElement
  <2>3. PICK x \in S : i = n - x
    OBVIOUS
  <2>4. \A y \in S : n - x <= n - y
    BY <2>2, <2>3
  <2>5. QED BY <1>1, <2>4
<1>3. Max(S) \in S /\ \A y \in S : Max(S) >= y
  BY <1>2 DEF Max
<1>4. k >= 0 => PassedOver(k) = Max(S)
  BY DEF PassedOver
<1>5. k < 0 => PassedOver(k) = n
  BY DEF PassedOver
<1>6. \A j \in 0 .. n : DescSum(j) \in Nat
  BY DescSumValue
<1> HIDE DEF S
<1>7. ASSUME NEW j \in Max(S) + 1 .. n PROVE k <= DescSum(j)
  <2>1. Max(S) \in 0 .. n
    BY <1>1, <1>3
  <2>2. j \in 0 .. n /\ j # 0 /\ j \notin S
    BY <1>1, <1>3, <2>1
  <2>3. ~(k > DescSum(j)) /\ DescSum(j) \in Nat
    BY <1>6, <2>2 DEF S
  <2>4. QED BY <2>3
<1>8. QED BY <1>1, <1>3, <1>4, <1>5, <1>7 DEF S

\* A list that grew or shrank is still a list of something; the engine is
\* marked running before transfer_queue() lets go of the lock.
LEMMA QueueStarts ==
  ASSUME NEW t \in Threads, NothingStranded, TransferQueue(t)
  PROVE  NothingStranded'
BY DEF NothingStranded, TransferQueue, EngineStart, Broken

\* engine_service() either keeps the engine running, restarts it for what is
\* still listed, or stops it with the list empty.
LEMMA ServiceRestarts ==
  ASSUME NEW t \in Threads, NothingStranded, Service(t)
  PROVE  NothingStranded'
<1>1. PICK rest : /\ transfer_list' = rest
                  /\ IF ServiceStops(desc_wb[t]) /\ MustRestart(rest)
                       THEN running' = TRUE
                       ELSE running' = ~ServiceStops(desc_wb[t])
  BY DEF Service, ServiceList, EngineStart
<1>2. CASE ServiceStops(desc_wb[t])
  BY <1>1, <1>2 DEF MustRestart, NothingStranded
<1>3. CASE ~ServiceStops(desc_wb[t])
  BY <1>1, <1>3 DEF NothingStranded
<1>4. QED BY <1>2, <1>3

\* A thread that finds the assertion of the service routine violated halts
\* the model.
LEMMA BugBreaks ==
  ASSUME NEW t \in Threads, ServiceBug(t), DOMAIN pc = Threads
  PROVE  NothingStranded'
BY DEF ServiceBug, NothingStranded, Broken

\* The list and the running flag are touched by no other step, and a kernel
\* bug is final.
LEMMA OthersKeep ==
  ASSUME NothingStranded, UNCHANGED <<transfer_list, running>>, Broken => Broken'
  PROVE  NothingStranded'
BY DEF NothingStranded

PollInv ==
  /\ DOMAIN pc = Threads
  /\ NothingStranded

LEMMA PollInvStep == PollInv /\ [Next]_vars => PollInv'
<1> SUFFICES ASSUME PollInv, [Next]_vars PROVE PollInv'
  OBVIOUS
<1> USE DEF PollInv
<1>1. ASSUME NEW t \in Threads, Request(t) PROVE PollInv'
  <2>1. DOMAIN pc' = Threads /\ ~Broken /\ UNCHANGED <<transfer_list, running>>
    BY <1>1 DEF Request, engine_vars
  <2>2. QED BY <2>1, OthersKeep
<1>2. ASSUME NEW t \in Threads, TransferQueue(t) PROVE PollInv'
  <2>1. DOMAIN pc' = Threads
    BY <1>2 DEF TransferQueue
  <2>2. QED BY <1>2, <2>1, QueueStarts
<1>3. ASSUME NEW t \in Threads, Service(t) PROVE PollInv'
  <2>1. DOMAIN pc' = Threads
    BY <1>3 DEF Service
  <2>2. QED BY <1>3, <2>1, ServiceRestarts
<1>4. ASSUME NEW t \in Threads, ServiceBug(t) PROVE PollInv'
  <2>1. DOMAIN pc' = Threads
    BY <1>4 DEF ServiceBug
  <2>2. QED BY <1>4, <2>1, BugBreaks
<1>5. ASSUME NEW t \in Threads,
             Poll(t) \/ PollTimeout(t) \/ ServiceNotRunning(t) \/ Destroy(t)
               \/ Abandon(t)
      PROVE  PollInv'
  <2>1. DOMAIN pc' = Threads /\ ~Broken /\ UNCHANGED <<transfer_list, running>>
    BY <1>5 DEF Poll, PollTimeout, ServiceNotRunning, Destroy, Abandon, engine_vars
  <2>2. QED BY <2>1, OthersKeep
<1>6. CASE HwStep \/ HwError
  <2>1. DOMAIN pc' = Threads /\ ~Broken /\ UNCHANGED <<transfer_list, running>>
    BY <1>6 DEF HwStep, HwDescriptor, HwLastDescriptor, HwError, engine_vars, thread_vars
  <2>2. QED BY <2>1, OthersKeep
<1>7. CASE UNCHANGED vars
  <2>1. UNCHANGED <<pc, transfer_list, running>>
    BY <1>7 DEF vars, thread_vars, engine_vars
  <2>2. Broken => Broken'
    BY <2>1 DEF Broken
  <2>3. QED BY <2>1, <2>2, OthersKeep
<1>8. QED
  BY <1>1, <1>2, <1>3, <1>4, <1>5, <1>6, <1>7 DEF Next, ThreadStep, Halted, OutOfMemory

\* In poll mode, whichever thread services the engine for whom, with polls
\* that time out, words read before another thread's service, and transfers
\* the hardware aborts: an engine that is not running has nothing queued.
THEOREM NoStrandedTransfer == Spec => []NothingStranded
<1>1. Init => PollInv
  BY DEF Init, PollInv, NothingStranded
<1>2. PollInv => NothingStranded
  BY DEF PollInv
<1>3. QED BY <1>1, <1>2, PollInvStep, PTL DEF Spec

(***************************************************************************)
(* What a thread alone in the engine meets.                                *)
(***************************************************************************)
Active(t) == pc[t] \in {"queue", "poll", "service", "check"}

\* Different threads hold different transfers, and what a thread, the list or
\* the hardware refers to is allocated, until something breaks.
Ownership ==
  \/ Broken
  \/ /\ \A t \in Threads : Active(t) => transfer[t] \in live
     /\ \A t, u \in Threads : Active(t) /\ Active(u) /\ t # u => transfer[t] # transfer[u]
     /\ hw_transfer \in live \cup {None}

PollTypeInv == TypeOK /\ hw_error \in BOOLEAN /\ Ownership

\* The engine at rest between requests.
Quiet ==
  ~running /\ transfer_list = <<>> /\ hw_transfer = None /\ wb = NoWord

\* What the hardware wrote back for a transfer that a timed out poll had
\* already taken off the list: an error, or a count that desc_dequeued covers.
LateWord ==
  /\ hw_transfer = None
  /\ running
  /\ faults > 0
  /\ IF wb.err THEN hw_error ELSE wb.count = desc_dequeued /\ wb.count > 0

\* The hardware has x, the only transfer, in hand or is done with it.
Executing(x) ==
  /\ running
  /\ desc_dequeued = 0
  /\ \/ /\ hw_transfer = x /\ hw_count < desc_num[x] /\ ~hw_error
        /\ wb = NoWord
     \/ /\ hw_transfer = None /\ hw_count = desc_num[x] /\ ~hw_error
        /\ wb = Word(hw_count, FALSE) /\ x \in executed
     \/ hw_transfer = None /\ hw_error /\ wb = Word(hw_count, TRUE)

\* The transfer x of a thread alone is listed and not serviced yet.
Pending(x) ==
  /\ transfer_list = <<x>>
  /\ state[x] = "SUBMITTED"
  /\ Executing(x) \/ LateWord

\* The word w the thread read: that of the writeback, or what a timeout made
\* of it.
WordRead(w, x) ==
  \/ w = wb /\ (w.err \/ w.count = desc_num[x])
  \/ /\ faults > 0
     /\ \/ Executing(x) /\ w = NoWord
        \/ /\ LateWord /\ ~wb.err
           /\ w \in {wb, Word(desc_num[x], TRUE)} /\ w.count > 0
           /\ w.err => w.count < wb.count

\* The transfer x was judged: everything is at rest, or it failed on an
\* error and stays listed, or it timed out under the running hardware.
Judged(x) ==
  /\ state[x] \in {"COMPLETED", "FAILED"}
  /\ state[x] = "COMPLETED" => x \in executed
  /\ \/ Quiet
     \/ transfer_list = <<x>> /\ faults > 0
     \/ /\ transfer_list = <<>> /\ faults > 0 /\ running
        /\ hw_transfer = x /\ hw_count < desc_num[x]
        /\ wb = NoWord /\ desc_dequeued = desc_num[x]
     \/ transfer_list = <<>> /\ LateWord

\* The state of the engine for the thread t, the only one that may be active.
Alone(t) ==
  /\ pc[t] \in {"idle", "queue"} => Quiet \/ (transfer_list = <<>> /\ LateWord)
  /\ pc[t] \in {"poll", "service"} => Pending(transfer[t])
  /\ pc[t] = "service" => WordRead(desc_wb[t], transfer[t])
  /\ pc[t] = "check" => Judged(transfer[t])

ErrorNeedsFault == hw_error \/ wb.err \/ "ERROR" \in status => faults > 0

AloneInv ==
  ~shared =>
    /\ ~false_ok
    /\ Broken => faults > 0
    /\ ~Broken =>
         /\ \A t, u \in Threads : pc[t] # "idle" /\ pc[u] # "idle" => t = u
         /\ \A t \in Threads : (\A u \in Threads \ {t} : pc[u] = "idle") => Alone(t)

SoundInv == PollTypeInv /\ ErrorNeedsFault /\ AloneInv

(***************************************************************************)
(* Types.                                                                  *)
(***************************************************************************)

\* The word a thread works with, the status and the count of the service
\* routine have their types.
LEMMA ServiceTypes ==
  ASSUME PollTypeInv, ~Broken, NEW w \in Words
  PROVE  /\ transfer_list \in Seq(Transfers)
         /\ desc_num \in [Transfers -> Nat]
         /\ ServiceStatus(w) \in SUBSET {"BUSY", "ERROR"}
         /\ ServiceCount(w) \in Int
         /\ ServiceStops(w) \in BOOLEAN
         /\ ReadsStatus(w) \in BOOLEAN
         /\ PassedOver(ServiceCount(w)) \in 0 .. Len(transfer_list)
<1>1. transfer_list \in Seq(Transfers) /\ desc_num \in [Transfers -> Nat]
  BY PollAssumption DEF PollTypeInv, TypeOK
<1>2. ServiceCount(w) \in Int
  BY PollAssumption DEF PollTypeInv, TypeOK, ServiceCount, Words
<1>3. ServiceStatus(w) \in SUBSET {"BUSY", "ERROR"}
  BY DEF PollTypeInv, TypeOK, ServiceStatus, StatusRegister
<1>4. ReadsStatus(w) \in BOOLEAN /\ ServiceStops(w) \in BOOLEAN
  BY DEF ReadsStatus, ServiceStops, Words
<1>5. QED BY <1>1, <1>2, <1>3, <1>4, PassedOverRange

\* The least values of the bounded types.
LEMMA Bottoms == NoWord \in Words /\ 0 \in 0 .. MaxDesc /\ 1 \in 1 .. MaxDesc
BY PollAssumption DEF NoWord, Word, Words

LEMMA EngineStartTyped ==
  ASSUME NEW y \in live, EngineStart(y)
  PROVE  /\ running' \in BOOLEAN
         /\ desc_dequeued' \in Nat
         /\ hw_transfer' \in live \cup {None}
         /\ hw_count' \in 0 .. MaxDesc
         /\ hw_error' \in BOOLEAN
<1>1. running' \in BOOLEAN /\ hw_error' \in BOOLEAN
  BY DEF EngineStart
<1>2. desc_dequeued' \in Nat /\ hw_count' \in 0 .. MaxDesc
  BY Bottoms DEF EngineStart
<1>3. hw_transfer' \in live \cup {None}
  BY DEF EngineStart
<1>4. QED BY <1>1, <1>2, <1>3

LEMMA ServiceTyped ==
  ASSUME PollTypeInv, NEW t \in Threads, Service(t)
  PROVE  PollTypeInv'
<1> DEFINE w == desc_wb[t]
           p == PassedOver(ServiceCount(w))
           st == ServiceStatus(w)
           x == transfer_list[p + 1]
           err == "ERROR" \in st
           rest == StillListed(p, err)
<1>0. ~Broken /\ w \in Words
  BY DEF Service, PollTypeInv, TypeOK
<1>1. /\ transfer_list \in Seq(Transfers)
      /\ desc_num \in [Transfers -> Nat]
      /\ st \in SUBSET {"BUSY", "ERROR"}
      /\ ServiceStops(w) \in BOOLEAN
      /\ ReadsStatus(w) \in BOOLEAN
      /\ p \in 0 .. Len(transfer_list) - 1
  <2>1. p \in 0 .. Len(transfer_list) /\ p < Len(transfer_list)
    BY <1>0, ServiceTypes DEF Service
  <2>2. QED BY <1>0, <2>1, ServiceTypes
<1>2. transfer_list \in Seq(live) /\ live \subseteq Transfers
  BY <1>0 DEF PollTypeInv, TypeOK
<1>3. x \in live
  BY <1>1, <1>2
<1>4. rest \in Seq(live) /\ (rest # <<>> => Head(rest) \in live)
  <2> HIDE DEF p, st
  <2>1. CASE err
    BY <1>1, <1>2, <2>1 DEF StillListed
  <2>2. CASE ~err
    BY <1>1, <1>2, <2>2 DEF StillListed
  <2>3. QED BY <2>1, <2>2
<1>5. DescSum(p) \in Nat
  BY <1>1, DescSumValue
<1>6. /\ state' = [y \in Transfers |->
                     CASE \E i \in 1 .. p : transfer_list[i] = y -> "COMPLETED"
                       [] y = x -> Verdict(x, ServiceCount(w) - DescSum(p), st)
                       [] OTHER -> state[y]]
      /\ transfer_list' = rest
      /\ status' = st
      /\ wb' = NoWord
      /\ desc_wb' = [desc_wb EXCEPT ![t].count = 0]
      /\ pc' = [pc EXCEPT ![t] = "check"]
      /\ UNCHANGED <<transfer, live, desc_num, history_vars>>
  BY DEF Service, ServiceList, ClearedWb
<1>7. /\ running' \in BOOLEAN
      /\ desc_dequeued' \in Nat
      /\ hw_transfer' \in live \cup {None}
      /\ hw_count' \in 0 .. MaxDesc
      /\ hw_error' \in BOOLEAN
  <2>1. CASE ServiceStops(w) /\ MustRestart(rest)
    <3>1. EngineStart(Head(rest))
      BY <2>1 DEF Service, ServiceList
    <3>2. Head(rest) \in live
      BY <2>1, <1>4 DEF MustRestart
    <3> HIDE DEF rest, w
    <3>3. QED BY <3>1, <3>2, EngineStartTyped
  <2>2. CASE ~(ServiceStops(w) /\ MustRestart(rest))
    <3>1. /\ running' = ~ServiceStops(w)
          /\ desc_dequeued' = desc_dequeued + DescSum(p)
                                + (IF err THEN 0 ELSE desc_num[x])
          /\ hw_transfer' = IF ServiceStops(w) \/ err THEN None ELSE hw_transfer
          /\ hw_error' = (hw_error /\ ~ReadsStatus(w))
          /\ hw_count' = hw_count
      BY <2>2 DEF Service, ServiceList
    <3>2. desc_num[x] \in Nat
      BY <1>1, <1>2, <1>3
    <3>3. desc_dequeued' \in Nat
      BY <1>5, <3>1, <3>2 DEF PollTypeInv, TypeOK
    <3>4. hw_transfer \in live \cup {None} /\ hw_count \in 0 .. MaxDesc
      BY <1>0 DEF PollTypeInv, TypeOK, Ownership
    <3>5. running' \in BOOLEAN /\ hw_error' \in BOOLEAN
      BY <1>1, <3>1 DEF PollTypeInv
    <3>6. QED BY <3>1, <3>3, <3>4, <3>5
  <2>3. QED BY <2>1, <2>2
<1>8. state' \in [Transfers -> {"NEW", "SUBMITTED", "COMPLETED", "FAILED"}]
  BY <1>6 DEF Verdict, PollTypeInv, TypeOK
<1>9. desc_wb' \in [Threads -> Words] /\ wb' \in Words
  <2>1. desc_wb \in [Threads -> Words]
    BY DEF PollTypeInv, TypeOK
  <2>2. [desc_wb[t] EXCEPT !.count = 0] \in Words
    BY <2>1, PollAssumption DEF Words
  <2>3. desc_wb' \in [Threads -> Words]
    BY <1>6, <2>1, <2>2
  <2>4. QED BY <1>6, <2>3, PollAssumption DEF NoWord, Word, Words
<1> HIDE DEF w, p, st, x, err, rest
<1>10. TypeOK'
  BY <1>1, <1>4, <1>6, <1>7, <1>8, <1>9, <1>0, <1>2
     DEF PollTypeInv, TypeOK, history_vars, Broken
<1>11. Ownership'
  <2>1. \A u \in Threads : Active(u)' => Active(u)
    BY <1>6 DEF Active, Service, PollTypeInv, TypeOK
  <2>2. QED BY <1>0, <1>6, <1>7, <2>1 DEF Ownership, PollTypeInv
<1>12. QED BY <1>7, <1>10, <1>11 DEF PollTypeInv

\* The other steps of a thread.
LEMMA ThreadTyped ==
  ASSUME PollTypeInv, NEW t \in Threads, Request(t) \/ ThreadStep(t)
  PROVE  PollTypeInv'
<1> USE DEF PollTypeInv
<1>1. CASE Request(t)
  <2>1. PICK x \in Transfers \ live, n \in 1 .. MaxDesc :
          /\ transfer' = [transfer EXCEPT ![t] = x]
          /\ live' = live \cup {x}
          /\ desc_num' = [desc_num EXCEPT ![x] = n]
    BY <1>1 DEF Request, FreeSlots
  <2>2. /\ ~Broken /\ pc[t] = "idle"
        /\ pc' = [pc EXCEPT ![t] = "queue"]
        /\ shared' = (shared \/ Busy(t))
        /\ UNCHANGED <<desc_wb, state, engine_vars, wb, hw_vars, executed, false_ok,
                       faults>>
    BY <1>1 DEF Request
  <2>3. transfer_list' \in Seq(live') /\ executed' \subseteq live'
    BY <2>1, <2>2 DEF TypeOK, engine_vars
  <2>4. shared' \in BOOLEAN
    BY <2>2 DEF TypeOK, Busy
  <2>5. TypeOK'
    BY <2>1, <2>2, <2>3, <2>4 DEF TypeOK, engine_vars, hw_vars
  <2>6. Ownership'
    BY <2>1, <2>2 DEF TypeOK, Ownership, Active, hw_vars
  <2>7. QED BY <2>2, <2>5, <2>6 DEF hw_vars
<1>2. CASE TransferQueue(t)
  <2>1. /\ ~Broken /\ pc[t] = "queue"
        /\ state' = [state EXCEPT ![transfer[t]] = "SUBMITTED"]
        /\ transfer_list' = Append(transfer_list, transfer[t])
        /\ pc' = [pc EXCEPT ![t] = "poll"]
        /\ UNCHANGED <<transfer, desc_wb, live, desc_num, status, wb, history_vars>>
    BY <1>2 DEF TransferQueue
  <2>2. transfer[t] \in live /\ transfer_list \in Seq(live)
    BY <2>1 DEF Ownership, Active, TypeOK
  <2>3. transfer_list' \in Seq(live) /\ Head(transfer_list') \in live
    BY <2>1, <2>2
  <2>4. /\ running' \in BOOLEAN
        /\ desc_dequeued' \in Nat
        /\ hw_transfer' \in live \cup {None}
        /\ hw_count' \in 0 .. MaxDesc
        /\ hw_error' \in BOOLEAN
    <3>1. CASE running
      BY <1>2, <3>1, <2>1 DEF TransferQueue, hw_vars, TypeOK, Ownership
    <3>2. CASE ~running
      <4>1. EngineStart(Head(transfer_list'))
        BY <1>2, <3>2 DEF TransferQueue
      <4>2. QED BY <2>3, <4>1, EngineStartTyped
    <3>3. QED BY <3>1, <3>2
  <2>5. TypeOK'
    BY <2>1, <2>2, <2>3, <2>4 DEF TypeOK, history_vars
  <2>6. Ownership'
    BY <2>1, <2>4 DEF TypeOK, Ownership, Active
  <2>7. QED BY <2>4, <2>5, <2>6
<1>3. CASE Poll(t)
  BY <1>3 DEF Poll, TypeOK, Ownership, Active, Broken, heap_vars, engine_vars, hw_vars,
              history_vars
<1>4. CASE PollTimeout(t)
  <2>1. /\ ~Broken /\ pc[t] = "poll"
        /\ pc' = [pc EXCEPT ![t] = "service"]
        /\ UNCHANGED <<transfer, heap_vars, engine_vars, wb, hw_vars, executed,
                       false_ok, shared>>
        /\ faults' \in 0 .. MaxFaults
    BY <1>4, PollAssumption DEF PollTimeout, Fault, TypeOK
  <2>2. transfer[t] \in Transfers
    BY <2>1 DEF Ownership, Active, TypeOK
  <2>3. Word(desc_num[transfer[t]], TRUE) \in Words
    BY <2>2, PollAssumption DEF TypeOK, Word, Words
  <2>4. desc_wb' \in [Threads -> Words]
    BY <1>4, <2>3 DEF PollTimeout, TypeOK
  <2>5. TypeOK'
    BY <2>1, <2>4 DEF TypeOK, heap_vars, engine_vars, hw_vars
  <2>6. QED BY <2>1, <2>5 DEF TypeOK, Ownership, Active, hw_vars, heap_vars
<1>5. CASE ServiceNotRunning(t)
  <2>1. /\ ~Broken /\ pc[t] = "service"
        /\ pc' = [pc EXCEPT ![t] = "check"]
        /\ desc_wb' = [desc_wb EXCEPT ![t] = NoWord]
        /\ UNCHANGED <<transfer, heap_vars, transfer_list, running, desc_dequeued,
                       wb, hw_transfer, hw_count, history_vars>>
    BY <1>5 DEF ServiceNotRunning
  <2>2. status' \in SUBSET {"BUSY", "ERROR"} /\ hw_error' \in BOOLEAN
    BY <1>5 DEF ServiceNotRunning, StatusRegister, TypeOK
  <2>3. desc_wb' \in [Threads -> Words]
    BY <2>1, PollAssumption DEF TypeOK, NoWord, Word, Words
  <2>4. TypeOK'
    BY <2>1, <2>2, <2>3 DEF TypeOK, heap_vars, history_vars
  <2>5. QED BY <2>1, <2>2, <2>4 DEF TypeOK, Ownership, Active, heap_vars
<1>6. CASE Service(t)
  BY <1>6, ServiceTyped
<1>7. CASE ServiceBug(t)
  <2>1. /\ pc' = [pc EXCEPT ![t] = "broken"]
        /\ UNCHANGED <<transfer, desc_wb, heap_vars, engine_vars, wb, hw_vars,
                       history_vars>>
    BY <1>7 DEF ServiceBug
  <2>2. Broken'
    BY <2>1 DEF Broken, TypeOK
  <2>3. QED
    BY <2>1, <2>2 DEF TypeOK, Ownership, heap_vars, engine_vars, hw_vars, history_vars
<1>8. CASE Destroy(t)
  <2> DEFINE x == transfer[t]
  <2>1. /\ ~Broken /\ pc[t] = "check"
        /\ live' = live \ {x}
        /\ desc_num' = [desc_num EXCEPT ![x] = 1]
        /\ state' = [state EXCEPT ![x] = "NEW"]
        /\ executed' = executed \ {x}
        /\ pc' = [pc EXCEPT ![t] = IF Referenced(x) THEN "broken" ELSE "idle"]
        /\ transfer' = [transfer EXCEPT ![t] = None]
        /\ desc_wb' = [desc_wb EXCEPT ![t] = NoWord]
        /\ UNCHANGED <<engine_vars, wb, hw_vars, shared, faults>>
    BY <1>8 DEF Destroy, Return
  <2>2. false_ok' \in BOOLEAN
    BY <1>8 DEF Destroy, Return, TypeOK
  <2>3. desc_wb' \in [Threads -> Words] /\ desc_num' \in [Transfers -> 1 .. MaxDesc]
    BY <2>1, Bottoms DEF TypeOK
  <2>4. transfer_list' \in Seq(live') \/ Broken'
    <3>1. CASE Referenced(x)
      BY <2>1, <3>1 DEF Broken, TypeOK
    <3>2. CASE ~Referenced(x)
      <4>1. transfer_list \in Seq(live)
        BY <2>1 DEF TypeOK
      <4>2. \A i \in 1 .. Len(transfer_list) : transfer_list[i] \in live \ {x}
        BY <4>1, <3>2 DEF Referenced
      <4>3. QED BY <2>1, <4>1, <4>2 DEF engine_vars
    <3>3. QED BY <3>1, <3>2
  <2>5. TypeOK'
    BY <2>1, <2>2, <2>3, <2>4 DEF TypeOK, engine_vars, hw_vars
  <2>6. Ownership'
    <3>1. CASE Referenced(x)
      BY <2>1, <3>1 DEF Broken, TypeOK, Ownership
    <3>2. CASE ~Referenced(x)
      <4>1. hw_transfer' \in live' \cup {None}
        BY <2>1, <3>2 DEF Ownership, Referenced, hw_vars
      <4>2. \A u \in Threads : Active(u)' => u # t /\ Active(u) /\ transfer'[u] = transfer[u]
        BY <2>1, <3>2 DEF Active, TypeOK
      <4>3. Active(t) /\ \A u \in Threads : Active(u) /\ u # t => transfer[u] # x
        BY <2>1 DEF Active, Ownership
      <4>4. QED BY <2>1, <4>1, <4>2, <4>3 DEF Ownership
    <3>3. QED BY <3>1, <3>2
  <2>7. QED BY <2>1, <2>5, <2>6 DEF hw_vars
<1>9. CASE Abandon(t)
  <2>1. /\ ~Broken
        /\ pc' = [pc EXCEPT ![t] = "idle"]
        /\ transfer' = [transfer EXCEPT ![t] = None]
        /\ desc_wb' = [desc_wb EXCEPT ![t] = NoWord]
        /\ UNCHANGED <<heap_vars, engine_vars, wb, hw_vars, executed, shared, faults>>
    BY <1>9 DEF Abandon, Return
  <2>2. false_ok' \in BOOLEAN
    BY <1>9 DEF Abandon, Return, TypeOK
  <2>3. desc_wb' \in [Threads -> Words]
    BY <2>1, PollAssumption DEF TypeOK, NoWord, Word, Words
  <2>4. TypeOK'
    BY <2>1, <2>2, <2>3 DEF TypeOK, heap_vars, engine_vars, hw_vars
  <2>5. QED BY <2>1, <2>4 DEF TypeOK, Ownership, Active, heap_vars, hw_vars
<1>10. QED
  BY <1>1, <1>2, <1>3, <1>4, <1>5, <1>6, <1>7, <1>8, <1>9 DEF ThreadStep

\* The hardware works on allocated transfers only.
LEMMA HardwareTyped ==
  ASSUME PollTypeInv, HwStep \/ HwError
  PROVE  PollTypeInv'
<1> USE DEF PollTypeInv
<1>1. ~Broken /\ UNCHANGED <<thread_vars, heap_vars, engine_vars, false_ok, shared>>
  BY DEF HwStep, HwDescriptor, HwLastDescriptor, HwError, history_vars
<1>2. /\ hw_transfer \in live
      /\ hw_transfer' \in {hw_transfer, None}
      /\ hw_error' \in BOOLEAN
      /\ executed' \in {executed, executed \cup {hw_transfer}}
  BY <1>1 DEF HwStep, HwDescriptor, HwLastDescriptor, HwError, Ownership, history_vars
<1>3. faults' \in 0 .. MaxFaults
  <2>1. faults \in 0 .. MaxFaults /\ MaxFaults \in Nat
    BY PollAssumption DEF TypeOK
  <2>2. faults' = faults \/ (faults < MaxFaults /\ faults' = faults + 1)
    BY DEF HwStep, HwDescriptor, HwLastDescriptor, HwError, Fault, history_vars
  <2>3. QED BY <2>1, <2>2
<1>4. desc_num[hw_transfer] \in 1 .. MaxDesc
  BY <1>2 DEF TypeOK
<1>5. hw_count' \in 0 .. MaxDesc /\ wb' \in Words
  <2>1. hw_count \in 0 .. MaxDesc /\ wb \in Words
    BY DEF TypeOK
  <2>2. \A c \in 0 .. MaxDesc : \A e \in BOOLEAN : Word(c, e) \in Words
    BY DEF Word, Words
  <2>3. CASE HwDescriptor
    BY <1>4, <2>1, <2>3, PollAssumption DEF HwDescriptor
  <2>4. CASE HwLastDescriptor
    <3>1. hw_count + 1 \in 0 .. MaxDesc
      BY <1>4, <2>1, <2>4, PollAssumption DEF HwLastDescriptor
    <3>2. hw_count' = hw_count + 1 /\ wb' = Word(hw_count + 1, FALSE)
      BY <2>4 DEF HwLastDescriptor
    <3>3. QED BY <2>2, <3>1, <3>2
  <2>5. CASE HwError
    <3>1. hw_count' = hw_count /\ wb' = Word(hw_count, TRUE)
      BY <2>5 DEF HwError
    <3>2. QED BY <2>1, <2>2, <3>1
  <2>6. QED BY <2>3, <2>4, <2>5 DEF HwStep
<1>6. TypeOK'
  BY <1>1, <1>2, <1>3, <1>5 DEF TypeOK, thread_vars, heap_vars, engine_vars, Broken
<1>7. QED
  BY <1>1, <1>2, <1>6 DEF Ownership, Active, thread_vars, heap_vars

LEMMA PollTypeStep == PollTypeInv /\ [Next]_vars => PollTypeInv'
<1> SUFFICES ASSUME PollTypeInv, [Next]_vars PROVE PollTypeInv'
  OBVIOUS
<1>1. CASE UNCHANGED vars
  BY <1>1 DEF PollTypeInv, TypeOK, Ownership, Active, Broken, vars, thread_vars,
              heap_vars, engine_vars, hw_vars, history_vars
<1>2. QED
  BY <1>1, ThreadTyped, HardwareTyped DEF Next, Halted, OutOfMemory

LEMMA PollTypeInit == Init => PollTypeInv
<1>1. ASSUME Init PROVE TypeOK
  <2>1. /\ transfer_list \in Seq(live) /\ executed \subseteq live /\ live \subseteq Transfers
        /\ status \subseteq {"BUSY", "ERROR"}
    BY <1>1 DEF Init
  <2>2. /\ running \in BOOLEAN /\ false_ok \in BOOLEAN /\ shared \in BOOLEAN
    BY <1>1 DEF Init
  <2>3. /\ desc_dequeued \in Nat /\ hw_count \in 0 .. MaxDesc /\ faults \in 0 .. MaxFaults
    BY <1>1, PollAssumption DEF Init
  <2>4. QED BY <1>1, <2>1, <2>2, <2>3, Bottoms DEF Init, TypeOK
<1>2. Init => Ownership
  BY DEF Init, Ownership, Active
<1>3. QED BY <1>1, <1>2 DEF Init, PollTypeInv

\* The variables of the engine in poll mode keep their types, and the list
\* and the record of executed transfers refer to memory in use, whoever
\* services the engine for whom.
THEOREM PollTypeCorrect == Spec => []TypeOK
<1>1. PollTypeInv => TypeOK
  BY DEF PollTypeInv
<1>2. QED BY <1>1, PollTypeInit, PollTypeStep, PTL DEF Spec

(***************************************************************************)
(* A thread alone in the engine.                                           *)
(***************************************************************************)

\* What AloneInv says of a thread that finds itself alone.
LEMMA AloneNow ==
  ASSUME SoundInv, ~shared, ~Broken, NEW t \in Threads, pc[t] # "idle"
  PROVE  /\ \A u \in Threads \ {t} : pc[u] = "idle"
         /\ Alone(t)
<1>1. \A u \in Threads \ {t} : pc[u] = "idle"
  BY DEF SoundInv, AloneInv
<1>2. QED BY <1>1 DEF SoundInv, AloneInv

\* After a step of t it is enough to look at t.
LEMMA AloneLater ==
  ASSUME NEW t \in Threads, \A u \in Threads \ {t} : pc'[u] = "idle", Alone(t)',
         ~false_ok', ~Broken'
  PROVE  AloneInv'
<1>1. ASSUME NEW v \in Threads, \A u \in Threads \ {v} : pc'[u] = "idle"
      PROVE  Alone(v)'
  <2>1. CASE v = t
    BY <2>1
  <2>2. CASE v # t
    <3>1. pc'[t] = "idle" /\ pc'[v] = "idle"
      BY <1>1, <2>2
    <3>2. Quiet' \/ (transfer_list' = <<>> /\ LateWord')
      BY <3>1 DEF Alone
    <3>3. QED BY <3>1, <3>2 DEF Alone
  <2>3. QED BY <2>1, <2>2
<1>2. QED BY <1>1 DEF AloneInv

\* Requests and the poll loop.
LEMMA AloneRequest ==
  ASSUME SoundInv, NEW t \in Threads, Request(t), ~shared'
  PROVE  AloneInv'
<1>1. /\ ~Broken /\ pc[t] = "idle" /\ ~shared /\ ~Busy(t)
      /\ pc' = [pc EXCEPT ![t] = "queue"]
      /\ UNCHANGED <<transfer_list, running, desc_dequeued, wb, hw_transfer, hw_error,
                     faults, false_ok>>
  BY DEF Request, engine_vars, hw_vars, SoundInv, PollTypeInv, TypeOK
<1>2. DOMAIN pc = Threads
  BY DEF SoundInv, PollTypeInv, TypeOK
<1>3. \A u \in Threads \ {t} : pc[u] = "idle"
  BY <1>1 DEF Busy
<1>4. Quiet \/ (transfer_list = <<>> /\ LateWord)
  BY <1>1, <1>3 DEF SoundInv, AloneInv, Alone
<1>5. Alone(t)'
  BY <1>1, <1>2, <1>4 DEF Alone, Quiet, LateWord
<1>6. ~Broken' /\ \A u \in Threads \ {t} : pc'[u] = "idle"
  BY <1>1, <1>2, <1>3 DEF Broken
<1>7. ~false_ok'
  BY <1>1 DEF SoundInv, AloneInv
<1>8. QED BY <1>5, <1>6, <1>7, AloneLater

\* The thread t alone takes a step to label l without reporting a result.
LEMMA AloneMoves ==
  ASSUME SoundInv, NEW t \in Threads, pc[t] # "idle", ~shared, ~Broken,
         NEW l \in {"poll", "service", "check"},
         pc' = [pc EXCEPT ![t] = l], UNCHANGED false_ok,
         Alone(t)'
  PROVE  AloneInv'
<1>1. DOMAIN pc = Threads
  BY DEF SoundInv, PollTypeInv, TypeOK
<1>2. \A u \in Threads \ {t} : pc'[u] = "idle"
  BY <1>1, AloneNow
<1>3. ~Broken'
  BY <1>1 DEF Broken
<1>4. ~false_ok'
  BY DEF SoundInv, AloneInv
<1>5. QED BY <1>2, <1>3, <1>4, AloneLater

LEMMA AloneQueue ==
  ASSUME SoundInv, NEW t \in Threads, TransferQueue(t), ~shared
  PROVE  AloneInv'
<1> DEFINE x == transfer[t]
<1>1. /\ ~Broken /\ pc[t] = "queue"
      /\ state' = [state EXCEPT ![x] = "SUBMITTED"]
      /\ transfer_list' = Append(transfer_list, x)
      /\ IF running
           THEN UNCHANGED <<running, desc_dequeued, hw_vars>>
           ELSE EngineStart(Head(transfer_list'))
      /\ pc' = [pc EXCEPT ![t] = "poll"]
      /\ UNCHANGED <<transfer, desc_num, wb, false_ok, faults>>
  BY DEF TransferQueue, history_vars
<1>2. /\ x \in Transfers /\ desc_num[x] \in 1 .. MaxDesc
      /\ DOMAIN state = Transfers /\ DOMAIN pc = Threads
  BY <1>1 DEF SoundInv, PollTypeInv, TypeOK, Ownership, Active
<1>3. Alone(t)
  BY <1>1, AloneNow
<1>4. transfer_list = <<>> /\ (Quiet \/ LateWord)
  BY <1>1, <1>3 DEF Alone, Quiet
<1>5. transfer_list' = <<x>> /\ state'[x] = "SUBMITTED" /\ Head(transfer_list') = x
  BY <1>1, <1>2, <1>4
<1>6. Executing(x)' \/ LateWord'
  <2>1. CASE Quiet
    <3>1. EngineStart(x) /\ wb' = NoWord
      BY <1>1, <1>5, <2>1 DEF Quiet
    <3>2. hw_count' < desc_num'[x]
      BY <1>1, <1>2, <3>1 DEF EngineStart
    <3>3. QED BY <1>1, <3>1, <3>2 DEF EngineStart, Executing
  <2>2. CASE LateWord
    BY <1>1, <2>2 DEF LateWord, hw_vars
  <2>3. QED BY <1>4, <2>1, <2>2
<1>7. Pending(transfer[t])'
  BY <1>1, <1>5, <1>6 DEF Pending
<1>8. Alone(t)'
  BY <1>1, <1>2, <1>7 DEF Alone
<1>9. QED BY <1>1, <1>8, AloneMoves

LEMMA AlonePoll ==
  ASSUME SoundInv, NEW t \in Threads, Poll(t), ~shared
  PROVE  AloneInv'
<1>1. /\ ~Broken /\ pc[t] = "poll"
      /\ Expected(t)
      /\ desc_wb' = [desc_wb EXCEPT ![t] = wb]
      /\ pc' = [pc EXCEPT ![t] = "service"]
      /\ UNCHANGED <<transfer, heap_vars, engine_vars, wb, hw_vars, history_vars>>
  BY DEF Poll
<1>2. DOMAIN pc = Threads /\ DOMAIN desc_wb = Threads
  BY DEF SoundInv, PollTypeInv, TypeOK
<1>3. Pending(transfer[t])
  BY <1>1, AloneNow DEF Alone
<1>4. Pending(transfer[t])'
  BY <1>1, <1>3 DEF Pending, Executing, LateWord, heap_vars, engine_vars, hw_vars,
                    history_vars
<1>5. WordRead(desc_wb[t], transfer[t])'
  BY <1>1, <1>2 DEF WordRead, Expected, heap_vars
<1>6. Alone(t)'
  BY <1>1, <1>2, <1>4, <1>5 DEF Alone
<1>7. QED BY <1>1, <1>6, AloneMoves DEF history_vars

LEMMA AloneTimeout ==
  ASSUME SoundInv, NEW t \in Threads, PollTimeout(t), ~shared
  PROVE  AloneInv'
<1> DEFINE x == transfer[t]
<1>1. /\ ~Broken /\ pc[t] = "poll"
      /\ ~Expected(t)
      /\ desc_wb' = [desc_wb EXCEPT ![t] = IF wb.count > desc_num[x]
                                              THEN Word(desc_num[x], TRUE) ELSE wb]
      /\ pc' = [pc EXCEPT ![t] = "service"]
      /\ faults' = faults + 1
      /\ UNCHANGED <<transfer, heap_vars, engine_vars, wb, hw_vars, executed, false_ok>>
  BY DEF PollTimeout, Fault
<1>2. /\ x \in Transfers /\ desc_num[x] \in 1 .. MaxDesc
      /\ DOMAIN pc = Threads /\ DOMAIN desc_wb = Threads
      /\ faults \in Nat /\ wb \in Words
  BY <1>1 DEF SoundInv, PollTypeInv, TypeOK, Ownership, Active
<1>3. Pending(x)
  BY <1>1, AloneNow DEF Alone
<1>4. faults' > 0
  BY <1>1, <1>2
<1>5. Pending(transfer[t])'
  <2>1. Executing(x) => Executing(transfer[t])'
    BY <1>1 DEF Executing, heap_vars, engine_vars, hw_vars
  <2>2. LateWord => LateWord'
    BY <1>1, <1>4 DEF LateWord, engine_vars, hw_vars
  <2>3. QED BY <1>1, <1>3, <2>1, <2>2 DEF Pending, heap_vars, engine_vars
<1>6. WordRead(desc_wb[t], transfer[t])'
  <2>1. ~wb.err /\ wb.count # desc_num[x]
    BY <1>1 DEF Expected
  <2>2. CASE Executing(x)
    <3>1. wb = NoWord
      BY <2>1, <2>2 DEF Executing, Word
    <3>2. wb.count = 0
      BY <3>1 DEF NoWord, Word
    <3>3. desc_wb'[t] = NoWord
      <4>1. ~(wb.count > desc_num[x])
        BY <1>2, <3>2, PollAssumption
      <4>2. QED BY <1>1, <1>2, <3>1, <4>1
    <3>4. Executing(transfer[t])'
      BY <1>1, <2>2 DEF Executing, heap_vars, engine_vars, hw_vars
    <3>5. QED BY <1>4, <3>3, <3>4 DEF WordRead
  <2>3. CASE LateWord
    <3>1. LateWord' /\ ~wb'.err /\ wb.count > 0 /\ wb.count \in Nat
      BY <1>1, <1>2, <1>4, <2>1, <2>3 DEF LateWord, engine_vars, hw_vars, Words
    <3>2. CASE wb.count > desc_num[x]
      <4>1. desc_wb'[t] = Word(desc_num[x], TRUE)
        BY <1>1, <1>2, <3>2
      <4>2. desc_wb'[t].count = desc_num[x] /\ desc_wb'[t].count > 0
        BY <1>2, <4>1, PollAssumption DEF Word
      <4>3. QED BY <1>1, <1>4, <3>1, <3>2, <4>1, <4>2 DEF WordRead, heap_vars
    <3>3. CASE ~(wb.count > desc_num[x])
      <4>1. desc_wb'[t] = wb
        BY <1>1, <1>2, <3>3
      <4>2. QED BY <1>1, <1>4, <2>1, <3>1, <4>1 DEF WordRead
    <3>4. QED BY <3>2, <3>3
  <2>4. QED BY <1>3, <2>2, <2>3 DEF Pending
<1>7. Alone(t)'
  BY <1>1, <1>2, <1>5, <1>6 DEF Alone
<1>8. QED BY <1>1, <1>7, AloneMoves

\* What the service routine computes for a thread alone: the descriptors it
\* counts for the only transfer, and that it passes over none.
LEMMA AloneCounts ==
  ASSUME SoundInv, NEW t \in Threads, pc[t] = "service", ~shared, ~Broken
  PROVE  LET x == transfer[t]
             w == desc_wb[t]
             k == ServiceCount(w)
             st == ServiceStatus(w)
         IN /\ transfer_list = <<x>> /\ running
            /\ x \in live /\ x \in Transfers /\ desc_num[x] \in Nat \ {0}
            /\ k \in Int /\ PassedOver(k) \in {0, 1}
            /\ PassedOver(k) = 0 => k >= 0
            /\ DescSum(0) = 0
            /\ PassedOver(k) = 1 => faults > 0
            /\ "ERROR" \notin st /\ k >= desc_num[x] => PassedOver(k) = 1 \/ x \in executed
            /\ "ERROR" \in st => faults > 0
            /\ ServiceStops(w) \in BOOLEAN
            /\ ~ServiceStops(w) =>
                 hw_transfer = x /\ hw_count < desc_num[x] /\ desc_dequeued = 0 /\ faults > 0
<1> DEFINE x == transfer[t]
           w == desc_wb[t]
           k == ServiceCount(w)
           st == ServiceStatus(w)
<1>1. Pending(x) /\ WordRead(w, x)
  BY AloneNow DEF Alone
<1>2. transfer_list = <<x>> /\ Len(transfer_list) = 1 /\ transfer_list[1] = x
  BY <1>1 DEF Pending
<1>3. /\ x \in live /\ x \in Transfers /\ desc_num[x] \in 1 .. MaxDesc /\ desc_num[x] \in Nat \ {0}
      /\ w \in Words /\ wb \in Words /\ hw_count \in Nat /\ faults \in Nat
      /\ desc_dequeued \in Nat
  BY PollAssumption DEF SoundInv, PollTypeInv, TypeOK, Ownership, Active
<1>4. x # None
  BY <1>3, PollAssumption
<1>5. w.count \in Nat /\ wb.count \in Nat /\ w.err \in BOOLEAN /\ wb.err \in BOOLEAN
  BY <1>3, PollAssumption DEF Words
<1>6. /\ transfer_list \in Seq(Transfers) /\ desc_num \in [Transfers -> Nat]
      /\ k \in Int /\ ServiceStops(w) \in BOOLEAN
  BY <1>3, ServiceTypes DEF SoundInv
<1>7. DescSum(0) = 0 /\ DescSum(1) = desc_num[x]
  BY <1>2, <1>6, DescSumValue
<1>8. /\ PassedOver(k) \in {0, 1}
      /\ k >= 0 /\ PassedOver(k) = 1 => k > desc_num[x]
  BY <1>2, <1>6, <1>7, PassedOverRange
<1>9. PassedOver(k) = 0 => k >= 0
  BY <1>2, <1>6 DEF PassedOver
<1>10. running
  BY <1>1 DEF Pending, Executing, LateWord
<1>11. "ERROR" \in st => faults > 0
  BY DEF ServiceStatus, StatusRegister, SoundInv, ErrorNeedsFault
<1>w. \A c, e : Word(c, e).count = c /\ Word(c, e).err = e
  BY DEF Word
<1>s. hw_transfer = None => ServiceStops(w)
  BY DEF ServiceStops, ServiceStatus, ReadsStatus, StatusRegister
<1>r. hw_error /\ (w.count = 0 \/ w.err) => "ERROR" \in st
  BY DEF ServiceStatus, ReadsStatus, StatusRegister
<1>k. k = (IF w.count = 0 THEN hw_count ELSE w.count) - desc_dequeued
  BY DEF ServiceCount
<1>f. wb.err => faults > 0
  BY DEF SoundInv, ErrorNeedsFault
<1>12. /\ PassedOver(k) = 1 => faults > 0
       /\ "ERROR" \notin st /\ k >= desc_num[x] => PassedOver(k) = 1 \/ x \in executed
       /\ ~ServiceStops(w) =>
            hw_transfer = x /\ hw_count < desc_num[x] /\ desc_dequeued = 0 /\ faults > 0
  <2>n. NoWord.count = 0 /\ NoWord.err = FALSE
    BY <1>w DEF NoWord
  <2> HIDE DEF w, k, st, x
  <2>1. ASSUME hw_transfer = x, hw_count < desc_num[x], wb = NoWord, desc_dequeued = 0
        PROVE  w = NoWord /\ faults > 0 /\ k = hw_count
    <3>1. ~LateWord
      BY <1>4, <2>1 DEF LateWord
    <3>2. w = NoWord /\ faults > 0
      BY <1>1, <1>3, <2>1, <2>n, <3>1 DEF WordRead
    <3>3. QED BY <1>3, <1>k, <2>1, <2>n, <3>2
  <2>2. ASSUME hw_transfer = None, hw_count = desc_num[x], wb = Word(hw_count, FALSE),
               desc_dequeued = 0
        PROVE  PassedOver(k) = 1 => faults > 0
    <3>1. w = wb \/ faults > 0
      BY <1>1 DEF WordRead
    <3>2. w = wb => k = desc_num[x]
      <4>1. w = wb => w.count = desc_num[x]
        BY <2>2 DEF Word
      <4>2. w = wb => k = w.count - 0
        BY <1>3, <1>k, <2>2, <4>1
      <4>3. QED BY <1>3, <4>1, <4>2
    <3>3. QED BY <1>3, <1>8, <3>1, <3>2
  <2>3. ASSUME hw_error, wb.err
        PROVE  "ERROR" \in st
    <3>1. w = wb \/ w = NoWord
      BY <1>1, <2>3 DEF WordRead
    <3>2. QED BY <1>r, <2>3, <2>n, <3>1
  <2>4. ASSUME LateWord, ~wb.err, ~Executing(x)
        PROVE  k <= 0
    <3>1. wb.count = desc_dequeued /\ wb.count > 0
      BY <2>4 DEF LateWord
    <3>2. w = wb \/ (w.count > 0 /\ w.count < wb.count)
      BY <1>1, <1>w, <2>4 DEF WordRead
    <3>3. QED BY <1>3, <1>5, <1>k, <3>1, <3>2
  <2>5. CASE Executing(x)
    <3>1. CASE hw_transfer = x /\ hw_count < desc_num[x] /\ wb = NoWord
      BY <1>3, <2>1, <2>5, <3>1 DEF Executing
    <3>2. CASE /\ hw_transfer = None /\ hw_count = desc_num[x]
               /\ wb = Word(hw_count, FALSE) /\ x \in executed
      BY <1>s, <2>2, <2>5, <3>2 DEF Executing
    <3>3. CASE hw_transfer = None /\ hw_error /\ wb = Word(hw_count, TRUE)
      <4>1. wb.err
        BY <1>w, <3>3
      <4>2. QED BY <1>s, <1>f, <2>3, <3>3, <4>1
    <3>4. QED BY <2>5, <3>1, <3>2, <3>3 DEF Executing
  <2>6. CASE LateWord /\ ~Executing(x)
    <3>1. faults > 0 /\ hw_transfer = None /\ (wb.err => hw_error)
      BY <2>6 DEF LateWord
    <3>2. wb.err \/ k <= 0
      BY <2>4, <2>6
    <3>3. QED BY <1>3, <1>6, <1>s, <2>3, <3>1, <3>2
  <2>7. QED BY <1>1, <2>5, <2>6 DEF Pending
<1>13. QED BY <1>2, <1>3, <1>6, <1>7, <1>8, <1>9, <1>10, <1>11, <1>12

LEMMA AloneService ==
  ASSUME SoundInv, NEW t \in Threads, Service(t), ~shared
  PROVE  AloneInv'
<1> DEFINE x == transfer[t]
           w == desc_wb[t]
           k == ServiceCount(w)
           st == ServiceStatus(w)
           rest == StillListed(0, "ERROR" \in st)
<1>1. ~Broken /\ pc[t] = "service" /\ PassedOver(k) < Len(transfer_list)
  BY DEF Service
<1>2. /\ transfer_list = <<x>> /\ running
      /\ x \in live /\ x \in Transfers /\ desc_num[x] \in Nat \ {0}
      /\ k \in Int /\ PassedOver(k) \in {0, 1}
      /\ DescSum(0) = 0
      /\ "ERROR" \notin st /\ k >= desc_num[x] => PassedOver(k) = 1 \/ x \in executed
      /\ "ERROR" \in st => faults > 0
      /\ ServiceStops(w) \in BOOLEAN
      /\ ~ServiceStops(w) =>
           hw_transfer = x /\ hw_count < desc_num[x] /\ desc_dequeued = 0 /\ faults > 0
  BY <1>1, AloneCounts
<1>3. PassedOver(k) = 0
  BY <1>1, <1>2
<1>u. state' = [y \in Transfers |->
                  CASE \E i \in 1 .. 0 : transfer_list[i] = y -> "COMPLETED"
                    [] y = transfer_list[0 + 1] ->
                         Verdict(transfer_list[0 + 1], k - DescSum(0), st)
                    [] OTHER -> state[y]]
  BY <1>3 DEF Service, ServiceList
<1>4. /\ transfer_list' = rest
      /\ status' = st
      /\ wb' = NoWord
      /\ pc' = [pc EXCEPT ![t] = "check"]
      /\ UNCHANGED <<transfer, live, desc_num, history_vars>>
  BY <1>3 DEF Service, ServiceList, ClearedWb
<1>5. DOMAIN pc = Threads
  BY DEF SoundInv, PollTypeInv, TypeOK
<1>v. state'[x] = Verdict(x, k, st)
  BY <1>2, <1>u
<1>6. /\ state'[x] \in {"COMPLETED", "FAILED"}
      /\ state'[x] = "COMPLETED" => "ERROR" \notin st /\ k >= desc_num[x]
  BY <1>2, <1>v DEF Verdict
<1>7. state'[x] = "COMPLETED" => x \in executed'
  BY <1>2, <1>3, <1>4, <1>6 DEF history_vars
<1>8. ASSUME "ERROR" \in st
      PROVE  transfer_list' = <<x>> /\ faults' > 0
  <2>1. rest = <<x>>
    <3>1. rest = SubSeq(<<x>>, 1, 1)
      BY <1>2, <1>8 DEF StillListed
    <3>2. QED BY <3>1
  <2>2. QED BY <1>2, <1>4, <1>8, <2>1 DEF history_vars
<1>9. ASSUME "ERROR" \notin st
      PROVE  \/ Quiet'
             \/ /\ transfer_list' = <<>> /\ faults' > 0 /\ running'
                /\ hw_transfer' = x /\ hw_count' < desc_num'[x]
                /\ wb' = NoWord /\ desc_dequeued' = desc_num'[x]
  <2>1. rest = <<>>
    BY <1>2, <1>9 DEF StillListed
  <2>2. ~MustRestart(rest)
    BY <2>1 DEF MustRestart
  <2>3. /\ running' = ~ServiceStops(w)
        /\ desc_dequeued' = desc_dequeued + DescSum(0) + desc_num[x]
        /\ hw_transfer' = IF ServiceStops(w) THEN None ELSE hw_transfer
        /\ hw_count' = hw_count
    BY <1>2, <1>3, <1>9, <2>2 DEF Service, ServiceList
  <2>4. transfer_list' = <<>> /\ wb' = NoWord
    BY <1>4, <2>1
  <2>5. CASE ServiceStops(w)
    BY <2>3, <2>4, <2>5 DEF Quiet
  <2>6. CASE ~ServiceStops(w)
    <3>1. desc_num' = desc_num /\ faults' = faults
      BY <1>4 DEF history_vars
    <3>2. running' /\ hw_transfer' = x /\ hw_count' < desc_num'[x] /\ faults' > 0
      BY <1>2, <2>3, <2>6, <3>1
    <3>3. desc_dequeued' = desc_num'[x]
      BY <1>2, <2>3, <2>6, <3>1
    <3>4. QED BY <2>4, <3>2, <3>3
  <2>7. QED BY <2>5, <2>6
<1>10. Judged(transfer[t])'
  <2>1. transfer'[t] = x
    BY <1>4
  <2> HIDE DEF x, st
  <2>2. QED BY <1>6, <1>7, <1>8, <1>9, <2>1 DEF Judged
<1>11. Alone(t)'
  BY <1>4, <1>5, <1>10 DEF Alone
<1>12. QED BY <1>1, <1>4, <1>11, AloneMoves DEF history_vars

LEMMA AloneBug ==
  ASSUME SoundInv, NEW t \in Threads, ServiceBug(t), ~shared
  PROVE  AloneInv'
<1>1. /\ ~Broken /\ pc[t] = "service"
      /\ PassedOver(ServiceCount(desc_wb[t])) >= Len(transfer_list)
      /\ pc' = [pc EXCEPT ![t] = "broken"]
      /\ UNCHANGED <<faults, false_ok>>
  BY DEF ServiceBug, history_vars
<1>2. /\ transfer_list = <<transfer[t]>>
      /\ PassedOver(ServiceCount(desc_wb[t])) \in {0, 1}
      /\ PassedOver(ServiceCount(desc_wb[t])) = 1 => faults > 0
  BY <1>1, AloneCounts
<1>3. faults' > 0
  BY <1>1, <1>2
<1>4. Broken'
  BY <1>1 DEF Broken, SoundInv, PollTypeInv, TypeOK
<1>5. QED BY <1>1, <1>3, <1>4 DEF AloneInv, SoundInv

LEMMA AloneDestroy ==
  ASSUME SoundInv, NEW t \in Threads, Destroy(t), ~shared
  PROVE  AloneInv'
<1> DEFINE x == transfer[t]
<1>1. /\ ~Broken /\ pc[t] = "check"
      /\ false_ok' = (false_ok \/ (state[x] = "COMPLETED" /\ x \notin executed))
      /\ pc' = [pc EXCEPT ![t] = IF Referenced(x) THEN "broken" ELSE "idle"]
      /\ UNCHANGED <<engine_vars, wb, hw_vars, faults>>
  BY DEF Destroy, Return
<1>2. Judged(x) /\ \A u \in Threads \ {t} : pc[u] = "idle"
  BY <1>1, AloneNow DEF Alone
<1>3. ~false_ok'
  BY <1>1, <1>2 DEF Judged, SoundInv, AloneInv
<1>4. DOMAIN pc = Threads /\ x # None
  BY <1>1, PollAssumption DEF SoundInv, PollTypeInv, TypeOK, Ownership, Active
<1>5. CASE Referenced(x)
  <2>1. faults > 0
    BY <1>2, <1>4, <1>5 DEF Judged, Quiet, Referenced, LateWord
  <2>2. Broken'
    BY <1>1, <1>4, <1>5 DEF Broken
  <2>3. QED BY <1>1, <1>3, <2>1, <2>2 DEF AloneInv
<1>6. CASE ~Referenced(x)
  <2>1. transfer_list # <<x>> /\ hw_transfer # x
    BY <1>6 DEF Referenced
  <2>2. Quiet \/ (transfer_list = <<>> /\ LateWord)
    BY <1>2, <2>1 DEF Judged
  <2>3. Alone(t)'
    BY <1>1, <1>4, <1>6, <2>2 DEF Alone, Quiet, LateWord, engine_vars, hw_vars
  <2>4. ~Broken' /\ \A u \in Threads \ {t} : pc'[u] = "idle"
    BY <1>1, <1>2, <1>4, <1>6 DEF Broken
  <2>5. QED BY <1>3, <2>3, <2>4, AloneLater
<1>7. QED BY <1>5, <1>6

\* The hardware goes on with the transfer of the thread alone, if any.
LEMMA AloneHardware ==
  ASSUME SoundInv, HwStep \/ HwError, ~shared
  PROVE  AloneInv'
<1>1. /\ ~Broken /\ hw_transfer # None
      /\ UNCHANGED <<thread_vars, heap_vars, engine_vars, false_ok>>
      /\ executed \subseteq executed'
      /\ (faults' = faults \/ faults' = faults + 1)
  BY DEF HwStep, HwDescriptor, HwLastDescriptor, HwError, Fault, history_vars
<1>n. faults \in Nat /\ hw_count \in Nat /\ (faults > 0 => faults' > 0)
  BY <1>1, PollAssumption DEF SoundInv, PollTypeInv, TypeOK
<1>2. \/ /\ hw_count + 1 < desc_num[hw_transfer] /\ hw_count' = hw_count + 1
         /\ UNCHANGED <<wb, hw_transfer, hw_error, faults>>
      \/ /\ hw_count + 1 = desc_num[hw_transfer] /\ hw_count' = hw_count + 1
         /\ hw_transfer' = None /\ wb' = Word(hw_count + 1, FALSE)
         /\ hw_transfer \in executed' /\ UNCHANGED <<hw_error, faults>>
      \/ /\ hw_transfer' = None /\ hw_error' /\ wb' = Word(hw_count, TRUE)
         /\ hw_count' = hw_count /\ faults' > 0
  <2>1. CASE HwDescriptor
    BY <2>1 DEF HwDescriptor, history_vars
  <2>2. CASE HwLastDescriptor
    BY <2>2 DEF HwLastDescriptor
  <2>3. CASE HwError
    <3>1. faults' > 0
      BY <1>n, <2>3 DEF HwError, Fault
    <3>2. hw_transfer' = None /\ wb' = Word(hw_count, TRUE) /\ hw_count' = hw_count
      BY <2>3 DEF HwError
    <3>3. hw_error'
      BY <2>3 DEF HwError
    <3>4. QED BY <3>1, <3>2, <3>3
  <2>4. QED BY <2>1, <2>2, <2>3 DEF HwStep
<1>w. \A c, e : Word(c, e).count = c /\ Word(c, e).err = e
  BY DEF Word
<1>4. ASSUME NEW x \in Transfers, Executing(x)
      PROVE  Executing(x)' /\ wb = NoWord /\ ~LateWord
  <2>1. hw_transfer = x /\ hw_count < desc_num[x] /\ ~hw_error /\ wb = NoWord
    BY <1>1, <1>4 DEF Executing
  <2>2. Executing(x)'
    <3>1. running' = running /\ desc_dequeued' = desc_dequeued /\ desc_num' = desc_num
      BY <1>1 DEF engine_vars, heap_vars
    <3>2. running /\ desc_dequeued = 0
      BY <1>4 DEF Executing
    <3>3. hw_count \in Nat /\ desc_num[x] \in Nat
      BY <1>4, <1>n, PollAssumption DEF SoundInv, PollTypeInv, TypeOK
    <3>4. CASE /\ hw_count + 1 < desc_num[hw_transfer] /\ hw_count' = hw_count + 1
               /\ UNCHANGED <<wb, hw_transfer, hw_error, faults>>
      BY <2>1, <3>1, <3>2, <3>4 DEF Executing
    <3>5. CASE /\ hw_count + 1 = desc_num[hw_transfer] /\ hw_count' = hw_count + 1
               /\ hw_transfer' = None /\ wb' = Word(hw_count + 1, FALSE)
               /\ hw_transfer \in executed' /\ UNCHANGED <<hw_error, faults>>
      BY <2>1, <3>1, <3>2, <3>5 DEF Executing
    <3>6. CASE /\ hw_transfer' = None /\ hw_error' /\ wb' = Word(hw_count, TRUE)
               /\ hw_count' = hw_count
      BY <3>1, <3>2, <3>6 DEF Executing
    <3>7. QED BY <1>2, <3>4, <3>5, <3>6
  <2>3. QED BY <1>1, <2>1, <2>2 DEF LateWord
<1>5. ASSUME NEW v \in Threads, Alone(v) PROVE Alone(v)'
  <2> DEFINE x == transfer[v]
  <2>1. /\ pc' = pc /\ transfer' = transfer /\ desc_wb' = desc_wb
        /\ transfer_list' = transfer_list /\ state' = state /\ desc_num' = desc_num
        /\ running' = running /\ desc_dequeued' = desc_dequeued
    BY <1>1 DEF thread_vars, heap_vars, engine_vars
  <2>2. pc[v] \notin {"idle", "queue"}
    BY <1>1, <1>5 DEF Alone, Quiet, LateWord
  <2>3. Active(v) => x \in Transfers /\ desc_num[x] \in 1 .. MaxDesc
    BY <1>1 DEF SoundInv, PollTypeInv, TypeOK, Ownership
  <2>4. ASSUME pc[v] \in {"poll", "service"}
        PROVE  Pending(x)' /\ (WordRead(desc_wb[v], x) => WordRead(desc_wb[v], x)')
    <3>1. Executing(x) /\ x \in Transfers /\ desc_num[x] \in 1 .. MaxDesc
      BY <1>1, <1>5, <2>3, <2>4 DEF Alone, Pending, LateWord, Active
    <3>2. Executing(transfer[v])' /\ wb = NoWord /\ ~LateWord
      BY <1>4, <2>1, <3>1 DEF Executing
    <3>3. Pending(transfer[v])'
      BY <1>5, <2>1, <2>4, <3>2 DEF Alone, Pending
    <3>4. ASSUME WordRead(desc_wb[v], x) PROVE WordRead(desc_wb[v], x)'
      <4>1. NoWord.count = 0 /\ NoWord.err = FALSE
        BY <1>w DEF NoWord
      <4>2. desc_wb[v] = NoWord /\ faults > 0
        <5>1. ~(NoWord.err \/ NoWord.count = desc_num[x])
          BY <3>1, <4>1, PollAssumption
        <5>2. QED BY <3>2, <3>4, <5>1 DEF WordRead
      <4>3. faults' > 0
        BY <1>n, <4>2
      <4>4. QED BY <2>1, <3>2, <4>2, <4>3 DEF WordRead
    <3>5. QED BY <3>3, <3>4
  <2>5. ASSUME pc[v] = "check" PROVE Judged(x)'
    <3>1. Judged(x) /\ ~Quiet /\ ~LateWord
      BY <1>1, <1>5, <2>5 DEF Alone, Quiet, LateWord
    <3>2. faults > 0 /\ faults' > 0
      BY <1>n, <3>1 DEF Judged
    <3>3. CASE transfer_list = <<x>>
      BY <1>1, <2>1, <3>1, <3>2, <3>3 DEF Judged
    <3>4. CASE /\ transfer_list = <<>> /\ running
               /\ hw_transfer = x /\ hw_count < desc_num[x]
               /\ wb = NoWord /\ desc_dequeued = desc_num[x]
      <4>1. \/ hw_transfer' = x /\ hw_count' < desc_num[x] /\ wb' = NoWord
            \/ LateWord'
        <5>1. CASE /\ hw_count + 1 < desc_num[hw_transfer] /\ hw_count' = hw_count + 1
                   /\ UNCHANGED <<wb, hw_transfer, hw_error, faults>>
          BY <3>4, <5>1
        <5>2. CASE /\ hw_count + 1 = desc_num[hw_transfer]
                   /\ hw_transfer' = None /\ wb' = Word(hw_count + 1, FALSE)
          <6>1. wb'.count = hw_count + 1 /\ wb'.err = FALSE
            BY <5>2 DEF Word
          <6>2. wb'.count = desc_dequeued' /\ wb'.count > 0
            <7>1. hw_count + 1 = desc_dequeued
              BY <3>4, <5>2
            <7>2. hw_count + 1 > 0
              BY <1>n
            <7>3. QED BY <2>1, <6>1, <7>1, <7>2
          <6>3. LateWord'
            BY <2>1, <3>2, <3>4, <5>2, <6>1, <6>2 DEF LateWord
          <6>4. QED BY <6>3
        <5>3. CASE hw_transfer' = None /\ hw_error' /\ wb' = Word(hw_count, TRUE)
          <6>1. wb'.err
            BY <5>3 DEF Word
          <6>2. QED BY <2>1, <3>2, <3>4, <5>3, <6>1 DEF LateWord
        <5>4. QED BY <1>2, <5>1, <5>2, <5>3
      <4>2. QED BY <1>1, <2>1, <3>1, <3>2, <3>4, <4>1 DEF Judged
    <3>5. QED BY <3>1, <3>3, <3>4 DEF Judged
  <2>6. QED BY <1>5, <2>1, <2>2, <2>4, <2>5 DEF Alone
<1>6. pc' = pc /\ (Broken' <=> Broken)
  BY <1>1 DEF thread_vars, Broken
<1>7. QED BY <1>1, <1>5, <1>6 DEF AloneInv, SoundInv

\* Errors come from the hardware, which counts them as faults.
LEMMA HardwareErrors ==
  ASSUME SoundInv, HwStep \/ HwError
  PROVE  ErrorNeedsFault'
<1>1. faults \in Nat /\ ErrorNeedsFault
  BY PollAssumption DEF SoundInv, PollTypeInv, TypeOK
<1>2. CASE HwDescriptor
  BY <1>1, <1>2 DEF HwDescriptor, ErrorNeedsFault, engine_vars, history_vars
<1>3. CASE HwLastDescriptor
  <2>1. wb'.err = FALSE
    BY <1>3 DEF HwLastDescriptor, Word
  <2>2. QED BY <1>1, <1>3, <2>1 DEF HwLastDescriptor, ErrorNeedsFault, engine_vars
<1>4. CASE HwError
  <2>1. faults' > 0
    BY <1>1, <1>4 DEF HwError, Fault
  <2>2. QED BY <2>1 DEF ErrorNeedsFault
<1>5. QED BY <1>2, <1>3, <1>4 DEF HwStep

LEMMA ThreadErrors ==
  ASSUME SoundInv, NEW t \in Threads, Request(t) \/ ThreadStep(t)
  PROVE  ErrorNeedsFault'
<1>1. faults \in Nat /\ ErrorNeedsFault
  BY PollAssumption DEF SoundInv, PollTypeInv, TypeOK
<1>2. faults' = faults \/ faults' = faults + 1
  BY DEF ThreadStep, Request, TransferQueue, Poll, PollTimeout, Fault, ServiceNotRunning,
         Service, ServiceBug, Destroy, Abandon, history_vars
<1>3. hw_error' => hw_error
  BY DEF ThreadStep, Request, TransferQueue, EngineStart, Poll, PollTimeout,
         ServiceNotRunning, Service, ServiceList, ServiceBug, Destroy, Abandon, hw_vars
<1>4. wb' = wb \/ wb' = NoWord
  BY DEF ThreadStep, Request, TransferQueue, Poll, PollTimeout, ServiceNotRunning,
         Service, ServiceList, ClearedWb, ServiceBug, Destroy, Abandon
<1>5. "ERROR" \in status' => "ERROR" \in status \/ hw_error
  <2>1. "ERROR" \in StatusRegister => hw_error
    BY DEF StatusRegister
  <2>2. status' = status \/ status' = StatusRegister
    BY DEF ThreadStep, Request, TransferQueue, Poll, PollTimeout, ServiceNotRunning,
           Service, ServiceList, ServiceStatus, ServiceBug, Destroy, Abandon, engine_vars
  <2>3. QED BY <2>1, <2>2
<1>6. wb'.err => wb.err
  <2>1. NoWord.err = FALSE
    BY DEF NoWord, Word
  <2>2. QED BY <1>4, <2>1
<1>7. QED BY <1>1, <1>2, <1>3, <1>5, <1>6 DEF ErrorNeedsFault

LEMMA SoundInvStep == SoundInv /\ [Next]_vars => SoundInv'
<1> SUFFICES ASSUME SoundInv, [Next]_vars PROVE SoundInv'
  OBVIOUS
<1>1. PollTypeInv'
  BY PollTypeStep DEF SoundInv
<1>2. CASE UNCHANGED vars
  <2>1. ErrorNeedsFault'
    BY <1>2 DEF SoundInv, ErrorNeedsFault, vars, engine_vars, hw_vars, history_vars
  <2>2. AloneInv'
    <3>1. /\ pc' = pc /\ transfer' = transfer /\ desc_wb' = desc_wb
          /\ state' = state /\ desc_num' = desc_num /\ transfer_list' = transfer_list
          /\ running' = running /\ desc_dequeued' = desc_dequeued /\ wb' = wb
          /\ hw_transfer' = hw_transfer /\ hw_count' = hw_count
          /\ executed' = executed /\ faults' = faults
      BY <1>2 DEF vars, thread_vars, heap_vars, engine_vars, hw_vars, history_vars
    <3>2. (hw_error' <=> hw_error) /\ (shared' <=> shared) /\ (false_ok' <=> false_ok)
      BY <1>2 DEF vars, hw_vars, history_vars
    <3>3. (Quiet' <=> Quiet) /\ (LateWord' <=> LateWord) /\ (Broken' <=> Broken)
      BY <3>1, <3>2 DEF Quiet, LateWord, Broken
    <3>4. \A x : Executing(x)' <=> Executing(x)
      BY <3>1, <3>2 DEF Executing
    <3>5. \A x : (Pending(x)' <=> Pending(x)) /\ (Judged(x)' <=> Judged(x))
      BY <3>1, <3>3, <3>4 DEF Pending, Judged
    <3>6. \A w, x : WordRead(w, x)' <=> WordRead(w, x)
      BY <3>1, <3>3, <3>4 DEF WordRead
    <3>7. \A t \in Threads : Alone(t)' <=> Alone(t)
      BY <3>1, <3>3, <3>5, <3>6 DEF Alone
    <3>8. QED BY <3>1, <3>2, <3>3, <3>7 DEF SoundInv, AloneInv
  <2>3. QED BY <1>1, <2>1, <2>2 DEF SoundInv
<1>3. CASE HwStep \/ HwError
  <2>1. CASE shared
    <3>1. shared'
      BY <1>3, <2>1 DEF HwStep, HwDescriptor, HwLastDescriptor, HwError, history_vars
    <3>2. QED BY <1>1, <1>3, <3>1, HardwareErrors DEF SoundInv, AloneInv
  <2>2. CASE ~shared
    BY <1>1, <1>3, <2>2, AloneHardware, HardwareErrors DEF SoundInv
  <2>3. QED BY <2>1, <2>2
<1>4. ASSUME NEW t \in Threads, Request(t) \/ ThreadStep(t) PROVE SoundInv'
  <2>1. shared => shared'
    BY <1>4 DEF ThreadStep, Request, TransferQueue, Poll, PollTimeout, ServiceNotRunning,
                Service, ServiceBug, Destroy, Abandon, history_vars
  <2>2. ErrorNeedsFault'
    BY <1>4, ThreadErrors
  <2>3. ASSUME ~shared' PROVE AloneInv'
    <3>1. CASE Request(t)
      BY <2>3, <3>1, AloneRequest
    <3>2. CASE TransferQueue(t)
      BY <2>1, <2>3, <3>2, AloneQueue
    <3>3. CASE Poll(t)
      BY <2>1, <2>3, <3>3, AlonePoll
    <3>4. CASE PollTimeout(t)
      BY <2>1, <2>3, <3>4, AloneTimeout
    <3>5. CASE ServiceNotRunning(t)
      <4>1. ~Broken /\ pc[t] = "service" /\ ~running
        BY <3>5 DEF ServiceNotRunning
      <4>2. QED BY <2>1, <2>3, <4>1, AloneCounts
    <3>6. CASE Service(t)
      BY <2>1, <2>3, <3>6, AloneService
    <3>7. CASE ServiceBug(t)
      BY <2>1, <2>3, <3>7, AloneBug
    <3>8. CASE Destroy(t)
      BY <2>1, <2>3, <3>8, AloneDestroy
    <3>9. CASE Abandon(t)
      <4>1. ~Broken /\ pc[t] = "check" /\ state[transfer[t]] = "SUBMITTED"
        BY <3>9 DEF Abandon
      <4>2. Judged(transfer[t])
        BY <2>1, <2>3, <4>1, AloneNow DEF Alone
      <4>3. QED BY <4>1, <4>2 DEF Judged
    <3>10. QED
      BY <1>4, <3>1, <3>2, <3>3, <3>4, <3>5, <3>6, <3>7, <3>8, <3>9 DEF ThreadStep
  <2>4. AloneInv'
    BY <2>3 DEF AloneInv
  <2>5. QED BY <1>1, <2>2, <2>4 DEF SoundInv
<1>5. QED BY <1>2, <1>3, <1>4 DEF Next, Halted, OutOfMemory

LEMMA SoundInvInit == Init => SoundInv
<1>1. ASSUME Init PROVE SoundInv
  <2>1. NoWord.err = FALSE
    BY DEF NoWord, Word
  <2>2. ErrorNeedsFault
    BY <1>1, <2>1 DEF Init, ErrorNeedsFault
  <2>3. Quiet /\ ~Broken /\ \A t \in Threads : pc[t] = "idle"
    BY <1>1 DEF Init, Quiet, Broken
  <2>4. AloneInv
    BY <1>1, <2>3 DEF Init, AloneInv, Alone
  <2>5. QED BY <1>1, <2>2, <2>4, PollTypeInit DEF SoundInv
<1>2. QED BY <1>1

LEMMA SoundInvariant == Spec => []SoundInv
BY SoundInvInit, SoundInvStep, PTL DEF Spec

\* In poll mode a read() or write() of a thread that is alone in the engine
\* reports success only for a transfer the hardware executed to its last
\* descriptor, whatever polls timed out and transfers failed before: neither
\* a late writeback word nor a stale status makes a transfer look done.
THEOREM SuccessSound == Spec => []SuccessIsExecuted
<1>1. SoundInv => SuccessIsExecuted
  BY DEF SoundInv, AloneInv, SuccessIsExecuted
<1>2. QED BY <1>1, SoundInvariant, PTL

\* Without timeouts, hardware errors and sharing, the service routine's
\* assertions hold and no transfer is freed that the list or the hardware
\* still refers to.
THEOREM NoBreakWithoutMishap == Spec => []BrokenNeedsMishap
<1>1. SoundInv => BrokenNeedsMishap
  BY DEF SoundInv, AloneInv, BrokenNeedsMishap
<1>2. QED BY <1>1, SoundInvariant, PTL
=============================================================================
