-------------------------- MODULE FpgaMemcpyProofs --------------------------
(***************************************************************************)
(* Proofs about FpgaMemcpy, for every number of threads and every size of  *)
(* device memory and kernel buffer.                                        *)
(***************************************************************************)
EXTENDS FpgaMemcpy, TLAPS

\* The semaphore lets one thread at a time into the copy loop.
Exclusion ==
  /\ \A t, u \in Threads : Inside(t) /\ Inside(u) => t = u
  /\ \A t \in Threads : Inside(t) => sem = 0

\* What is done and what is left of a request stay inside the device memory.
InRange ==
  \A t \in Threads : /\ devAddr[t] + bytesDone[t] + count[t] <= Words
                     /\ pc[t] = "flush" => count[t] > 0
                     /\ ~Inside(t) => bytesDone[t] = 0

IndInv == TypeOK /\ Exclusion /\ InRange /\ NoForeignData

\* bytesToTransfer fits in the buffer and in what is left.
LEMMA ChunkFits ==
  ASSUME TypeOK, NEW t \in Threads
  PROVE  /\ BytesToTransfer(t) \in Nat
         /\ BytesToTransfer(t) <= count[t]
         /\ BytesToTransfer(t) <= BufferSize
         /\ count[t] > 0 => BytesToTransfer(t) > 0
  <1>1. count[t] \in Nat /\ BufferSize \in Nat \ {0}
    BY SizeAssumption DEF TypeOK
  <1>2. QED
    BY <1>1 DEF BytesToTransfer

\* A position relative to the start of a chunk, relative to the request.
LEMMA Cancel == \A d, c, j \in Int : c + (j - (d + c)) = j - d
  OBVIOUS

\* The kernel buffer holds words.
LEMMA StageBuffer ==
  ASSUME IndInv, NEW t \in Threads, Stage(t)
  PROVE  buffer' \in [Staging -> Value]
  <1> USE DEF IndInv
  <1> DEFINE n == BytesToTransfer(t)
  <1>1. n \in Nat /\ n <= count[t] /\ n <= BufferSize
    BY ChunkFits
  <1>2. /\ devAddr[t] \in Nat /\ bytesDone[t] \in Nat /\ count[t] \in Nat
        /\ devAddr[t] + bytesDone[t] + count[t] <= Words /\ Words \in Nat
        /\ buffer \in [Staging -> Value] /\ dev \in [Index -> Value]
    BY SizeAssumption DEF TypeOK, InRange, Index
  <1>3. \A i \in Staging : i \in Nat
    BY SizeAssumption DEF Staging
  <1>4. \A i \in Staging : i < n =>
          bytesDone[t] + i \in Index /\ DevicePosition(t) + i \in Index
    <2> SUFFICES ASSUME NEW i \in Staging, i < n
                 PROVE  bytesDone[t] + i \in Index /\ DevicePosition(t) + i \in Index
      OBVIOUS
    <2>1. i \in Nat
      BY <1>3
    <2>2. /\ bytesDone[t] + i \in 0 .. Words - 1
          /\ devAddr[t] + bytesDone[t] + i \in 0 .. Words - 1
      BY ONLY <1>1, <1>2, <2>1, i < n
    <2>3. QED
      BY <2>2 DEF Index, DevicePosition
  <1>5. CASE write[t]
    <2>1. PICK good \in Copied(t, n) :
            buffer' = [i \in Staging |->
                         IF i < good THEN Data(t, bytesDone[t] + i)
                         ELSE IF i < n THEN Zero ELSE buffer[i]]
      BY <1>5 DEF Stage
    <2>2. good \in Nat /\ good <= n
      BY <1>1, <2>1 DEF Copied
    <2>3. \A i \in Staging : i < good => Data(t, bytesDone[t] + i) \in Value
      BY <1>1, <1>3, <1>4, <2>2 DEF Data, Value
    <2>4. Zero \in Value
      BY DEF Value
    <2>5. QED
      BY <1>2, <2>1, <2>3, <2>4
  <1>6. CASE ~write[t]
    <2>1. buffer' = [i \in Staging |->
                       IF i < n THEN dev[DevicePosition(t) + i] ELSE buffer[i]]
      BY <1>6 DEF Stage
    <2>2. QED
      BY <1>2, <1>4, <2>1
  <1>7. QED
    BY <1>5, <1>6

\* What a chunk adds to the device or to the user's buffer are words.
LEMMA FlushMemory ==
  ASSUME IndInv, NEW t \in Threads, Flush(t)
  PROVE  /\ dev' \in [Index -> Value]
         /\ out' \in [Threads -> [Index -> Value]]
  <1> USE DEF IndInv
  <1> DEFINE n == BytesToTransfer(t)
  <1>1. n \in Nat /\ n <= count[t] /\ n <= BufferSize
    BY ChunkFits
  <1>2. /\ devAddr[t] \in Nat /\ bytesDone[t] \in Nat
        /\ buffer \in [Staging -> Value] /\ dev \in [Index -> Value]
        /\ out \in [Threads -> [Index -> Value]]
        /\ BufferSize \in Nat /\ Words \in Nat
    BY SizeAssumption DEF TypeOK, Index
  <1>3. CASE write[t]
    <2>1. /\ dev' = [k \in Index |->
               IF k \in DevicePosition(t) .. DevicePosition(t) + n - 1
                 THEN buffer[k - DevicePosition(t)] ELSE dev[k]]
          /\ out' = out
      BY <1>3 DEF Flush
    <2>2. DevicePosition(t) \in Nat
      BY <1>2 DEF DevicePosition
    <2>3. \A k \in DevicePosition(t) .. DevicePosition(t) + n - 1 :
            k - DevicePosition(t) \in Staging
      BY <1>1, <1>2, <2>2 DEF Staging
    <2>4. QED
      BY <1>2, <2>1, <2>3
  <1>4. CASE ~write[t]
    <2>1. PICK good \in Copied(t, n) :
            /\ out' = [out EXCEPT ![t] = [k \in Index |->
                 IF k \in bytesDone[t] .. bytesDone[t] + good - 1
                   THEN buffer[k - bytesDone[t]] ELSE out[t][k]]]
            /\ dev' = dev
      BY <1>4 DEF Flush
    <2>2. good \in Nat /\ good <= n
      BY <1>1, <2>1 DEF Copied
    <2>3. \A k \in bytesDone[t] .. bytesDone[t] + good - 1 :
            k - bytesDone[t] \in Staging
      BY <1>1, <1>2, <2>2 DEF Staging
    <2>4. [k \in Index |-> IF k \in bytesDone[t] .. bytesDone[t] + good - 1
                             THEN buffer[k - bytesDone[t]] ELSE out[t][k]]
            \in [Index -> Value]
      BY <1>2, <2>3
    <2>5. QED
      BY <1>2, <2>1, <2>4
  <1>5. QED
    BY <1>3, <1>4

\* The first state: everything closed and zero, the semaphore free.
LEMMA InitInd == Init => IndInv
  <1> SUFFICES ASSUME Init PROVE IndInv
    OBVIOUS
  <1> USE DEF Init
  <1>1. /\ 0 \in Index /\ 0 \in 0 .. Words
        /\ Zero \in Value
    BY SizeAssumption DEF Index, Value
  <1>2. TypeOK
    <2>1. /\ pc \in [Threads -> {"closed", "open", "down", "chunk", "flush"}]
          /\ write \in [Threads -> BOOLEAN] /\ mapped \in [Threads -> BOOLEAN]
      OBVIOUS
    <2>2. /\ devAddr \in [Threads -> Index]
          /\ bytesDone \in [Threads -> 0 .. Words]
          /\ count \in [Threads -> 0 .. Words]
          /\ sem \in {0, 1}
      BY <1>1
    <2>3. /\ buffer \in [Staging -> Value]
          /\ dev \in [Index -> Value]
          /\ out \in [Threads -> [Index -> Value]]
      BY <1>1
    <2>4. QED
      BY <2>1, <2>2, <2>3 DEF TypeOK
  <1>3. Exclusion /\ NoForeignData
    <2>1. \A t \in Threads : pc[t] = "closed"
      OBVIOUS
    <2>2. QED
      BY ONLY <2>1 DEF Exclusion, Inside, NoForeignData
  <1>4. InRange
    <2>1. \A t \in Threads : /\ pc[t] = "closed" /\ devAddr[t] = 0
                             /\ bytesDone[t] = 0 /\ count[t] = 0
      OBVIOUS
    <2>2. 0 + 0 + 0 <= Words
      BY SizeAssumption
    <2>3. QED
      BY ONLY <2>1, <2>2 DEF InRange
  <1>5. QED
    BY <1>2, <1>3, <1>4 DEF IndInv

\* Types are preserved.
LEMMA TypeStep ==
  ASSUME IndInv, [Next]_vars
  PROVE  TypeOK'
  <1> USE DEF IndInv
  <1>0. 0 \in Index /\ 0 \in 0 .. Words
    BY SizeAssumption DEF Index
  <1>1. ASSUME NEW t \in Threads, Open(t) \/ Close(t)
        PROVE  TypeOK'
    BY <1>1 DEF Open, Close, TypeOK
  <1>2. ASSUME NEW t \in Threads, Request(t)
        PROVE  TypeOK'
    <2>1. Offsets \subseteq Index
      BY SizeAssumption DEF Index
    <2>2. QED
      BY <1>2, <2>1 DEF Request, TypeOK
  <1>3. ASSUME NEW t \in Threads, DownInterrupted(t) \/ Up(t)
        PROVE  TypeOK'
    <2>1. sem' \in {0, 1}
      BY <1>3 DEF DownInterrupted, Up, TypeOK, Exclusion, Inside
    <2>2. Return(t) /\ UNCHANGED <<buffer, dev, out>>
      BY <1>3 DEF DownInterrupted, Up
    <2>3. QED
      BY <1>0, <2>1, <2>2 DEF Return, TypeOK
  <1>4. ASSUME NEW t \in Threads, Down(t)
        PROVE  TypeOK'
    <2>1. sem' \in {0, 1}
      BY <1>4 DEF Down, SemFree, TypeOK
    <2>2. PICK ok \in BOOLEAN, a \in {0, devAddr[t]} :
            /\ mapped' = [mapped EXCEPT ![t] = ok]
            /\ devAddr' = [devAddr EXCEPT ![t] = a]
      BY <1>4 DEF Down
    <2>3. QED
      BY <1>0, <1>4, <2>1, <2>2 DEF Down, TypeOK
  <1>5. ASSUME NEW t \in Threads, Stage(t)
        PROVE  TypeOK'
    BY <1>5, StageBuffer DEF Stage, TypeOK
  <1>6. ASSUME NEW t \in Threads, Flush(t)
        PROVE  TypeOK'
    <2>1. /\ bytesDone[t] \in Nat /\ count[t] \in Nat /\ devAddr[t] \in Nat
          /\ devAddr[t] + bytesDone[t] + count[t] <= Words /\ Words \in Nat
      BY SizeAssumption DEF TypeOK, InRange, Index
    <2>2. bytesDone[t] + BytesToTransfer(t) \in 0 .. Words
          /\ count[t] - BytesToTransfer(t) \in 0 .. Words
      BY <2>1, ChunkFits
    <2>3. /\ bytesDone' = [bytesDone EXCEPT ![t] = @ + BytesToTransfer(t)]
          /\ count' = [count EXCEPT ![t] = @ - BytesToTransfer(t)]
      BY <1>6 DEF Flush
    <2>4. bytesDone' \in [Threads -> 0 .. Words] /\ count' \in [Threads -> 0 .. Words]
      BY <2>2, <2>3 DEF TypeOK
    <2>5. QED
      BY <1>6, <2>4, FlushMemory DEF Flush, TypeOK
  <1>7. CASE UNCHANGED vars
    BY <1>7 DEF vars, TypeOK
  <1>8. QED
    BY <1>1, <1>2, <1>3, <1>4, <1>5, <1>6, <1>7 DEF Next

\* Only Down lets a thread in, and only when nobody is.
LEMMA ExclusionStep ==
  ASSUME IndInv, [Next]_vars
  PROVE  Exclusion'
  <1> USE DEF IndInv
  <1>t. pc \in [Threads -> {"closed", "open", "down", "chunk", "flush"}]
        /\ sem \in {0, 1}
    BY DEF TypeOK
  <1>1. ASSUME NEW t \in Threads,
               Open(t) \/ Close(t) \/ Request(t) \/ DownInterrupted(t)
        PROVE  Exclusion'
    <2>1. sem' = sem /\ \A u \in Threads : Inside(u)' => Inside(u)
      BY <1>1, <1>t DEF Open, Close, Request, DownInterrupted, Return, Inside
    <2>2. QED
      BY <2>1 DEF Exclusion
  <1>2. ASSUME NEW t \in Threads, Down(t)
        PROVE  Exclusion'
    <2>1. /\ sem = 1 /\ sem' = 0
          /\ \A u \in Threads : Inside(u)' => u = t \/ Inside(u)
      BY <1>2, <1>t DEF Down, SemFree, Inside
    <2>2. \A u \in Threads : ~Inside(u)
      BY <2>1 DEF Exclusion
    <2>3. QED
      BY <2>1, <2>2 DEF Exclusion
  <1>3. ASSUME NEW t \in Threads, Stage(t) \/ Flush(t)
        PROVE  Exclusion'
    <2>1. sem' = sem /\ \A u \in Threads : Inside(u)' <=> Inside(u)
      BY <1>3, <1>t DEF Stage, Flush, Inside
    <2>2. QED
      BY <2>1 DEF Exclusion
  <1>4. ASSUME NEW t \in Threads, Up(t)
        PROVE  Exclusion'
    <2>1. Inside(t) /\ \A u \in Threads : Inside(u)' => u # t /\ Inside(u)
      BY <1>4, <1>t DEF Up, Return, Inside
    <2>2. \A u \in Threads : ~Inside(u)'
      BY <2>1 DEF Exclusion
    <2>3. QED
      BY <2>2 DEF Exclusion
  <1>5. CASE UNCHANGED vars
    BY <1>5 DEF vars, Exclusion, Inside
  <1>6. QED
    BY <1>1, <1>2, <1>3, <1>4, <1>5 DEF Next

\* Ranges are preserved: a chunk moves words from count to bytesDone.
LEMMA RangeStep ==
  ASSUME IndInv, [Next]_vars
  PROVE  InRange'
  <1> USE DEF IndInv
  <1>t. TypeOK
    OBVIOUS
  <1>1. ASSUME NEW t \in Threads, Open(t) \/ Close(t)
        PROVE  InRange'
    BY <1>1, <1>t DEF Open, Close, InRange, Inside, TypeOK
  <1>2. ASSUME NEW t \in Threads, Request(t)
        PROVE  InRange'
    <2>1. bytesDone[t] \in Nat /\ Words \in Nat
      BY SizeAssumption DEF TypeOK
    <2>2. PICK a \in Offsets, n \in 0 .. Words :
            /\ a + n <= Words
            /\ devAddr' = [devAddr EXCEPT ![t] = a]
            /\ count' = [count EXCEPT ![t] = n]
      BY <1>2 DEF Request
    <2>3. a \in Nat /\ n \in Nat
      BY <2>2, SizeAssumption
    <2>4. pc' = [pc EXCEPT ![t] = "down"] /\ bytesDone' = bytesDone
          /\ pc[t] = "open"
      BY <1>2 DEF Request
    <2>5. bytesDone[t] = 0
      BY <2>4 DEF InRange, Inside
    <2>6. QED
      BY <1>t, <2>2, <2>3, <2>4, <2>5 DEF InRange, Inside, TypeOK
  <1>3. ASSUME NEW t \in Threads, DownInterrupted(t) \/ Up(t)
        PROVE  InRange'
    <2>1. Return(t)
      BY <1>3 DEF DownInterrupted, Up
    <2>2. Words \in Nat
      BY SizeAssumption
    <2>3. QED
      BY <1>t, <2>1, <2>2 DEF Return, InRange, Inside, TypeOK
  <1>4. ASSUME NEW t \in Threads, Down(t)
        PROVE  InRange'
    <2>1. PICK ok \in BOOLEAN :
            devAddr' = [devAddr EXCEPT ![t] = IF ok THEN @ ELSE 0]
      BY <1>4 DEF Down
    <2>2. /\ pc' = [pc EXCEPT ![t] = "chunk"]
          /\ UNCHANGED <<bytesDone, count>>
      BY <1>4 DEF Down
    <2>3. /\ devAddr[t] \in Nat /\ bytesDone[t] \in Nat /\ count[t] \in Nat
          /\ Words \in Nat
      BY SizeAssumption DEF TypeOK, Index
    <2>4. devAddr'[t] <= devAddr[t] /\ devAddr'[t] \in Nat
      BY <1>t, <2>1, <2>3 DEF TypeOK
    <2>5. \A u \in Threads : u # t => devAddr'[u] = devAddr[u] /\ pc'[u] = pc[u]
      BY <1>t, <2>1, <2>2 DEF TypeOK
    <2>6. pc'[t] = "chunk"
      BY <1>t, <2>2 DEF TypeOK
    <2>7. QED
      BY <2>2, <2>3, <2>4, <2>5, <2>6 DEF InRange, Inside
  <1>5. ASSUME NEW t \in Threads, Stage(t)
        PROVE  InRange'
    BY <1>5, <1>t DEF Stage, InRange, Inside, TypeOK
  <1>6. ASSUME NEW t \in Threads, Flush(t)
        PROVE  InRange'
    <2>1. /\ bytesDone' = [bytesDone EXCEPT ![t] = @ + BytesToTransfer(t)]
          /\ count' = [count EXCEPT ![t] = @ - BytesToTransfer(t)]
          /\ pc' = [pc EXCEPT ![t] = "chunk"]
          /\ devAddr' = devAddr
      BY <1>6 DEF Flush
    <2>2. /\ devAddr[t] \in Nat /\ bytesDone[t] \in Nat /\ count[t] \in Nat
          /\ Words \in Nat /\ BytesToTransfer(t) \in Nat
      BY SizeAssumption, ChunkFits DEF TypeOK, Index
    <2>3. /\ bytesDone'[t] = bytesDone[t] + BytesToTransfer(t)
          /\ count'[t] = count[t] - BytesToTransfer(t)
          /\ pc'[t] = "chunk"
          /\ \A u \in Threads : u # t => /\ bytesDone'[u] = bytesDone[u]
                                        /\ count'[u] = count[u]
                                        /\ pc'[u] = pc[u]
      BY <1>t, <2>1 DEF TypeOK
    <2>4. QED
      BY <2>1, <2>2, <2>3 DEF InRange, Inside
  <1>7. CASE UNCHANGED vars
    BY <1>7 DEF vars, InRange, Inside
  <1>8. QED
    BY <1>1, <1>2, <1>3, <1>4, <1>5, <1>6, <1>7 DEF Next

\* While a thread is between its two copies, nobody else touches the buffer.
LEMMA ForeignStep ==
  ASSUME IndInv, [Next]_vars
  PROVE  NoForeignData'
  <1> USE DEF IndInv
  <1>t. TypeOK
    OBVIOUS
  <1>1. ASSUME NEW t \in Threads,
               \/ Open(t) \/ Close(t) \/ Request(t) \/ DownInterrupted(t)
               \/ Down(t) \/ Up(t) \/ Flush(t)
        PROVE  NoForeignData'
    <2>1. /\ buffer' = buffer
          /\ \A u \in Threads : pc'[u] = "flush" =>
               /\ pc[u] = "flush" /\ write'[u] = write[u]
               /\ bytesDone'[u] = bytesDone[u] /\ count'[u] = count[u]
      BY <1>1, <1>t DEF Open, Close, Request, DownInterrupted, Down, Up, Flush,
                        Return, TypeOK
    <2>2. QED
      BY <2>1 DEF NoForeignData, BytesToTransfer
  <1>2. ASSUME NEW t \in Threads, Stage(t)
        PROVE  NoForeignData'
    <2>1. UNCHANGED <<write, bytesDone, count>>
      BY <1>2 DEF Stage
    <2>2. \A u \in Threads : pc'[u] = "flush" => u = t
      BY <1>2, <1>t DEF Stage, Exclusion, Inside, TypeOK
    <2>3. SUFFICES ASSUME write[t], NEW i \in 0 .. BytesToTransfer(t) - 1
                   PROVE  buffer'[i] \in {Data(t, bytesDone[t] + i), Zero}
      BY <2>1, <2>2 DEF NoForeignData, BytesToTransfer
    <2>4. i \in Staging /\ i < BytesToTransfer(t)
      BY ChunkFits, SizeAssumption DEF Staging
    <2>5. QED
      BY <1>2, <2>3, <2>4 DEF Stage
  <1>3. CASE UNCHANGED vars
    BY <1>3 DEF vars, NoForeignData, BytesToTransfer
  <1>4. QED
    BY <1>1, <1>2, <1>3 DEF Next

\* IndInv is an invariant of Spec.
LEMMA IndInvariant == Spec => []IndInv
  <1>1. IndInv /\ [Next]_vars => IndInv'
    BY TypeStep, ExclusionStep, RangeStep, ForeignStep DEF IndInv
  <1>2. QED
    BY <1>1, InitInd, PTL DEF Spec

\* Requests of any size, at any place, with faulting user memory or without,
\* stay inside the device memory and the kernel buffer.
THEOREM MemcpyTypeCorrect == Spec => []TypeOK
  <1>1. IndInv => TypeOK
    BY DEF IndInv
  <1>2. QED
    BY <1>1, IndInvariant, PTL

\* The semaphore keeps the words of other threads' requests out of a write,
\* even when user memory faults.
THEOREM MemcpyNoForeignData == Spec => []NoForeignData
  <1>1. IndInv => NoForeignData
    BY DEF IndInv
  <1>2. QED
    BY <1>1, IndInvariant, PTL

(***************************************************************************)
(* Refinement of AtomicMemory.                                             *)
(***************************************************************************)

\* Without faults the buffer holds exactly the chunk between its two copies.
Staged ==
  /\ \A t \in Threads : mapped[t]
  /\ \A t \in Threads : pc[t] = "flush" =>
       \A i \in 0 .. BytesToTransfer(t) - 1 :
         buffer[i] = IF write[t] THEN Data(t, bytesDone[t] + i)
                     ELSE dev[DevicePosition(t) + i]

\* Staged is preserved.
LEMMA StagedStep ==
  ASSUME ~Faults, IndInv, Staged, [Next]_vars
  PROVE  Staged'
  <1> USE DEF IndInv
  <1>t. TypeOK
    OBVIOUS
  <1>1. ASSUME NEW t \in Threads,
               \/ Open(t) \/ Close(t) \/ Request(t) \/ DownInterrupted(t)
               \/ Down(t) \/ Up(t)
        PROVE  Staged'
    <2>1. /\ buffer' = buffer /\ dev' = dev
          /\ \A u \in Threads : mapped'[u]
          /\ \A u \in Threads : pc'[u] = "flush" =>
               /\ pc[u] = "flush" /\ write'[u] = write[u]
               /\ bytesDone'[u] = bytesDone[u] /\ count'[u] = count[u]
               /\ devAddr'[u] = devAddr[u]
      <3>1. CASE Down(t)
        <4>1. mapped' = [mapped EXCEPT ![t] = TRUE]
              /\ devAddr' = [devAddr EXCEPT ![t] = devAddr[t]]
          BY <3>1 DEF Down
        <4>2. QED
          BY <3>1, <4>1, <1>t DEF Down, Staged, TypeOK
      <3>2. CASE ~Down(t)
        BY <1>1, <3>2, <1>t DEF Open, Close, Request, DownInterrupted, Up,
                                Return, Staged, TypeOK
      <3>3. QED
        BY <3>1, <3>2
    <2>2. QED
      BY <2>1 DEF Staged, BytesToTransfer, DevicePosition
  <1>2. ASSUME NEW t \in Threads, Flush(t)
        PROVE  Staged'
    <2>1. mapped' = mapped /\ \A u \in Threads : pc'[u] # "flush"
      BY <1>2, <1>t DEF Flush, Exclusion, Inside, TypeOK
    <2>2. QED
      BY <2>1 DEF Staged
  <1>3. ASSUME NEW t \in Threads, Stage(t)
        PROVE  Staged'
    <2>1. UNCHANGED <<write, devAddr, mapped, bytesDone, count, dev>>
      BY <1>3 DEF Stage
    <2>2. \A u \in Threads : pc'[u] = "flush" => u = t
      BY <1>3, <1>t DEF Stage, Exclusion, Inside, TypeOK
    <2>3. SUFFICES ASSUME NEW i \in 0 .. BytesToTransfer(t) - 1
                   PROVE  buffer'[i] = IF write[t] THEN Data(t, bytesDone[t] + i)
                                       ELSE dev[DevicePosition(t) + i]
      BY <2>1, <2>2 DEF Staged, BytesToTransfer, DevicePosition
    <2>4. i \in Staging /\ i < BytesToTransfer(t)
      BY ChunkFits, SizeAssumption DEF Staging
    <2>5. Copied(t, BytesToTransfer(t)) = {BytesToTransfer(t)}
      BY DEF Copied, Staged
    <2>6. QED
      BY <1>3, <2>4, <2>5 DEF Stage
  <1>4. CASE UNCHANGED vars
    BY <1>4 DEF vars, Staged, BytesToTransfer, DevicePosition
  <1>5. QED
    BY <1>1, <1>2, <1>3, <1>4 DEF Next

\* What the callers see of the device memory while t is in the loop ...
LEMMA SeenInside ==
  ASSUME Exclusion, NEW t \in Threads, Inside(t)
  PROVE  SeenMemory = [k \in Index |->
           IF write[t] /\ DevicePosition(t) <= k /\ k < DevicePosition(t) + count[t]
             THEN Data(t, k - devAddr[t]) ELSE dev[k]]
  <1>1. \A u \in Threads : Inside(u) <=> u = t
    BY DEF Exclusion
  <1>2. (CHOOSE u \in Threads : Inside(u)) = t
    BY <1>1
  <1>3. QED
    BY <1>1, <1>2 DEF SeenMemory

\* ... and while nobody is.
LEMMA SeenOutside ==
  ASSUME TypeOK, \A t \in Threads : ~Inside(t)
  PROVE  SeenMemory = dev /\ SeenOut = out
  BY DEF SeenMemory, SeenOut, TypeOK

\* Steps that leave the thread in the loop where it is are invisible.
LEMMA OutsideStutter ==
  ASSUME TypeOK, TypeOK', Exclusion, Exclusion', UNCHANGED <<dev, out>>,
         \A u \in Threads : /\ Inside(u)' <=> Inside(u)
                            /\ Inside(u) => /\ write'[u] = write[u]
                                            /\ devAddr'[u] = devAddr[u]
                                            /\ bytesDone'[u] = bytesDone[u]
                                            /\ count'[u] = count[u]
  PROVE  UNCHANGED <<SeenMemory, SeenOut>>
  <1>1. SeenOut' = SeenOut
    BY DEF SeenOut
  <1>2. CASE \A t \in Threads : ~Inside(t)
    BY <1>2, <1>1, SeenOutside DEF SeenMemory
  <1>3. ASSUME NEW t \in Threads, Inside(t)
        PROVE  SeenMemory' = SeenMemory
    <2>1. SeenMemory = [k \in Index |->
            IF write[t] /\ DevicePosition(t) <= k /\ k < DevicePosition(t) + count[t]
              THEN Data(t, k - devAddr[t]) ELSE dev[k]]
      BY <1>3, SeenInside
    <2>2. \A u \in Threads : Inside(u)' <=> u = t
      BY <1>3 DEF Exclusion
    <2>3. (CHOOSE u \in Threads : Inside(u)') = t
      BY <2>2
    <2>4. QED
      BY <1>3, <2>1, <2>2, <2>3 DEF SeenMemory, DevicePosition
  <1>4. QED
    BY <1>1, <1>2, <1>3

\* Taking the semaphore is the whole request.
LEMMA DownRequests ==
  ASSUME ~Faults, IndInv, IndInv', NEW t \in Threads, Down(t)
  PROVE  \E off \in Index, n \in 0 .. Words :
           /\ off + n <= Words
           /\ Memory!Store(t, off, n) \/ Memory!Fetch(t, off, n)
  <1> USE DEF IndInv
  <1>0. PICK a \in Index, n \in 0 .. Words : a = devAddr[t] /\ n = count[t]
    BY DEF TypeOK
  <1>1. /\ pc[t] = "down" /\ pc' = [pc EXCEPT ![t] = "chunk"] /\ sem > 0
        /\ devAddr' = devAddr
        /\ UNCHANGED <<write, bytesDone, count, dev, out>>
    <2>1. devAddr' = [devAddr EXCEPT ![t] = devAddr[t]]
      BY DEF Down
    <2>2. devAddr' = devAddr
      BY <2>1 DEF TypeOK
    <2>3. QED
      BY <2>2 DEF Down, SemFree
  <1>2. \A u \in Threads : ~Inside(u)
    BY <1>1 DEF Exclusion, TypeOK
  <1>3. /\ \A u \in Threads : Inside(u)' <=> u = t
        /\ bytesDone[t] = 0
    BY <1>1, <1>2 DEF Inside, TypeOK, InRange
  <1>4. SeenMemory = dev /\ SeenOut = out
    BY <1>2, SeenOutside
  <1>5. /\ a \in Nat /\ n \in Nat /\ a + n <= Words /\ Words \in Nat
        /\ Index \subseteq Nat
    BY <1>0, <1>3, SizeAssumption DEF InRange, Index
  <1>6. SeenMemory' = [k \in Index |->
          IF write[t] /\ a <= k /\ k < a + n THEN Data(t, k - a) ELSE dev[k]]
    <2>1. (CHOOSE u \in Threads : Inside(u)') = t
      BY <1>3
    <2>2. DevicePosition(t)' = a /\ count'[t] = n /\ devAddr'[t] = a
      BY <1>0, <1>1, <1>3, <1>5 DEF DevicePosition
    <2>3. QED
      BY <1>1, <1>3, <2>1, <2>2 DEF SeenMemory
  <1>7. SeenOut' = [u \in Threads |-> [k \in Index |->
          IF u = t /\ ~write[t] /\ k < n THEN dev[a + k] ELSE out[u][k]]]
    BY <1>0, <1>1, <1>3, <1>5 DEF SeenOut
  <1>8. CASE write[t]
    <2>1. SeenOut' = out
      BY <1>7, <1>8 DEF TypeOK
    <2>2. SeenMemory' = [k \in Index |-> IF k \in a .. a + n - 1
                                           THEN Data(t, k - a) ELSE dev[k]]
      BY <1>5, <1>6, <1>8
    <2>3. Memory!Store(t, a, n)
      BY <1>4, <2>1, <2>2 DEF Memory!Store, Memory!Index, Memory!Data, Index, Data
    <2>4. QED
      BY <1>5, <2>3
  <1>9. CASE ~write[t]
    <2>1. SeenMemory' = dev
      BY <1>6, <1>9 DEF TypeOK
    <2>2. SeenOut' = [out EXCEPT ![t] = [k \in Index |->
            IF k < n THEN dev[a + k] ELSE out[t][k]]]
      BY <1>7, <1>9 DEF TypeOK
    <2>3. Memory!Fetch(t, a, n)
      BY <1>4, <2>1, <2>2 DEF Memory!Fetch, Memory!Index, Index
    <2>4. QED
      BY <1>5, <2>3
  <1>10. QED
    BY <1>8, <1>9

\* Moving a chunk moves what is seen from the request to the memory.
LEMMA FlushStutter ==
  ASSUME ~Faults, IndInv, IndInv', Staged, NEW t \in Threads, Flush(t)
  PROVE  UNCHANGED <<SeenMemory, SeenOut>>
  <1> USE DEF IndInv
  <1> DEFINE n == BytesToTransfer(t)
             p == DevicePosition(t)
  <1>1. /\ pc[t] = "flush" /\ pc' = [pc EXCEPT ![t] = "chunk"]
        /\ bytesDone' = [bytesDone EXCEPT ![t] = @ + n]
        /\ count' = [count EXCEPT ![t] = @ - n]
        /\ UNCHANGED <<write, devAddr>>
    BY DEF Flush
  <1>2. /\ Inside(t) /\ Inside(t)'
        /\ \A u \in Threads : Inside(u) <=> u = t
        /\ \A u \in Threads : Inside(u)' <=> u = t
    BY <1>1 DEF Inside, Exclusion, TypeOK
  <1>3. /\ devAddr[t] \in Nat /\ bytesDone[t] \in Nat /\ count[t] \in Nat
        /\ n \in Nat /\ n <= count[t] /\ p \in Nat
        /\ p = devAddr[t] + bytesDone[t]
        /\ devAddr[t] + bytesDone[t] + count[t] <= Words /\ Words \in Nat
        /\ Index = 0 .. Words - 1
    BY ChunkFits, SizeAssumption DEF TypeOK, InRange, Index, DevicePosition
  <1>4. /\ bytesDone'[t] = bytesDone[t] + n /\ count'[t] = count[t] - n
        /\ DevicePosition(t)' = p + n
    BY <1>1, <1>3 DEF TypeOK, DevicePosition
  <1>5. \A i \in 0 .. n - 1 :
          buffer[i] = IF write[t] THEN Data(t, bytesDone[t] + i) ELSE dev[p + i]
    BY <1>1 DEF Staged
  <1>6. SeenMemory = [k \in Index |->
          IF write[t] /\ p <= k /\ k < p + count[t]
            THEN Data(t, k - devAddr[t]) ELSE dev[k]]
    BY <1>2, SeenInside
  <1>7. SeenMemory' = [k \in Index |->
          IF write[t] /\ p + n <= k /\ k < p + count[t]
            THEN Data(t, k - devAddr[t]) ELSE dev'[k]]
    <2>1. (CHOOSE u \in Threads : Inside(u)') = t
      BY <1>2
    <2>2. p + n + (count[t] - n) = p + count[t]
      BY <1>3
    <2>3. QED
      BY <1>1, <1>2, <1>4, <2>1, <2>2 DEF SeenMemory
  <1>8. CASE write[t]
    <2>1. /\ dev' = [k \in Index |-> IF k \in p .. p + n - 1
                                       THEN buffer[k - p] ELSE dev[k]]
          /\ out' = out
      BY <1>8 DEF Flush
    <2>2. \A k \in p .. p + n - 1 : buffer[k - p] = Data(t, k - devAddr[t])
      <3> TAKE k \in p .. p + n - 1
      <3>0. k \in Int /\ p <= k /\ k <= p + n - 1
        BY <1>3
      <3>a. k - p \in 0 .. n - 1
        BY ONLY <1>3, <3>0
      <3>1. /\ k - p \in 0 .. n - 1
            /\ bytesDone[t] + (k - p) = k - devAddr[t]
        <4>0. devAddr[t] \in Int /\ bytesDone[t] \in Int /\ k \in Int
          BY ONLY <1>3, <3>0
        <4>1. bytesDone[t] + (k - (devAddr[t] + bytesDone[t])) = k - devAddr[t]
          BY ONLY <4>0, Cancel
        <4>2. p = devAddr[t] + bytesDone[t]
          BY ONLY <1>3
        <4>3. QED
          BY ONLY <3>a, <4>1, <4>2
      <3>2. QED
        BY <1>5, <1>8, <3>1
    <2>3. \A k \in Index : SeenMemory'[k] = SeenMemory[k]
      <3> TAKE k \in Index
      <3>1. CASE k \in p .. p + n - 1
        <4>1. k \in Int /\ p <= k /\ k < p + count[t] /\ ~(p + n <= k)
          BY ONLY <1>3, <3>1
        <4>2. SeenMemory[k] = Data(t, k - devAddr[t])
          BY <1>6, <1>8, <4>1
        <4>3. SeenMemory'[k] = buffer[k - p]
          BY <1>7, <2>1, <3>1, <4>1
        <4>4. QED
          BY <2>2, <3>1, <4>2, <4>3
      <3>2. CASE k \notin p .. p + n - 1
        BY <1>3, <1>6, <1>7, <1>8, <2>1, <3>2
      <3>3. QED
        BY <3>1, <3>2
    <2>4. SeenMemory' = SeenMemory
      BY <1>6, <1>7, <2>3
    <2>5. SeenOut' = SeenOut
      BY <1>1, <1>2, <1>8, <2>1 DEF SeenOut
    <2>6. QED
      BY <2>4, <2>5
  <1>9. CASE ~write[t]
    <2>1. Copied(t, n) = {n}
      BY DEF Copied, Staged
    <2>2. /\ out' = [out EXCEPT ![t] = [k \in Index |->
               IF k \in bytesDone[t] .. bytesDone[t] + n - 1
                 THEN buffer[k - bytesDone[t]] ELSE out[t][k]]]
          /\ dev' = dev
      BY <1>9, <2>1 DEF Flush
    <2>3. \A k \in bytesDone[t] .. bytesDone[t] + n - 1 :
            buffer[k - bytesDone[t]] = dev[devAddr[t] + k]
      <3> TAKE k \in bytesDone[t] .. bytesDone[t] + n - 1
      <3>0. k \in Int /\ bytesDone[t] <= k /\ k <= bytesDone[t] + n - 1
        BY <1>3
      <3>a. k - bytesDone[t] \in 0 .. n - 1
        BY ONLY <1>3, <3>0
      <3>1. /\ k - bytesDone[t] \in 0 .. n - 1
            /\ p + (k - bytesDone[t]) = devAddr[t] + k
        <4>1. devAddr[t] + bytesDone[t] + (k - bytesDone[t]) = devAddr[t] + k
          BY ONLY <1>3, <3>0
        <4>2. p = devAddr[t] + bytesDone[t]
          BY ONLY <1>3
        <4>3. QED
          BY ONLY <3>a, <4>1, <4>2
      <3>2. QED
        BY <1>5, <1>9, <3>1
    <2>4. SeenMemory' = SeenMemory
      BY <1>6, <1>7, <1>9, <2>2
    <2>5. \A k \in Index : SeenOut'[t][k] = SeenOut[t][k]
      <3> TAKE k \in Index
      <3>1. SeenOut[t][k] =
              IF bytesDone[t] <= k /\ k < bytesDone[t] + count[t]
                THEN dev[devAddr[t] + k] ELSE out[t][k]
        BY <1>2, <1>9 DEF SeenOut
      <3>2. SeenOut'[t][k] =
              IF bytesDone[t] + n <= k /\ k < bytesDone[t] + n + (count[t] - n)
                THEN dev[devAddr[t] + k] ELSE out'[t][k]
        <4>1. SeenOut'[t][k] =
                IF Inside(t)' /\ ~write'[t] /\ bytesDone'[t] <= k
                   /\ k < bytesDone'[t] + count'[t]
                  THEN dev'[devAddr'[t] + k] ELSE out'[t][k]
          BY DEF SeenOut
        <4>2. QED
          BY <1>1, <1>2, <1>4, <1>9, <2>2, <4>1
      <3>3. CASE k \in bytesDone[t] .. bytesDone[t] + n - 1
        <4>1. out'[t][k] = dev[devAddr[t] + k]
          BY <2>2, <2>3, <3>3 DEF TypeOK
        <4>2. QED
          BY <1>3, <3>1, <3>2, <3>3, <4>1
      <3>4. CASE k \notin bytesDone[t] .. bytesDone[t] + n - 1
        <4>1. out'[t][k] = out[t][k]
          BY <2>2, <3>4 DEF TypeOK
        <4>2. k \in Int /\ (k < bytesDone[t] \/ bytesDone[t] + n <= k)
          BY ONLY <1>3, <3>4, k \in Index
        <4>3. bytesDone[t] + n + (count[t] - n) = bytesDone[t] + count[t]
          BY ONLY <1>3
        <4>4. bytesDone[t] <= k /\ k < bytesDone[t] + count[t]
                <=> bytesDone[t] + n <= k /\ k < bytesDone[t] + count[t]
          BY ONLY <1>3, <4>2
        <4>5. QED
          BY <3>1, <3>2, <4>1, <4>3, <4>4
      <3>5. QED
        BY <3>3, <3>4
    <2>6. \A u \in Threads : u # t => SeenOut'[u] = SeenOut[u]
      <3> SUFFICES ASSUME NEW u \in Threads, u # t
                   PROVE  SeenOut'[u] = SeenOut[u]
        OBVIOUS
      <3>1. ~Inside(u) /\ ~Inside(u)' /\ out'[u] = out[u]
        BY <1>2, <2>2 DEF TypeOK
      <3>2. QED
        BY <3>1 DEF SeenOut
    <2>7. SeenOut'[t] = SeenOut[t]
      BY <2>5 DEF SeenOut
    <2>8. SeenOut' = SeenOut
      BY <2>6, <2>7 DEF SeenOut
    <2>9. QED
      BY <2>4, <2>8
  <1>10. QED
    BY <1>8, <1>9

\* Leaving the loop with nothing left is invisible.
LEMMA UpStutter ==
  ASSUME IndInv, IndInv', NEW t \in Threads, Up(t)
  PROVE  UNCHANGED <<SeenMemory, SeenOut>>
  <1> USE DEF IndInv
  <1>1. /\ pc[t] = "chunk" /\ count[t] = 0
        /\ pc' = [pc EXCEPT ![t] = "open"]
        /\ UNCHANGED <<dev, out>>
    BY DEF Up, Return
  <1>2. /\ \A u \in Threads : Inside(u) <=> u = t
        /\ \A u \in Threads : ~Inside(u)'
    BY <1>1 DEF Inside, Exclusion, TypeOK
  <1>3. SeenMemory' = dev' /\ SeenOut' = out'
    BY <1>2 DEF SeenMemory, SeenOut, TypeOK
  <1>4. /\ DevicePosition(t) \in Nat /\ bytesDone[t] \in Nat
        /\ Index \subseteq Nat
    BY SizeAssumption DEF DevicePosition, TypeOK, Index
  <1>5. SeenMemory = dev
    <2>1. SeenMemory = [k \in Index |->
            IF write[t] /\ DevicePosition(t) <= k /\ k < DevicePosition(t) + count[t]
              THEN Data(t, k - devAddr[t]) ELSE dev[k]]
      BY <1>2, SeenInside
    <2>2. SeenMemory = [k \in Index |-> dev[k]]
      BY <1>1, <1>4, <2>1
    <2>3. QED
      BY <2>2 DEF TypeOK
  <1>6. SeenOut = out
    <2>1. \A u \in Threads, k \in Index :
            ~(/\ Inside(u) /\ ~write[u]
              /\ bytesDone[u] <= k /\ k < bytesDone[u] + count[u])
      BY <1>1, <1>2, <1>4
    <2>2. SeenOut = [u \in Threads |-> [k \in Index |-> out[u][k]]]
      BY <2>1 DEF SeenOut
    <2>3. QED
      BY <2>2 DEF TypeOK
  <1>7. QED
    BY <1>1, <1>3, <1>5, <1>6

\* Every step is a whole request or invisible.
LEMMA AtomicStep ==
  ASSUME ~Faults, IndInv, IndInv', Staged, [Next]_vars
  PROVE  Memory!Next \/ UNCHANGED <<SeenMemory, SeenOut>>
  <1> USE DEF IndInv
  <1>t. TypeOK
    OBVIOUS
  <1>1. ASSUME NEW t \in Threads,
               \/ Open(t) \/ Close(t) \/ Request(t) \/ DownInterrupted(t)
               \/ Stage(t)
        PROVE  UNCHANGED <<SeenMemory, SeenOut>>
    <2>1. /\ UNCHANGED <<dev, out>>
          /\ \A u \in Threads : /\ Inside(u)' <=> Inside(u)
                                /\ Inside(u) => /\ write'[u] = write[u]
                                                /\ devAddr'[u] = devAddr[u]
                                                /\ bytesDone'[u] = bytesDone[u]
                                                /\ count'[u] = count[u]
      BY <1>1, <1>t DEF Open, Close, Request, DownInterrupted, Stage, Return,
                        Inside, TypeOK
    <2>2. QED
      BY <2>1, OutsideStutter
  <1>2. ASSUME NEW t \in Threads, Down(t)
        PROVE  Memory!Next
    BY <1>2, DownRequests DEF Memory!Next, Memory!Index, Index
  <1>3. CASE UNCHANGED vars
    BY <1>3 DEF vars, SeenMemory, SeenOut, Inside, DevicePosition
  <1>4. QED
    BY <1>1, <1>2, <1>3, FlushStutter, UpStutter DEF Next

\* With user memory that does not fault, the memcpy driver's reads and writes
\* are atomic: chunks of different requests never mix, whatever the sizes.
THEOREM MemcpyAtomic ==
  ASSUME ~Faults PROVE Spec => RequestsAtomic
  <1>1. Init => Memory!Init
    BY DEF Init, Memory!Init, SeenMemory, SeenOut, Inside, Memory!Index, Index
  <1>2. Init => Staged
    BY DEF Init, Staged
  <1>3. IndInv /\ Staged /\ [Next]_vars => Staged'
    BY StagedStep
  <1>4. IndInv /\ IndInv' /\ Staged /\ [Next]_vars =>
          [Memory!Next]_<<SeenMemory, SeenOut>>
    BY AtomicStep
  <1>5. QED
    BY <1>1, <1>2, <1>3, <1>4, IndInvariant, PTL
       DEF Spec, RequestsAtomic, Memory!Spec

=============================================================================
