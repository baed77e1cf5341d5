----------------------------- MODULE FpgaMemcpy -----------------------------
(***************************************************************************)
(* The data path of the memcpy driver (MTE/vc707_memcpy/FPGA.c and its     *)
(* copy for the vcu108 board): open(), read(), write() and close() of any  *)
(* number of threads, which copy through the one kernel buffer of the      *)
(* device under its semaphore.                                             *)
(*                                                                         *)
(* Faults switches on user addresses that fault: copy_from_user() and      *)
(* copy_to_user() then copy only a part, and the driver ignores it.        *)
(***************************************************************************)
EXTENDS Integers

CONSTANTS
  Threads,
  Words,        \* size of the mapped BAR
  BufferSize,   \* BUFFER_SIZE, in words
  Zero,         \* what memory holds at first
  Offsets,      \* device addresses requests may start at
  Faults

ASSUME SizeAssumption ==
  /\ Words \in Nat \ {0}
  /\ BufferSize \in Nat \ {0}
  /\ Offsets \subseteq 0 .. Words - 1
  /\ 0 \in Offsets
  /\ Faults \in BOOLEAN

VARIABLES
  pc,          \* where each thread is
  write,       \* !rwFlag of its request
  devAddr,     \* iocmd.devAddr
  mapped,      \* iocmd.userAddr can be accessed
  bytesDone,
  count,       \* what is left of the request
  sem,         \* devInfo->sem
  buffer,      \* devInfo->buffer
  dev,         \* the device memory behind devInfo->bar
  out          \* the user buffer each thread reads into

vars == <<pc, write, devAddr, mapped, bytesDone, count, sem, buffer, dev, out>>

Index  == 0 .. Words - 1
Staging == 0 .. BufferSize - 1

\* The word at position k of the user buffer thread t writes from.
Data(t, k) == <<t, k>>

(***************************************************************************)
(* Pieces of rw_dispatcher().                                              *)
(***************************************************************************)

\* No semaphore.
AnyTime == TRUE

\* down_interruptible() need not wait.
SemFree == sem > 0

\* The buffer always filled.
WholeBuffer(t) == IF count[t] > 0 THEN BufferSize ELSE 0

\* bytesToTransfer.
BytesToTransfer(t) == IF count[t] > BufferSize THEN BufferSize ELSE count[t]

\* Every chunk goes to the start of the range.
StartAddr(t) == devAddr[t]

\* startAddr + bytesDone.
DevicePosition(t) == devAddr[t] + bytesDone[t]

\* How many of n words a copy between kernel and user moves.
Copied(t, n) ==
  IF ~mapped[t] THEN {0} ELSE IF Faults THEN 0 .. n ELSE {n}

-----------------------------------------------------------------------------

\* The locals of rw_dispatcher() go out of scope.
Return(t) ==
  /\ pc' = [pc EXCEPT ![t] = "open"]
  /\ write' = [write EXCEPT ![t] = FALSE]
  /\ devAddr' = [devAddr EXCEPT ![t] = 0]
  /\ mapped' = [mapped EXCEPT ![t] = TRUE]
  /\ bytesDone' = [bytesDone EXCEPT ![t] = 0]
  /\ count' = [count EXCEPT ![t] = 0]

\* fpga_open(): takes and returns the semaphore; a signal makes it fail.
Open(t) ==
  /\ pc[t] = "closed"
  /\ SemFree
  /\ pc' = [pc EXCEPT ![t] = "open"]
  /\ UNCHANGED <<write, devAddr, mapped, bytesDone, count, sem, buffer, dev, out>>

\* fpga_close(): the file is gone whether or not a signal ends the wait.
Close(t) ==
  /\ pc[t] = "open"
  /\ pc' = [pc EXCEPT ![t] = "closed"]
  /\ UNCHANGED <<write, devAddr, mapped, bytesDone, count, sem, buffer, dev, out>>

\* fpga_read() or fpga_write() of n words at device address a.
Request(t) ==
  /\ pc[t] = "open"
  /\ \E w \in BOOLEAN, a \in Offsets, n \in 0 .. Words :
       /\ a + n <= Words
       /\ write' = [write EXCEPT ![t] = w]
       /\ devAddr' = [devAddr EXCEPT ![t] = a]
       /\ count' = [count EXCEPT ![t] = n]
  /\ pc' = [pc EXCEPT ![t] = "down"]
  /\ UNCHANGED <<mapped, bytesDone, sem, buffer, dev, out>>

\* A signal ends down_interruptible(): -1.
DownInterrupted(t) ==
  /\ pc[t] = "down"
  /\ Return(t)
  /\ UNCHANGED <<sem, buffer, dev, out>>

\* The semaphore is taken and the command copied in.  When that copy faults,
\* the rest of the command is zeroes: no user address, which comes last, and
\* perhaps no device address.
Down(t) ==
  /\ pc[t] = "down"
  /\ SemFree
  /\ sem' = sem - 1
  /\ \E ok \in IF Faults THEN BOOLEAN ELSE {TRUE} :
       /\ mapped' = [mapped EXCEPT ![t] = ok]
       /\ \E a \in IF ok THEN {devAddr[t]} ELSE {0, devAddr[t]} :
            devAddr' = [devAddr EXCEPT ![t] = a]
  /\ pc' = [pc EXCEPT ![t] = "chunk"]
  /\ UNCHANGED <<write, bytesDone, count, buffer, dev, out>>

\* The first copy of a chunk: from the user or from the device into the kernel
\* buffer.  copy_from_user() zeroes what it could not copy.
Stage(t) ==
  /\ pc[t] = "chunk"
  /\ count[t] > 0
  /\ LET n == BytesToTransfer(t) IN
       IF write[t]
         THEN \E good \in Copied(t, n) :
                buffer' = [i \in Staging |->
                             IF i < good THEN Data(t, bytesDone[t] + i)
                             ELSE IF i < n THEN Zero ELSE buffer[i]]
         ELSE buffer' = [i \in Staging |->
                           IF i < n THEN dev[DevicePosition(t) + i]
                           ELSE buffer[i]]
  /\ pc' = [pc EXCEPT ![t] = "flush"]
  /\ UNCHANGED <<write, devAddr, mapped, bytesDone, count, sem, dev, out>>

\* The second copy: from the kernel buffer to the device or to the user.
Flush(t) ==
  /\ pc[t] = "flush"
  /\ LET n == BytesToTransfer(t) IN
       /\ IF write[t]
            THEN /\ dev' = [k \in Index |->
                      IF k \in DevicePosition(t) .. DevicePosition(t) + n - 1
                        THEN buffer[k - DevicePosition(t)] ELSE dev[k]]
                 /\ UNCHANGED out
            ELSE /\ \E good \in Copied(t, n) :
                      out' = [out EXCEPT ![t] = [k \in Index |->
                        IF k \in bytesDone[t] .. bytesDone[t] + good - 1
                          THEN buffer[k - bytesDone[t]] ELSE out[t][k]]]
                 /\ UNCHANGED dev
       /\ bytesDone' = [bytesDone EXCEPT ![t] = @ + n]
       /\ count' = [count EXCEPT ![t] = @ - n]
  /\ pc' = [pc EXCEPT ![t] = "chunk"]
  /\ UNCHANGED <<write, devAddr, mapped, sem, buffer>>

\* The request returns bytesDone.
Up(t) ==
  /\ pc[t] = "chunk"
  /\ count[t] = 0
  /\ sem' = sem + 1
  /\ Return(t)
  /\ UNCHANGED <<buffer, dev, out>>

-----------------------------------------------------------------------------

Init ==
  /\ pc = [t \in Threads |-> "closed"]
  /\ write = [t \in Threads |-> FALSE]
  /\ devAddr = [t \in Threads |-> 0]
  /\ mapped = [t \in Threads |-> TRUE]
  /\ bytesDone = [t \in Threads |-> 0]
  /\ count = [t \in Threads |-> 0]
  /\ sem = 1
  /\ buffer = [i \in Staging |-> Zero]
  /\ dev = [k \in Index |-> Zero]
  /\ out = [t \in Threads |-> [k \in Index |-> Zero]]

Next ==
  \E t \in Threads :
    \/ Open(t) \/ Close(t) \/ Request(t) \/ DownInterrupted(t)
    \/ Down(t) \/ Stage(t) \/ Flush(t) \/ Up(t)

Spec == Init /\ [][Next]_vars

-----------------------------------------------------------------------------

\* Inside the part of rw_dispatcher() the semaphore protects.
Inside(t) == pc[t] \in {"chunk", "flush"}

Value == (Threads \X Index) \cup {Zero}

\* Types: a request stays within the range it started with.
TypeOK ==
  /\ pc \in [Threads -> {"closed", "open", "down", "chunk", "flush"}]
  /\ write \in [Threads -> BOOLEAN]
  /\ devAddr \in [Threads -> Index]
  /\ mapped \in [Threads -> BOOLEAN]
  /\ bytesDone \in [Threads -> 0 .. Words]
  /\ count \in [Threads -> 0 .. Words]
  /\ sem \in {0, 1}
  /\ buffer \in [Staging -> Value]
  /\ dev \in [Index -> Value]
  /\ out \in [Threads -> [Index -> Value]]

\* The kernel buffer a write is about to send to the device holds words of the
\* writing thread or, after a fault, zeroes: never what another thread's
\* request left there.
NoForeignData ==
  \A t \in Threads : pc[t] = "flush" /\ write[t] =>
    \A i \in 0 .. BytesToTransfer(t) - 1 :
      buffer[i] \in {Data(t, bytesDone[t] + i), Zero}

(***************************************************************************)
(* Requests are atomic: they take effect when the semaphore is taken.  The *)
(* memory the callers see is the device memory with the rest of the write  *)
(* under way already done, and likewise for the user buffers.              *)
(***************************************************************************)
SeenMemory ==
  [k \in Index |->
     IF \E t \in Threads : /\ Inside(t) /\ write[t]
                           /\ DevicePosition(t) <= k
                           /\ k < DevicePosition(t) + count[t]
       THEN LET t == CHOOSE t \in Threads : Inside(t)
            IN  Data(t, k - devAddr[t])
       ELSE dev[k]]

SeenOut ==
  [t \in Threads |-> [k \in Index |->
     IF /\ Inside(t) /\ ~write[t]
        /\ bytesDone[t] <= k /\ k < bytesDone[t] + count[t]
       THEN dev[devAddr[t] + k] ELSE out[t][k]]]

Memory == INSTANCE AtomicMemory WITH mem <- SeenMemory, out <- SeenOut

\* With user addresses that do not fault, every step is a whole request or
\* invisible: chunks of different requests never mix.
RequestsAtomic == Memory!Spec
=============================================================================
