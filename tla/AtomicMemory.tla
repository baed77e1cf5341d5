---------------------------- MODULE AtomicMemory ----------------------------
(***************************************************************************)
(* What the memcpy driver promises its callers: a read() or write() of a   *)
(* range of device memory happens at one instant.                          *)
(***************************************************************************)
EXTENDS Integers

CONSTANTS
  Threads,
  Words,    \* words of device memory
  Zero      \* the word memory starts with

VARIABLES
  mem,      \* the device memory
  out       \* what the last read() of each thread delivered

Index == 0 .. Words - 1

\* The word at position k of the data thread t writes.
Data(t, k) == <<t, k>>

Init ==
  /\ mem = [k \in Index |-> Zero]
  /\ out = [t \in Threads |-> [k \in Index |-> Zero]]

Store(t, off, n) ==
  /\ mem' = [k \in Index |-> IF k \in off .. off + n - 1
                               THEN Data(t, k - off) ELSE mem[k]]
  /\ UNCHANGED out

Fetch(t, off, n) ==
  /\ out' = [out EXCEPT ![t] = [k \in Index |->
               IF k < n THEN mem[off + k] ELSE out[t][k]]]
  /\ UNCHANGED mem

Next ==
  \E t \in Threads, off \in Index, n \in 0 .. Words :
    off + n <= Words /\ (Store(t, off, n) \/ Fetch(t, off, n))

Spec == Init /\ [][Next]_<<mem, out>>
=============================================================================
