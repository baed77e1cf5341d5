------------------------------ MODULE DmaQueue ------------------------------
(***************************************************************************)
(* What an SG-DMA engine promises its callers, without locks, registers or *)
(* interrupts: the transfers submitted to it are moved one at a time, in   *)
(* the order of submission, each exactly once; a transfer is reported      *)
(* after it was moved, and its memory goes back only after the engine has  *)
(* let go of it.                                                           *)
(***************************************************************************)
EXTENDS Sequences

CONSTANT Transfers

VARIABLES
  queue,   \* the transfers the engine holds, oldest first
  phase    \* what has happened to each transfer

Phases == {"free", "queued", "moved", "reported", "retired"}

Init ==
  /\ queue = <<>>
  /\ phase = [x \in Transfers |-> "free"]

Submit(x) ==
  /\ phase[x] = "free"
  /\ queue' = Append(queue, x)
  /\ phase' = [phase EXCEPT ![x] = "queued"]

\* The data of the oldest transfer is moved.
Move ==
  /\ queue # <<>>
  /\ phase[Head(queue)] = "queued"
  /\ phase' = [phase EXCEPT ![Head(queue)] = "moved"]
  /\ UNCHANGED queue

\* The caller can see that the oldest transfer is complete.
Report ==
  /\ queue # <<>>
  /\ phase[Head(queue)] = "moved"
  /\ phase' = [phase EXCEPT ![Head(queue)] = "reported"]
  /\ UNCHANGED queue

\* The engine drops a reported transfer.
Retire ==
  /\ queue # <<>>
  /\ phase[Head(queue)] = "reported"
  /\ phase' = [phase EXCEPT ![Head(queue)] = "retired"]
  /\ queue' = Tail(queue)

\* The caller gives the memory back.
Release(x) ==
  /\ phase[x] = "retired"
  /\ phase' = [phase EXCEPT ![x] = "free"]
  /\ UNCHANGED queue

Next ==
  \/ \E x \in Transfers : Submit(x) \/ Release(x)
  \/ Move \/ Report \/ Retire

Spec == Init /\ [][Next]_<<queue, phase>>
=============================================================================
