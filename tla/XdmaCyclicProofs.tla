-------------------------- MODULE XdmaCyclicProofs --------------------------
(***************************************************************************)
(* Proofs about cyclic receive: close() frees the ring only under a        *)
(* stopped engine, unless a signal ends its wait; with the credit feature  *)
(* no block is lost or overwritten, and read() returns one packet.         *)
(***************************************************************************)
EXTENDS XdmaCyclic, WellFoundedInduction, TLAPS

(***************************************************************************)
(* close() relies on engine->running.  That the flag says enough about the *)
(* hardware and the list is the inductive part: the service routine, or a  *)
(* thread that polls, clears it only after a status that showed the engine *)
(* idle, and nobody can start the engine between that read and the unlock. *)
(***************************************************************************)
StopInv ==
  /\ ~running => ~listed /\ ~hw_busy
  /\ svc = "ring" /\ idle_seen => ~hw_busy
  /\ pc # "closed" => held
  /\ pc = "free" => ~running
  /\ svc = "poll" => pc = "polling"
  /\ signal => "signal" \in mishaps
  /\ FreedWhenStopped

\* Every step preserves it.
LEMMA StopStep == StopInv /\ [Next]_vars => StopInv'
  <1> SUFFICES ASSUME StopInv, [Next]_vars
               PROVE  StopInv'
    OBVIOUS
  <1> USE DEF StopInv, FreedWhenStopped, Defined, user_vars, ring_vars,
              run_vars, svc_vars, hw_vars, history, Mishap
  <1>1. CASE OpenSetup
    BY <1>1 DEF OpenSetup
  <1>2. CASE OpenFails \/ OpenRefused
    BY <1>2 DEF OpenFails, OpenRefused
  <1>3. CASE OpenStart
    BY <1>3 DEF OpenStart, Unlocked
  <1>4. CASE Read \/ Wait \/ Check
    <2>1. /\ pc \in {"open", "wait", "check"} /\ pc' # "free"
          /\ UNCHANGED <<held, running, listed, svc, idle_seen, hw_busy, mishaps>>
          /\ signal' => signal
      <3>1. CASE Read
        BY <3>1 DEF Read, Go
      <3>2. CASE Wait
        BY <3>2 DEF Wait, Go
      <3>3. CASE Check
        BY <3>3 DEF Check, Go
      <3>4. QED
        BY <1>4, <3>1, <3>2, <3>3
    <2>2. QED
      BY <2>1
  <1>5. CASE Signal
    <2>1. /\ UNCHANGED <<held, running, listed, svc, idle_seen, hw_busy>>
          /\ "signal" \in mishaps'
          /\ pc \notin {"closed", "polling"} /\ pc' # "free"
      BY <1>5 DEF Signal
    <2>2. QED
      BY <2>1
  <1>6. CASE Complete
    BY <1>6 DEF Complete
  <1>7. CASE Copy \/ CopyFails \/ Settle \/ Again
    <2>1. /\ UNCHANGED <<held, running, listed, svc, idle_seen, hw_busy>>
          /\ mishaps \subseteq mishaps' /\ ("signal" \in mishaps' => "signal" \in mishaps)
          /\ signal' => signal
          /\ pc \notin {"closed", "polling"} /\ pc' # "free"
      <3>1. CASE Copy
        BY <3>1 DEF Copy
      <3>2. CASE CopyFails
        BY <3>2 DEF CopyFails
      <3>3. CASE Settle
        BY <3>3 DEF Settle
      <3>4. CASE Again
        BY <3>4 DEF Again
      <3>5. QED
        BY <1>7, <3>1, <3>2, <3>3, <3>4
    <2>2. QED
      BY <2>1
  <1>8. CASE CloseStop
    BY <1>8 DEF CloseStop
  <1>9. CASE CloseFree
    BY <1>9 DEF CloseFree, Stopped
  <1>10. CASE WorkBegin
    BY <1>10 DEF WorkBegin
  <1>11. CASE RingProcess
    BY <1>11 DEF RingProcess
  <1>12. CASE ServiceEnd
    BY <1>12 DEF ServiceEnd, EngineShutdown
  <1>13. CASE HwReceive
    BY <1>13 DEF HwReceive
  <1>14. CASE HwIdle \/ HwAbort
    BY <1>14 DEF HwIdle, HwAbort
  <1>15. CASE UNCHANGED vars
    BY <1>15 DEF vars
  <1>16. CASE PollBegin \/ PollDone
    BY <1>16 DEF PollBegin, PollDone
  <1>17. CASE PollError
    BY <1>17 DEF PollError, EngineShutdown
  <1>18. CASE ClosePolled
    BY <1>18 DEF ClosePolled, EngineShutdown
  <1>19. QED
    BY <1>1, <1>2, <1>3, <1>4, <1>5, <1>6, <1>7, <1>8, <1>9, <1>10, <1>11,
       <1>12, <1>13, <1>14, <1>15, <1>16, <1>17, <1>18 DEF Next, Reader, Service

(***************************************************************************)
(* Whatever the reader, the service routine, the hardware and refused      *)
(* opens do, the ring is not freed while the hardware or the list uses it, *)
(* as long as no signal ends a wait.                                       *)
(***************************************************************************)
THEOREM CloseSafe == Spec => []FreedWhenStopped
  <1>1. Init => StopInv
    BY DEF Init, StopInv, FreedWhenStopped, Defined
  <1>2. StopInv => FreedWhenStopped
    BY DEF StopInv
  <1>3. QED
    BY <1>1, <1>2, StopStep, PTL DEF Spec

(***************************************************************************)
(* The pages of the ring.                                                  *)
(***************************************************************************)

\* Less than one round is one addition and at most one subtraction.
LEMMA SlotValue ==
  ASSUME NEW p \in Slots, NEW i \in 0 .. Pages
  PROVE  /\ Slot(p, i) = IF p + i < Pages THEN p + i ELSE p + i - Pages
         /\ Slot(p, i) \in Slots
<1>1. Pages \in Nat \ {0} /\ p \in 0 .. Pages - 1
  BY RingAssumption DEF Slots
<1>2. CASE p + i < Pages
  <2>1. (p + i) % Pages = p + i
    BY <1>1, <1>2
  <2>2. QED BY <1>1, <1>2, <2>1 DEF Slot, Slots
<1>3. CASE p + i >= Pages
  <2>1. p + i - Pages \in 0 .. Pages - 1
    BY <1>1, <1>3
  <2>2. (p + i) % Pages = p + i - Pages
    BY <1>1, <1>3, <2>1
  <2>3. QED BY <1>1, <1>3, <2>1, <2>2 DEF Slot, Slots
<1>4. QED BY <1>1, <1>2, <1>3

\* Any number of steps stays inside the ring.
LEMMA SlotRange == ASSUME NEW p \in Slots, NEW i \in Nat PROVE Slot(p, i) \in Slots
<1>1. Pages \in Nat \ {0} /\ p + i \in Nat
  BY RingAssumption DEF Slots
<1>2. (p + i) % Pages \in 0 .. Pages - 1
  BY <1>1
<1>3. QED BY <1>2 DEF Slot, Slots

LEMMA SlotZero == ASSUME NEW p \in Slots PROVE Slot(p, 0) = p
BY SlotValue, RingAssumption DEF Slots

\* Steps around the ring add up.
LEMMA SlotSum ==
  ASSUME NEW p \in Slots, NEW i \in 0 .. Pages, NEW j \in 0 .. Pages
  PROVE  Slot(Slot(p, i), j) = IF i + j < Pages THEN Slot(p, i + j)
                                                ELSE Slot(p, i + j - Pages)
<1> DEFINE q == Slot(p, i)
<1>1. Pages \in Nat \ {0} /\ p \in 0 .. Pages - 1
  BY RingAssumption DEF Slots
<1>2. q = (IF p + i < Pages THEN p + i ELSE p + i - Pages) /\ q \in Slots
  BY SlotValue
<1>3. Slot(q, j) = IF q + j < Pages THEN q + j ELSE q + j - Pages
  BY <1>2, SlotValue
<1>4. CASE i + j < Pages
  <2>1. i + j \in 0 .. Pages
    BY <1>1, <1>4
  <2>2. Slot(p, i + j) = IF p + (i + j) < Pages THEN p + (i + j) ELSE p + (i + j) - Pages
    BY <2>1, SlotValue
  <2>3. Slot(p, i + j) = Slot(q, j)
    <3> HIDE DEF q
    <3>1. QED BY <1>1, <1>2, <1>3, <1>4, <2>2
  <2>4. QED BY <1>4, <2>3
<1>5. CASE i + j >= Pages
  <2>1. i + j - Pages \in 0 .. Pages
    BY <1>1, <1>5
  <2>2. Slot(p, i + j - Pages) = IF p + (i + j - Pages) < Pages
                                   THEN p + (i + j - Pages) ELSE p + (i + j - Pages) - Pages
    BY <2>1, SlotValue
  <2>3. Slot(p, i + j - Pages) = Slot(q, j)
    <3> HIDE DEF q
    <3>1. QED BY <1>1, <1>2, <1>3, <1>5, <2>2
  <2>4. QED BY <1>1, <1>5, <2>3
<1>6. QED BY <1>1, <1>4, <1>5

\* Different steps of one round lead to different pages.
LEMMA SlotSame ==
  ASSUME NEW p \in Slots, NEW i \in 0 .. Pages - 1, NEW j \in 0 .. Pages - 1,
         Slot(p, i) = Slot(p, j)
  PROVE  i = j
<1>1. Pages \in Nat \ {0} /\ p \in 0 .. Pages - 1 /\ i \in 0 .. Pages /\ j \in 0 .. Pages
  BY RingAssumption DEF Slots
<1>2. Slot(p, i) = IF p + i < Pages THEN p + i ELSE p + i - Pages
  BY <1>1, SlotValue
<1>3. Slot(p, j) = IF p + j < Pages THEN p + j ELSE p + j - Pages
  BY <1>1, SlotValue
<1>4. (IF p + i < Pages THEN p + i ELSE p + i - Pages)
        = (IF p + j < Pages THEN p + j ELSE p + j - Pages)
  BY <1>2, <1>3
<1>5. QED BY <1>1, <1>4

\* Every set of natural numbers that is not empty has a least element.
LEMMA LeastElement ==
  ASSUME NEW T, T \subseteq Nat, T # {}
  PROVE  \E i \in T : \A j \in T : i <= j
<1> DEFINE R == OpToRel(<, Nat)
<1>1. IsWellFoundedOn(R, Nat)
  BY NatLessThanWellFounded
<1>2. \A i, j \in Nat : j < i => <<j, i>> \in R
  BY DEF OpToRel
<1> HIDE DEF R
<1>3. \E i \in T : \A j \in T : ~(<<j, i>> \in R)
  BY <1>1, WFMin
<1>4. PICK i \in T : \A j \in T : ~(j < i)
  BY <1>2, <1>3, Zenon
<1>5. \A j \in T : i <= j
  BY <1>4
<1>6. QED BY <1>5

\* What complete_cyclic() takes: the first place where it has a reason to stop.
StopsAt(i) ==
  \/ Slot(rx_head, i) = rx_tail /\ ~rx_overrun
  \/ i > 0 /\ Stops(Walked(i - 1))

LEMMA TakenFirst ==
  /\ Taken \in 0 .. Pages + 1
  /\ StopsAt(Taken)
  /\ \A i \in 0 .. Pages + 1 : StopsAt(i) => Taken <= i
<1> DEFINE S == {i \in 0 .. Pages + 1 : StopsAt(i)}
<1>1. Pages \in Nat
  BY RingAssumption
<1>2. Pages + 1 \in S
  <2>1. Walked(Pages) = "none"
    BY <1>1 DEF Walked
  <2>2. (Pages + 1) - 1 = Pages /\ Pages + 1 > 0
    BY <1>1
  <2>3. QED BY <1>1, <2>1, <2>2 DEF StopsAt, Stops
<1>3. S \subseteq Nat /\ S # {}
  BY <1>1, <1>2
<1>4. Taken = Min(S)
  BY DEF Taken, StopsAt
<1> HIDE DEF S
<1>5. \E i \in S : \A j \in S : i <= j
  BY <1>3, LeastElement
<1>6. Min(S) \in S /\ \A j \in S : Min(S) <= j
  BY <1>5 DEF Min
<1>7. QED BY <1>4, <1>6 DEF S

(***************************************************************************)
(* Types, by kind.                                                         *)
(***************************************************************************)
CallFlags ==
  /\ enable_credit_mp \in BOOLEAN /\ poll_mode \in BOOLEAN
  /\ interrupted \in BOOLEAN /\ signal \in BOOLEAN /\ held \in BOOLEAN

EngineFlags ==
  /\ rx_overrun \in BOOLEAN /\ eop_found \in BOOLEAN
  /\ running \in BOOLEAN /\ listed \in BOOLEAN

HwFlags ==
  /\ work \in BOOLEAN /\ idle_seen \in BOOLEAN /\ eop_count \in BOOLEAN
  /\ hw_run \in BOOLEAN /\ hw_busy \in BOOLEAN /\ wb_err \in BOOLEAN

Flags == CallFlags /\ EngineFlags /\ HwFlags

Control ==
  /\ pc \in {"closed", "start", "open", "wait", "asleep", "polling", "check",
             "complete", "copy", "again", "stop", "free"}
  /\ svc \in {"idle", "ring", "poll"}
  /\ packet \in {"empty", "part", "whole", "more"}
  /\ mishaps \in SUBSET {"refused", "signal", "fault"}

Ring ==
  /\ result \in [Slots -> {"none", "part", "eop", "bad"}]
  /\ block \in [Slots -> Nat]
  /\ head \in Slots /\ rx_head \in Slots /\ rx_tail \in Slots /\ hw_page \in Slots
  /\ left \in Nat /\ num_credit \in Nat /\ user_buffer_index \in Nat
  /\ received \in Nat /\ hw_credits \in Nat /\ consumed \in Nat

LEMMA CallFlagsStep == ASSUME CallFlags, [Next]_vars PROVE CallFlags'
<1> USE DEF CallFlags, user_vars, ring_vars, run_vars, svc_vars, hw_vars, params
<1>1. CASE OpenSetup
  BY <1>1 DEF OpenSetup, ResetRing
<1>2. CASE Wait
  BY <1>2 DEF Wait, Go
<1>3. CASE Signal
  BY <1>3 DEF Signal
<1>4. CASE Check
  BY <1>4 DEF Check, Go
<1>5. CASE Again
  BY <1>5 DEF Again
<1>6. CASE CloseFree
  BY <1>6 DEF CloseFree
<1>7. CASE PollDone
  BY <1>7 DEF PollDone
<1>8. CASE PollError
  BY <1>8 DEF PollError, EngineShutdown
<1>9. CASE OpenFails \/ OpenRefused \/ OpenStart \/ Read \/ Complete \/ Copy \/ CopyFails
            \/ Settle \/ CloseStop \/ ClosePolled \/ WorkBegin \/ RingProcess
            \/ ServiceEnd \/ PollBegin \/ HwReceive \/ HwIdle \/ HwAbort \/ UNCHANGED vars
  <2>1. UNCHANGED <<enable_credit_mp, poll_mode, interrupted, signal, held>>
    BY <1>9 DEF OpenFails, OpenRefused, OpenStart, Read, Complete, Copy, CopyFails,
        Settle, CloseStop, ClosePolled, WorkBegin, RingProcess, ServiceEnd, PollBegin,
        HwReceive, HwIdle, HwAbort, Go, ResetRing, EngineShutdown, vars
  <2>2. QED BY <2>1
<1>10. QED BY <1>1, <1>2, <1>3, <1>4, <1>5, <1>6, <1>7, <1>8, <1>9 DEF Next, Reader, Service

LEMMA EngineFlagsStep == ASSUME EngineFlags, [Next]_vars PROVE EngineFlags'
<1> USE DEF EngineFlags, user_vars, ring_vars, run_vars, svc_vars, hw_vars, params
<1>1. CASE OpenSetup
  BY <1>1 DEF OpenSetup, ResetRing
<1>2. CASE OpenFails
  BY <1>2 DEF OpenFails, ResetRing
<1>3. CASE OpenRefused
  BY <1>3 DEF OpenRefused, ResetRing
<1>4. CASE OpenStart
  BY <1>4 DEF OpenStart
<1>5. CASE Complete
  BY <1>5 DEF Complete
<1>6. CASE Settle
  BY <1>6 DEF Settle
<1>7. CASE Again
  BY <1>7 DEF Again
<1>8. CASE ClosePolled
  BY <1>8 DEF ClosePolled, EngineShutdown
<1>9. CASE RingProcess
  BY <1>9 DEF RingProcess
<1>10. CASE ServiceEnd
  BY <1>10 DEF ServiceEnd, EngineShutdown
<1>11. CASE PollError
  BY <1>11 DEF PollError, EngineShutdown
<1>12. CASE Read \/ Wait \/ Signal \/ Check \/ Copy \/ CopyFails \/ CloseStop \/ CloseFree
            \/ WorkBegin \/ PollBegin \/ PollDone \/ HwReceive \/ HwIdle \/ HwAbort
            \/ UNCHANGED vars
  <2>1. UNCHANGED <<rx_overrun, eop_found, running, listed>>
    BY <1>12 DEF Read, Wait, Signal, Check, Copy, CopyFails, CloseStop, CloseFree,
        WorkBegin, PollBegin, PollDone, HwReceive, HwIdle, HwAbort, Go, vars
  <2>2. QED BY <2>1
<1>13. QED BY <1>1, <1>2, <1>3, <1>4, <1>5, <1>6, <1>7, <1>8, <1>9, <1>10,
        <1>11, <1>12 DEF Next, Reader, Service

LEMMA HwFlagsStep == ASSUME CallFlags, HwFlags, [Next]_vars PROVE HwFlags'
<1> USE DEF HwFlags, user_vars, ring_vars, run_vars, svc_vars, hw_vars, params
<1>1. CASE OpenStart
  BY <1>1 DEF OpenStart
<1>2. CASE CloseStop
  BY <1>2 DEF CloseStop
<1>3. CASE ClosePolled
  BY <1>3 DEF ClosePolled, EngineShutdown
<1>4. CASE WorkBegin
  BY <1>4 DEF WorkBegin
<1>5. CASE RingProcess
  BY <1>5 DEF RingProcess
<1>6. CASE ServiceEnd
  BY <1>6 DEF ServiceEnd, EngineShutdown
<1>7. CASE PollBegin
  BY <1>7 DEF PollBegin
<1>8. CASE PollDone
  BY <1>8 DEF PollDone
<1>9. CASE PollError
  BY <1>9 DEF PollError, EngineShutdown
<1>10. CASE HwReceive
  BY <1>10 DEF HwReceive
<1>11. CASE HwIdle
  BY <1>11 DEF HwIdle
<1>12. CASE HwAbort
  BY <1>12 DEF HwAbort, CallFlags
<1>13. CASE OpenSetup \/ OpenFails \/ OpenRefused \/ Read \/ Wait \/ Signal \/ Check
            \/ Complete \/ Copy \/ CopyFails \/ Settle \/ Again \/ CloseFree
            \/ UNCHANGED vars
  <2>1. UNCHANGED <<work, idle_seen, eop_count, hw_run, hw_busy, wb_err>>
    BY <1>13 DEF OpenSetup, OpenFails, OpenRefused, Read, Wait, Signal, Check, Complete,
        Copy, CopyFails, Settle, Again, CloseFree, Go, ResetRing, vars
  <2>2. QED BY <2>1
<1>14. QED BY <1>1, <1>2, <1>3, <1>4, <1>5, <1>6, <1>7, <1>8, <1>9, <1>10, <1>11, <1>12,
        <1>13 DEF Next, Reader, Service

LEMMA FlagsStep == ASSUME Flags, [Next]_vars PROVE Flags'
BY CallFlagsStep, EngineFlagsStep, HwFlagsStep DEF Flags

LEMMA ControlStep == ASSUME Control, [Next]_vars PROVE Control'
<1> USE DEF Control, user_vars, ring_vars, run_vars, svc_vars, hw_vars, params, history
<1>1. CASE OpenSetup
  BY <1>1 DEF OpenSetup, ResetRing
<1>2. CASE OpenFails
  BY <1>2 DEF OpenFails, ResetRing
<1>3. CASE OpenRefused
  BY <1>3 DEF OpenRefused, ResetRing, Mishap
<1>4. CASE OpenStart
  BY <1>4 DEF OpenStart
<1>5. CASE Read
  BY <1>5 DEF Read, Go
<1>6. CASE Wait
  BY <1>6 DEF Wait, Go
<1>7. CASE Signal
  BY <1>7 DEF Signal, Mishap
<1>8. CASE Check
  BY <1>8 DEF Check, Go
<1>9. CASE Complete
  BY <1>9 DEF Complete
<1>10. CASE Copy
  BY <1>10 DEF Copy
<1>11. CASE CopyFails
  BY <1>11 DEF CopyFails, Mishap
<1>12. CASE Settle
  BY <1>12 DEF Settle, Credit
<1>13. CASE Again
  BY <1>13 DEF Again
<1>14. CASE CloseStop
  BY <1>14 DEF CloseStop
<1>15. CASE ClosePolled
  BY <1>15 DEF ClosePolled, EngineShutdown
<1>16. CASE CloseFree
  BY <1>16 DEF CloseFree
<1>17. CASE WorkBegin
  BY <1>17 DEF WorkBegin
<1>18. CASE RingProcess
  BY <1>18 DEF RingProcess
<1>19. CASE ServiceEnd
  BY <1>19 DEF ServiceEnd, EngineShutdown
<1>20. CASE PollBegin
  BY <1>20 DEF PollBegin
<1>21. CASE PollDone
  BY <1>21 DEF PollDone
<1>22. CASE PollError
  BY <1>22 DEF PollError, EngineShutdown
<1>23. CASE HwReceive
  BY <1>23 DEF HwReceive
<1>24. CASE HwIdle
  BY <1>24 DEF HwIdle
<1>25. CASE HwAbort
  BY <1>25 DEF HwAbort, Mishap
<1>26. CASE UNCHANGED vars
  BY <1>26 DEF vars
<1>27. QED
  BY <1>1, <1>2, <1>3, <1>4, <1>5, <1>6, <1>7, <1>8, <1>9, <1>10, <1>11, <1>12, <1>13,
     <1>14, <1>15, <1>16, <1>17, <1>18, <1>19, <1>20, <1>21, <1>22, <1>23, <1>24, <1>25, <1>26 DEF Next, Reader, Service

LEMMA RingStep == ASSUME Ring, [Next]_vars PROVE Ring'
<1> USE DEF Ring, user_vars, ring_vars, run_vars, svc_vars, hw_vars, params, history
<1>a. 0 \in Slots /\ 0 \in Nat /\ Credits \in Nat /\ 1 \in 0 .. Pages /\ Pages \in Nat
  BY RingAssumption DEF Slots
<1>b. \A p \in Slots : Slot(p, 1) \in Slots
  BY <1>a, SlotValue
<1>1. CASE OpenSetup
  BY <1>1, <1>a, <1>b DEF OpenSetup, ResetRing
<1>2. CASE OpenFails
  BY <1>2, <1>a, <1>b DEF OpenFails, ResetRing
<1>3. CASE OpenRefused
  BY <1>3, <1>a, <1>b DEF OpenRefused, ResetRing, Mishap
<1>4. CASE OpenStart
  BY <1>4, <1>a, <1>b DEF OpenStart
<1>5. CASE Read
  BY <1>5 DEF Read, Go
<1>6. CASE Wait
  BY <1>6 DEF Wait, Go
<1>7. CASE Signal
  BY <1>7 DEF Signal, Mishap
<1>8. CASE Check
  BY <1>8 DEF Check, Go
<1>9. CASE Complete
  <2>1. Taken \in 0 .. Pages + 1 /\ Taken \in Nat
    BY <1>a, TakenFirst
  <2>2. Slot(rx_head, Taken) \in Slots
    BY <1>a, <2>1, SlotRange
  <2>3. /\ head' \in {0, rx_head} /\ rx_head' = Slot(rx_head, Taken)
        /\ consumed' = consumed + Taken
        /\ left' \in {0, Taken} /\ num_credit' \in {0, Taken}
        /\ UNCHANGED <<block, rx_tail, hw_page, user_buffer_index, received, hw_credits>>
    BY <1>9 DEF Complete
  <2>4. result' \in [Slots -> {"none", "part", "eop", "bad"}]
    BY <1>9 DEF Complete
  <2>5. QED BY <1>a, <2>1, <2>2, <2>3, <2>4
<1>10. CASE Copy
  BY <1>10, <1>a, <1>b DEF Copy
<1>11. CASE CopyFails
  BY <1>11, <1>a, <1>b DEF CopyFails, Mishap
<1>12. CASE Settle
  BY <1>12, <1>a, <1>b DEF Settle, Credit
<1>13. CASE Again
  BY <1>13 DEF Again
<1>14. CASE CloseStop
  BY <1>14 DEF CloseStop
<1>15. CASE ClosePolled
  BY <1>15 DEF ClosePolled, EngineShutdown
<1>16. CASE CloseFree
  BY <1>16 DEF CloseFree
<1>17. CASE WorkBegin
  BY <1>17 DEF WorkBegin
<1>18. CASE RingProcess
  BY <1>18, <1>a, <1>b DEF RingProcess
<1>19. CASE ServiceEnd
  BY <1>19 DEF ServiceEnd, EngineShutdown
<1>20. CASE PollBegin
  BY <1>20 DEF PollBegin
<1>21. CASE PollDone
  BY <1>21 DEF PollDone
<1>22. CASE PollError
  BY <1>22 DEF PollError, EngineShutdown
<1>23. CASE HwReceive
  BY <1>23, <1>a, <1>b DEF HwReceive
<1>24. CASE HwIdle
  BY <1>24 DEF HwIdle
<1>25. CASE HwAbort
  BY <1>25 DEF HwAbort, Mishap
<1>26. CASE UNCHANGED vars
  BY <1>26 DEF vars
<1>27. QED
  BY <1>1, <1>2, <1>3, <1>4, <1>5, <1>6, <1>7, <1>8, <1>9, <1>10, <1>11, <1>12, <1>13,
     <1>14, <1>15, <1>16, <1>17, <1>18, <1>19, <1>20, <1>21, <1>22, <1>23, <1>24, <1>25, <1>26 DEF Next, Reader, Service

(***************************************************************************)
(* The stream, with the credit feature and until an open() is refused.     *)
(***************************************************************************)
Streaming == enable_credit_mp /\ "refused" \notin mishaps

\* A ring that was just set up.
AtStart == Unread = 0 /\ consumed = 0 /\ rx_head = 0

\* Each credit stands for a page that is free, unread or being copied, and the
\* hardware writes next behind the unread blocks.
WriterAhead ==
  /\ hw_credits + num_credit + Unread <= Credits
  /\ hw_page = Slot(rx_head, Unread)

TailBetween == \E d \in 0 .. Unread : rx_tail = Slot(rx_head, d)

\* Exactly the pages of unread blocks have a result.
Filled ==
  \A i \in 0 .. Pages - 1 :
    IF i < Unread
      THEN result[Slot(rx_head, i)] # "none" /\ block[Slot(rx_head, i)] = consumed + 1 + i
      ELSE result[Slot(rx_head, i)] = "none"

\* The blocks being copied are the last ones consumed.
CopySafe ==
  pc = "copy" /\ left > 0 =>
    /\ Slot(head, left) = rx_head
    /\ \A i \in 0 .. left - 1 : block[Slot(head, i)] = consumed - left + 1 + i

StreamInv ==
  Streaming /\ held =>
    /\ Unread \in 0 .. Pages - 1
    /\ IF pc = "start" THEN AtStart ELSE WriterAhead
    /\ TailBetween
    /\ Filled
    /\ CopySafe

LocalsInv ==
  /\ pc # "copy" => num_credit = 0 /\ left = 0
  /\ left <= num_credit
  /\ pc = "start" => ~running
  /\ svc = "ring" => held

CyclicInv ==
  /\ StopInv /\ Flags /\ Control /\ Ring
  /\ LocalsInv
  /\ Streaming => ~rx_overrun
  /\ StreamInv

\* Steps that leave the ring alone and move the thread at most between places
\* where it neither copies nor starts the engine.
LEMMA StreamFrame ==
  ASSUME CyclicInv,
         UNCHANGED <<enable_credit_mp, head, left, num_credit, held, result, block,
                     rx_head, rx_tail, rx_overrun, hw_page, received, hw_credits, consumed>>,
         "refused" \in mishaps => "refused" \in mishaps',
         pc' = pc \/ {pc, pc'} \cap {"copy", "start"} = {}
  PROVE  (Streaming' => ~rx_overrun') /\ StreamInv'
<1>1. Streaming' => Streaming
  BY DEF Streaming
<1>2. Streaming' => ~rx_overrun'
  BY <1>1 DEF CyclicInv
<1>3. Unread' = Unread
  BY DEF Unread
<1>4. (AtStart' <=> AtStart) /\ (WriterAhead' <=> WriterAhead)
      /\ (TailBetween' <=> TailBetween) /\ (Filled' <=> Filled)
  BY <1>3 DEF AtStart, WriterAhead, TailBetween, Filled, Slot
<1>5. (pc' = "start" <=> pc = "start") /\ (pc' = "copy" <=> pc = "copy")
  OBVIOUS
<1>6. CopySafe' <=> CopySafe
  BY <1>5 DEF CopySafe, Slot
<1>7. StreamInv'
  BY <1>1, <1>3, <1>4, <1>5, <1>6 DEF CyclicInv, StreamInv
<1>8. QED BY <1>2, <1>7

\* What the provers need to know of the numbers.
LEMMA StreamNumbers ==
  ASSUME CyclicInv
  PROVE  /\ Pages \in Nat \ {0} /\ Credits \in Nat /\ Credits < Pages
         /\ rx_head \in Slots /\ rx_tail \in Slots /\ head \in Slots /\ hw_page \in Slots
         /\ left \in Nat /\ num_credit \in Nat /\ left <= num_credit
         /\ received \in Nat /\ consumed \in Nat /\ hw_credits \in Nat /\ Unread \in Int
BY RingAssumption DEF CyclicInv, Ring, LocalsInv, Unread

\* copy_cyclic_to_user() goes on to the next page.
LEMMA CopyStep ==
  ASSUME CyclicInv, Copy
  PROVE  (Streaming' => ~rx_overrun') /\ StreamInv'
<1>1. /\ pc = "copy" /\ pc' = "copy" /\ left > 0 /\ head' = Slot(head, 1) /\ left' = left - 1
      /\ UNCHANGED <<enable_credit_mp, mishaps, num_credit, held, result, block, rx_head,
                     rx_tail, rx_overrun, hw_page, received, hw_credits, consumed>>
  BY DEF Copy, params, hw_vars, history
<1>2. (Streaming' <=> Streaming) /\ Unread' = Unread
  BY <1>1 DEF Streaming, Unread
<1>3. Streaming' => ~rx_overrun'
  BY <1>1, <1>2 DEF CyclicInv
<1>4. ASSUME Streaming, held PROVE StreamInv'
  <2>1. Unread \in 0 .. Pages - 1 /\ WriterAhead /\ TailBetween /\ Filled /\ CopySafe
    BY <1>1, <1>4 DEF CyclicInv, StreamInv
  <2>2. WriterAhead' /\ TailBetween' /\ Filled'
    BY <1>1, <1>2, <2>1 DEF WriterAhead, TailBetween, Filled, Slot
  <2>3. CopySafe'
    <3>1. left \in 0 .. Pages - 1 /\ left - 1 \in 0 .. Pages /\ 1 \in 0 .. Pages
      BY <1>1, <2>1, StreamNumbers DEF WriterAhead
    <3>2. \A i \in 0 .. left - 1 : Slot(Slot(head, 1), i) = Slot(head, 1 + i)
      <4>1. \A i \in 0 .. left - 1 : i \in 0 .. Pages /\ 1 + i < Pages
        BY <3>1, StreamNumbers
      <4>2. QED BY <3>1, <4>1, SlotSum, StreamNumbers
    <3>3. Slot(head', left') = rx_head'
      <4>1. 1 + (left - 1) = left /\ left - 1 \in 0 .. left - 1
        BY <1>1, <3>1, StreamNumbers
      <4>2. Slot(Slot(head, 1), left - 1) = Slot(head, left)
        BY <3>2, <4>1
      <4>3. QED BY <1>1, <2>1, <4>2 DEF CopySafe
    <3>4. ASSUME NEW i \in 0 .. left' - 1
          PROVE  block'[Slot(head', i)] = consumed' - left' + 1 + i
      <4>1. i \in 0 .. left - 1 /\ 1 + i \in 0 .. left - 1
        BY <1>1, <3>1, StreamNumbers
      <4>2. block[Slot(head, 1 + i)] = consumed - left + 1 + (1 + i)
        BY <1>1, <2>1, <4>1 DEF CopySafe
      <4>3. consumed - left + 1 + (1 + i) = consumed - (left - 1) + 1 + i
        BY <4>1, StreamNumbers
      <4>4. QED BY <1>1, <3>2, <4>1, <4>2, <4>3
    <3>5. QED BY <3>3, <3>4 DEF CopySafe, Slot
  <2>4. QED BY <1>1, <1>2, <2>1, <2>2, <2>3 DEF StreamInv
<1>5. StreamInv'
  BY <1>1, <1>2, <1>4 DEF StreamInv
<1>6. QED BY <1>3, <1>5

\* The service routine moves the tail over a result that is there.
LEMMA RingProcessStep ==
  ASSUME CyclicInv, RingProcess
  PROVE  (Streaming' => ~rx_overrun') /\ StreamInv'
<1>1. /\ result[rx_tail] # "none" /\ rx_tail' = Slot(rx_tail, 1)
      /\ (rx_overrun' <=> rx_overrun \/ rx_tail' = rx_head)
      /\ UNCHANGED <<enable_credit_mp, pc, mishaps, head, left, num_credit, held, result,
                     block, rx_head, hw_page, received, hw_credits, consumed>>
  BY DEF RingProcess, NewResult, params, hw_vars, history, user_vars
<1>2. (Streaming' <=> Streaming) /\ Unread' = Unread
  BY <1>1 DEF Streaming, Unread
<1>3. held
  BY DEF CyclicInv, StopInv, LocalsInv, RingProcess
<1>4. ASSUME Streaming PROVE ~rx_overrun' /\ StreamInv'
  <2>1. /\ Unread \in 0 .. Pages - 1 /\ TailBetween /\ Filled /\ CopySafe /\ ~rx_overrun
        /\ IF pc = "start" THEN AtStart ELSE WriterAhead
    BY <1>3, <1>4 DEF CyclicInv, StreamInv
  <2>2. PICK d \in 0 .. Unread : rx_tail = Slot(rx_head, d)
    BY <2>1 DEF TailBetween
  <2>3. d < Unread
    <3>1. d # Unread
      BY <1>1, <2>1, <2>2, StreamNumbers DEF Filled
    <3>2. QED BY <2>1, <2>2, <3>1
  <2>4. d + 1 \in 0 .. Unread /\ d + 1 \in 0 .. Pages - 1 /\ d \in 0 .. Pages /\ d + 1 < Pages
    BY <2>1, <2>2, <2>3, StreamNumbers
  <2>5. rx_tail' = Slot(rx_head, d + 1)
    <3>1. 1 \in 0 .. Pages
      BY StreamNumbers
    <3>2. QED BY <1>1, <2>2, <2>4, <3>1, SlotSum, StreamNumbers
  <2>6. TailBetween'
    BY <1>1, <1>2, <2>4, <2>5 DEF TailBetween, Slot
  <2>7. ~rx_overrun'
    <3>1. rx_tail' # rx_head
      <4>1. SUFFICES ASSUME Slot(rx_head, d + 1) = Slot(rx_head, 0) PROVE FALSE
        BY <2>5, SlotZero, StreamNumbers
      <4>2. 0 \in 0 .. Pages - 1
        BY StreamNumbers
      <4>3. d + 1 = 0
        BY <2>4, <4>1, <4>2, SlotSame, StreamNumbers
      <4>4. QED BY <2>2, <4>3, StreamNumbers
    <3>2. QED BY <1>1, <2>1, <3>1
  <2>8. Filled' /\ CopySafe' /\ (AtStart' <=> AtStart) /\ (WriterAhead' <=> WriterAhead)
    BY <1>1, <1>2, <2>1 DEF Filled, CopySafe, AtStart, WriterAhead, Slot
  <2>9. QED BY <1>1, <1>2, <2>1, <2>6, <2>7, <2>8 DEF StreamInv
<1>5. QED BY <1>2, <1>4 DEF StreamInv

\* The hardware fills the page behind the unread blocks.
LEMMA ReceiveStep ==
  ASSUME CyclicInv, HwReceive
  PROVE  (Streaming' => ~rx_overrun') /\ StreamInv'
<1>1. PICK r \in {"part", "eop", "bad"} :
        /\ result' = [result EXCEPT ![hw_page] = r]
        /\ ("refused" \in mishaps' <=> "refused" \in mishaps)
  BY DEF HwReceive
<1>2. /\ hw_busy /\ (enable_credit_mp => hw_credits > 0)
      /\ received' = received + 1
      /\ block' = [block EXCEPT ![hw_page] = received + 1]
      /\ hw_page' = Slot(hw_page, 1)
      /\ hw_credits' = (IF enable_credit_mp THEN hw_credits - 1 ELSE hw_credits)
      /\ UNCHANGED <<enable_credit_mp, pc, head, left, num_credit, held, rx_head, rx_tail,
                     rx_overrun, consumed>>
  BY DEF HwReceive, params, user_vars
<1>3. Streaming' <=> Streaming
  BY <1>1, <1>2 DEF Streaming
<1>4. pc # "start"
  BY <1>2 DEF CyclicInv, StopInv, LocalsInv
<1>5. ASSUME Streaming, held PROVE StreamInv'
  <2>1. /\ Unread \in 0 .. Pages - 1 /\ WriterAhead /\ TailBetween /\ Filled /\ CopySafe
    BY <1>4, <1>5 DEF CyclicInv, StreamInv
  <2>2. Unread' = Unread + 1
    BY <1>2, StreamNumbers DEF Unread
  <2>3. hw_credits' = hw_credits - 1 /\ hw_credits > 0
    BY <1>2, <1>5 DEF Streaming
  <2>4. Unread + 1 < Pages /\ left + Unread < Pages
    BY <2>1, <2>3, StreamNumbers DEF WriterAhead
  <2>5. Unread' \in 0 .. Pages - 1
    BY <2>1, <2>2, <2>4, StreamNumbers
  <2>6. WriterAhead'
    <3>1. Slot(Slot(rx_head, Unread), 1) = Slot(rx_head, Unread + 1)
      <4>1. 1 \in 0 .. Pages /\ Unread \in 0 .. Pages
        BY <2>1, StreamNumbers
      <4>2. QED BY <2>4, <4>1, SlotSum, StreamNumbers
    <3>2. hw_page' = Slot(rx_head', Unread')
      BY <1>2, <2>1, <2>2, <3>1 DEF WriterAhead
    <3>3. hw_credits' + num_credit' + Unread' <= Credits
      BY <1>2, <2>1, <2>2, <2>3, StreamNumbers DEF WriterAhead
    <3>4. QED BY <3>2, <3>3 DEF WriterAhead, Slot
  <2>7. TailBetween'
    <3>1. PICK d \in 0 .. Unread : rx_tail = Slot(rx_head, d)
      BY <2>1 DEF TailBetween
    <3>2. d \in 0 .. Unread'
      BY <2>1, <2>2, <3>1
    <3>3. QED BY <1>2, <3>1, <3>2 DEF TailBetween, Slot
  <2>8. result \in [Slots -> {"none", "part", "eop", "bad"}] /\ block \in [Slots -> Nat]
        /\ hw_page \in Slots /\ hw_page = Slot(rx_head, Unread)
    BY <2>1 DEF CyclicInv, Ring, WriterAhead
  <2>9. Filled'
    <3> SUFFICES ASSUME NEW i \in 0 .. Pages - 1
                 PROVE  IF i < Unread'
                          THEN /\ result'[Slot(rx_head, i)] # "none"
                               /\ block'[Slot(rx_head, i)] = consumed + 1 + i
                          ELSE result'[Slot(rx_head, i)] = "none"
      BY <1>2 DEF Filled, Slot
    <3>1. i \in 0 .. Pages /\ Slot(rx_head, i) \in Slots
      BY SlotValue, StreamNumbers
    <3>2. CASE i = Unread
      <4>1. result'[Slot(rx_head, i)] = r /\ block'[Slot(rx_head, i)] = received + 1
        BY <1>1, <1>2, <2>8, <3>2
      <4>2. i < Unread' /\ received + 1 = consumed + 1 + i
        BY <2>2, <3>2, StreamNumbers DEF Unread
      <4>3. QED BY <1>1, <4>1, <4>2
    <3>3. CASE i # Unread
      <4>1. Slot(rx_head, i) # hw_page
        BY <2>1, <2>8, <3>3, SlotSame, StreamNumbers
      <4>2. /\ result'[Slot(rx_head, i)] = result[Slot(rx_head, i)]
            /\ block'[Slot(rx_head, i)] = block[Slot(rx_head, i)]
        BY <1>1, <1>2, <2>8, <3>1, <4>1
      <4>3. i < Unread' <=> i < Unread
        BY <2>1, <2>2, <3>3
      <4>4. QED BY <2>1, <4>2, <4>3 DEF Filled
    <3>4. QED BY <3>2, <3>3
  <2>10. CopySafe'
    <3> SUFFICES ASSUME pc = "copy", left > 0
                 PROVE  /\ Slot(head, left) = rx_head
                        /\ \A i \in 0 .. left - 1 :
                             block'[Slot(head, i)] = consumed - left + 1 + i
      BY <1>2 DEF CopySafe, Slot
    <3>1. /\ Slot(head, left) = rx_head
          /\ \A i \in 0 .. left - 1 : block[Slot(head, i)] = consumed - left + 1 + i
      BY <2>1 DEF CopySafe
    <3>2. hw_page = Slot(head, left + Unread)
      <4>1. left \in 0 .. Pages /\ Unread \in 0 .. Pages
        BY <2>1, <2>4, StreamNumbers
      <4>2. QED BY <2>4, <2>8, <3>1, <4>1, SlotSum, StreamNumbers
    <3>3. ASSUME NEW i \in 0 .. left - 1 PROVE block'[Slot(head, i)] = block[Slot(head, i)]
      <4>1. /\ i \in 0 .. Pages - 1 /\ left + Unread \in 0 .. Pages - 1
            /\ i # left + Unread /\ i \in 0 .. Pages
        BY <2>1, <2>4, StreamNumbers
      <4>2. Slot(head, i) # hw_page
        BY <3>2, <4>1, SlotSame, StreamNumbers
      <4>3. Slot(head, i) \in Slots
        BY <4>1, SlotValue, StreamNumbers
      <4>4. QED BY <1>2, <2>8, <4>2, <4>3
    <3>4. QED BY <3>1, <3>3
  <2>11. QED BY <1>2, <1>4, <2>5, <2>6, <2>7, <2>9, <2>10 DEF StreamInv
<1>6. StreamInv'
  BY <1>2, <1>3, <1>5 DEF StreamInv
<1>7. QED BY <1>2, <1>3, <1>6 DEF CyclicInv

\* complete_cyclic() takes only blocks that are there.
LEMMA TakenUnread ==
  ASSUME CyclicInv, Streaming, held
  PROVE  /\ Taken \in 0 .. Unread /\ Unread \in 0 .. Pages - 1
         /\ \E d \in Taken .. Unread : rx_tail = Slot(rx_head, d)
         /\ Taken > 0 => Walked(Taken - 1) # "none"
<1>1. Unread \in 0 .. Pages - 1 /\ TailBetween /\ Filled /\ ~rx_overrun
  BY DEF CyclicInv, StreamInv
<1>2. PICK d \in 0 .. Unread : rx_tail = Slot(rx_head, d)
  BY <1>1 DEF TailBetween
<1>3. Taken \in 0 .. Pages + 1 /\ Taken <= d
  <2>1. StopsAt(d) /\ d \in 0 .. Pages + 1
    BY <1>1, <1>2, StreamNumbers DEF StopsAt
  <2>2. QED BY <2>1, TakenFirst
<1>4. Taken \in 0 .. Unread /\ d \in Taken .. Unread
  BY <1>1, <1>2, <1>3, StreamNumbers
<1>5. ASSUME Taken > 0 PROVE Walked(Taken - 1) # "none"
  <2> DEFINE i == Taken - 1
  <2>1. i \in 0 .. Pages - 1 /\ i < Unread /\ i < Pages
    BY <1>1, <1>4, <1>5, StreamNumbers
  <2> HIDE DEF i
  <2>2. Walked(i) # "none"
    BY <1>1, <2>1 DEF Filled, Walked
  <2>3. QED BY <2>2 DEF i
<1>6. QED BY <1>1, <1>2, <1>4, <1>5

\* complete_cyclic() moves the head over the blocks it takes and clears their
\* results.
LEMMA CompleteStep ==
  ASSUME CyclicInv, Complete
  PROVE  (Streaming' => ~rx_overrun') /\ StreamInv'
<1> DEFINE n == Taken
           p == rx_head
           q == Slot(p, n)
<1>1. /\ pc = "complete" /\ pc' \in {"copy", "again"}
      /\ pc' = "copy" => head' = p /\ left' = n /\ num_credit' = n
      /\ pc' = "again" => left' = 0 /\ num_credit' = 0
      /\ rx_head' = q /\ consumed' = consumed + n
      /\ result' = [s \in Slots |-> IF \E i \in 0 .. n - 1 : s = Slot(p, i) THEN "none"
                                    ELSE result[s]]
      /\ UNCHANGED <<enable_credit_mp, mishaps, held, block, rx_tail, rx_overrun, hw_page,
                     received, hw_credits>>
  <2> HIDE DEF n
  <2>1. CASE Faulty
    BY <2>1 DEF Complete, params, hw_vars, n
  <2>2. CASE ~Faulty
    BY <2>2 DEF Complete, params, hw_vars, n
  <2>3. QED BY <2>1, <2>2
<1>2. (Streaming' <=> Streaming)
  BY <1>1 DEF Streaming
<1>3. Streaming' => ~rx_overrun'
  BY <1>1, <1>2 DEF CyclicInv
<1>4. ASSUME Streaming, held PROVE StreamInv'
  <2>1. WriterAhead /\ Filled /\ num_credit = 0
    BY <1>1, <1>4 DEF CyclicInv, StreamInv, LocalsInv
  <2>2. n \in 0 .. Unread /\ Unread \in 0 .. Pages - 1 /\ p \in Slots
    BY <1>4, TakenUnread, StreamNumbers
  <2>3. PICK d \in n .. Unread : rx_tail = Slot(p, d)
    BY <1>4, TakenUnread
  <2> HIDE DEF n, p
  <2>4. n \in 0 .. Pages - 1 /\ n \in 0 .. Pages
    BY <2>2, StreamNumbers
  <2>5. Unread' = Unread - n /\ Unread' \in 0 .. Pages - 1
    BY <1>1, <2>2, <2>4, StreamNumbers DEF Unread
  <2>6. ASSUME NEW e \in n .. Unread PROVE Slot(q, e - n) = Slot(p, e)
    <3>1. e - n \in 0 .. Pages /\ n + (e - n) = e /\ e < Pages
      BY <2>2, <2>4, StreamNumbers
    <3>2. QED BY <2>2, <2>4, <3>1, SlotSum
  <2>7. WriterAhead'
    <3>1. hw_page' = Slot(rx_head', Unread')
      <4>1. Unread \in n .. Unread
        BY <2>2, StreamNumbers
      <4>2. hw_page = Slot(p, Unread)
        BY <2>1 DEF WriterAhead, p
      <4>3. QED BY <1>1, <2>5, <2>6, <4>1, <4>2
    <3>2. num_credit' \in 0 .. n
      BY <1>1, <2>4
    <3>3. hw_credits' + num_credit' + Unread' <= Credits
      BY <1>1, <2>1, <2>2, <2>5, <3>2, StreamNumbers DEF WriterAhead
    <3>4. QED BY <3>1, <3>3 DEF WriterAhead, Slot
  <2>8. TailBetween'
    <3>1. d - n \in 0 .. Unread'
      BY <2>2, <2>3, <2>5
    <3>2. rx_tail' = Slot(rx_head', d - n)
      BY <1>1, <2>3, <2>6
    <3>3. QED BY <3>1, <3>2 DEF TailBetween, Slot
  <2>9. Filled'
    <3> SUFFICES ASSUME NEW i \in 0 .. Pages - 1
                 PROVE  IF i < Unread'
                          THEN /\ result'[Slot(q, i)] # "none"
                               /\ block[Slot(q, i)] = consumed' + 1 + i
                          ELSE result'[Slot(q, i)] = "none"
      BY <1>1 DEF Filled, Slot
    <3>1. i \in 0 .. Pages
      BY StreamNumbers
    <3>2. CASE n + i < Pages
      <4>1. n + i \in 0 .. Pages - 1 /\ n + i \in 0 .. Pages
        BY <2>2, <2>4, <3>2, StreamNumbers
      <4>2. Slot(q, i) = Slot(p, n + i) /\ Slot(p, n + i) \in Slots
        BY <2>2, <2>4, <3>1, <3>2, <4>1, SlotSum, SlotValue
      <4>3. ASSUME NEW j \in 0 .. n - 1 PROVE Slot(p, n + i) # Slot(p, j)
        <5>1. j \in 0 .. Pages - 1 /\ j # n + i
          BY <2>2, <2>4, <4>1, StreamNumbers
        <5>2. QED BY <2>2, <4>1, <5>1, SlotSame
      <4>4. result'[Slot(q, i)] = result[Slot(p, n + i)]
        BY <1>1, <4>2, <4>3
      <4>5. IF n + i < Unread
              THEN /\ result[Slot(p, n + i)] # "none"
                   /\ block[Slot(p, n + i)] = consumed + 1 + (n + i)
              ELSE result[Slot(p, n + i)] = "none"
        BY <2>1, <4>1 DEF Filled, p
      <4>6. (i < Unread' <=> n + i < Unread)
            /\ consumed + 1 + (n + i) = consumed' + 1 + i
        BY <1>1, <2>2, <2>4, <2>5, StreamNumbers
      <4>7. QED BY <4>2, <4>4, <4>5, <4>6
    <3>3. CASE n + i >= Pages
      <4>1. n + i - Pages \in 0 .. n - 1 /\ ~(i < Unread') /\ n + i - Pages \in 0 .. Pages
        BY <2>2, <2>4, <2>5, <3>3, StreamNumbers
      <4>2. Slot(q, i) = Slot(p, n + i - Pages) /\ Slot(p, n + i - Pages) \in Slots
        <5>1. ~(n + i < Pages)
          BY <2>4, <3>1, <3>3, StreamNumbers
        <5>2. Slot(q, i) = Slot(p, n + i - Pages)
          BY <2>2, <2>4, <3>1, <5>1, SlotSum
        <5>3. Slot(p, n + i - Pages) \in Slots
          BY <2>2, <4>1, SlotValue
        <5>4. QED BY <5>2, <5>3
      <4>3. result'[Slot(q, i)] = "none"
        BY <1>1, <4>1, <4>2
      <4>4. QED BY <4>1, <4>3
    <3>4. QED BY <2>4, <3>2, <3>3, StreamNumbers
  <2>10. CopySafe'
    <3> SUFFICES ASSUME pc' = "copy"
                 PROVE  /\ Slot(p, n) = q
                        /\ \A i \in 0 .. n - 1 :
                             block[Slot(p, i)] = (consumed + n) - n + 1 + i
      BY <1>1 DEF CopySafe, Slot
    <3>1. ASSUME NEW i \in 0 .. n - 1
          PROVE  block[Slot(p, i)] = (consumed + n) - n + 1 + i
      <4>1. i \in 0 .. Pages - 1 /\ i < Unread
        BY <2>2, <2>4, StreamNumbers
      <4>2. block[Slot(p, i)] = consumed + 1 + i
        BY <2>1, <4>1 DEF Filled, p
      <4>3. consumed + 1 + i = (consumed + n) - n + 1 + i
        BY <2>4, <4>1, StreamNumbers
      <4>4. QED BY <4>2, <4>3
    <3>2. QED BY <3>1
  <2>11. pc' # "start"
    BY <1>1
  <2>12. QED BY <2>5, <2>7, <2>8, <2>9, <2>10, <2>11 DEF StreamInv
<1>5. StreamInv'
  BY <1>1, <1>2, <1>4 DEF StreamInv
<1>6. QED BY <1>3, <1>5

\* The end of complete_cyclic() gives the credits back for pages that were copied.
LEMMA SettleStep ==
  ASSUME CyclicInv, Settle
  PROVE  (Streaming' => ~rx_overrun') /\ StreamInv'
<1>1. /\ pc = "copy" /\ pc' = "again" /\ num_credit' = 0 /\ ~rx_overrun'
      /\ hw_credits' = (IF enable_credit_mp /\ num_credit > 0
                          THEN hw_credits + num_credit ELSE hw_credits)
      /\ UNCHANGED <<enable_credit_mp, mishaps, held, result, block, rx_head, rx_tail,
                     hw_page, received, consumed>>
  BY DEF Settle, Credit, params, history
<1>2. (Streaming' <=> Streaming) /\ Unread' = Unread
  BY <1>1 DEF Streaming, Unread
<1>3. ASSUME Streaming, held PROVE StreamInv'
  <2>1. Unread \in 0 .. Pages - 1 /\ WriterAhead /\ TailBetween /\ Filled
    BY <1>1, <1>3 DEF CyclicInv, StreamInv
  <2>2. TailBetween' /\ Filled' /\ CopySafe'
    BY <1>1, <1>2, <2>1 DEF TailBetween, Filled, CopySafe, Slot
  <2>3. hw_credits' + num_credit' = hw_credits + num_credit
    BY <1>1, <1>3, StreamNumbers DEF Streaming
  <2>4. WriterAhead'
    BY <1>1, <1>2, <2>1, <2>3 DEF WriterAhead, Slot
  <2>5. QED BY <1>1, <1>2, <2>1, <2>2, <2>4 DEF StreamInv
<1>4. QED BY <1>1, <1>2, <1>3 DEF StreamInv

\* User memory could not be written: nothing more is copied.
LEMMA CopyFailsStep ==
  ASSUME CyclicInv, CopyFails
  PROVE  (Streaming' => ~rx_overrun') /\ StreamInv'
<1>1. /\ pc = "copy" /\ pc' = "copy" /\ left' = 0
      /\ ("refused" \in mishaps' <=> "refused" \in mishaps)
      /\ UNCHANGED <<enable_credit_mp, num_credit, held, result, block, rx_head, rx_tail,
                     rx_overrun, hw_page, received, hw_credits, consumed>>
  BY DEF CopyFails, Mishap, params, ring_vars, hw_vars
<1>2. (Streaming' <=> Streaming) /\ Unread' = Unread
  BY <1>1 DEF Streaming, Unread
<1>3. ASSUME Streaming, held PROVE StreamInv'
  <2>1. Unread \in 0 .. Pages - 1 /\ WriterAhead /\ TailBetween /\ Filled
    BY <1>1, <1>3 DEF CyclicInv, StreamInv
  <2>2. TailBetween' /\ Filled' /\ CopySafe' /\ WriterAhead'
    BY <1>1, <1>2, <2>1 DEF TailBetween, Filled, CopySafe, WriterAhead, Slot
  <2>3. QED BY <1>1, <1>2, <2>1, <2>2 DEF StreamInv
<1>4. QED BY <1>1, <1>2, <1>3 DEF StreamInv, CyclicInv

\* cyclic_transfer_setup() leaves an empty ring.
LEMMA OpenSetupStep ==
  ASSUME CyclicInv, OpenSetup
  PROVE  (Streaming' => ~rx_overrun') /\ StreamInv'
<1>1. /\ pc' = "start" /\ rx_tail' = 0 /\ rx_head' = 0 /\ ~rx_overrun'
      /\ received' = 0 /\ consumed' = 0 /\ result' = [i \in Slots |-> "none"]
  BY DEF OpenSetup, ResetRing
<1>2. Unread' = 0 /\ 0 \in Slots /\ 0 \in 0 .. Pages - 1
  BY <1>1, RingAssumption DEF Unread, Slots
<1>3. AtStart' /\ CopySafe'
  BY <1>1, <1>2 DEF AtStart, CopySafe
<1>4. TailBetween'
  <2>1. rx_tail' = Slot(rx_head', 0) /\ 0 \in 0 .. Unread'
    BY <1>1, <1>2, SlotZero
  <2>2. QED BY <2>1 DEF TailBetween, Slot
<1>5. Filled'
  <2>1. \A i \in 0 .. Pages - 1 : ~(i < 0) /\ Slot(rx_head', i) \in Slots
    BY <1>1, <1>2, SlotRange
  <2>2. \A i \in 0 .. Pages - 1 : ~(i < 0) /\ result'[Slot(rx_head', i)] = "none"
    BY <1>1, <2>1
  <2>3. QED BY <1>2, <2>2 DEF Filled, Slot
<1>6. QED BY <1>1, <1>2, <1>3, <1>4, <1>5 DEF StreamInv

\* The hardware starts at the first page with all its credits.
LEMMA OpenStartStep ==
  ASSUME CyclicInv, OpenStart
  PROVE  (Streaming' => ~rx_overrun') /\ StreamInv'
<1>1. /\ pc = "start" /\ pc' = "open" /\ hw_page' = 0
      /\ hw_credits' = (IF enable_credit_mp THEN Credits ELSE hw_credits)
      /\ UNCHANGED <<enable_credit_mp, mishaps, num_credit, held, result, block, rx_head,
                     rx_tail, rx_overrun, received, consumed>>
  BY DEF OpenStart, params, ring_vars, history
<1>2. (Streaming' <=> Streaming) /\ Unread' = Unread
  BY <1>1 DEF Streaming, Unread
<1>3. ASSUME Streaming, held PROVE StreamInv'
  <2>1. Unread \in 0 .. Pages - 1 /\ AtStart /\ TailBetween /\ Filled /\ num_credit = 0
    BY <1>1, <1>3 DEF CyclicInv, StreamInv, LocalsInv
  <2>2. TailBetween' /\ Filled' /\ CopySafe'
    BY <1>1, <1>2, <2>1 DEF TailBetween, Filled, CopySafe, Slot
  <2>3. WriterAhead'
    <3>1. hw_page' = Slot(rx_head', Unread')
      BY <1>1, <1>2, <2>1, SlotZero, StreamNumbers DEF AtStart
    <3>2. hw_credits' + num_credit' + Unread' <= Credits
      BY <1>1, <1>2, <1>3, <2>1, StreamNumbers DEF AtStart, Streaming
    <3>3. QED BY <3>1, <3>2 DEF WriterAhead, Slot
  <2>4. QED BY <1>1, <1>2, <2>1, <2>2, <2>3 DEF StreamInv
<1>4. QED BY <1>1, <1>2, <1>3 DEF StreamInv, CyclicInv

\* No step of the reader, the service routine or the hardware harms the stream.
LEMMA StreamStep ==
  ASSUME CyclicInv, [Next]_vars
  PROVE  (Streaming' => ~rx_overrun') /\ StreamInv'
<1> DEFINE Frame ==
      /\ UNCHANGED <<enable_credit_mp, head, left, num_credit, held, result, block, rx_head,
                     rx_tail, rx_overrun, hw_page, received, hw_credits, consumed>>
      /\ "refused" \in mishaps => "refused" \in mishaps'
      /\ pc' = pc \/ {pc, pc'} \cap {"copy", "start"} = {}
<1>1. Frame => (Streaming' => ~rx_overrun') /\ StreamInv'
  BY StreamFrame
<1>2. CASE OpenFails
  <2>1. ~held' /\ ~rx_overrun'
    BY <1>2 DEF OpenFails, ResetRing
  <2>2. QED BY <2>1 DEF StreamInv
<1>3. CASE OpenRefused
  <2>1. "refused" \in mishaps'
    BY <1>3 DEF OpenRefused, Mishap
  <2>2. QED BY <2>1 DEF StreamInv, Streaming
<1>4. CASE CloseFree
  <2>1. ~held' /\ UNCHANGED <<enable_credit_mp, rx_overrun, mishaps>>
    BY <1>4 DEF CloseFree, params, history
  <2>2. QED BY <2>1 DEF StreamInv, CyclicInv, Streaming
<1>5. CASE Read \/ Wait \/ Check
  <2>1. Frame
    <3>1. CASE Read
      BY <3>1 DEF Read, Go, params, ring_vars, hw_vars
    <3>2. CASE Wait
      BY <3>2 DEF Wait, Go, params, ring_vars, hw_vars
    <3>3. CASE Check
      BY <3>3 DEF Check, Go, params, ring_vars, hw_vars
    <3>4. QED BY <1>5, <3>1, <3>2, <3>3
  <2>2. QED BY <1>1, <2>1
<1>6. CASE Signal \/ Again
  <2>1. Frame
    <3>1. CASE Signal
      BY <3>1 DEF Signal, Mishap, params, ring_vars, hw_vars
    <3>2. CASE Again
      BY <3>2 DEF Again, params, hw_vars
    <3>3. QED BY <1>6, <3>1, <3>2
  <2>2. QED BY <1>1, <2>1
<1>7. CASE CloseStop \/ ClosePolled
  <2>1. Frame
    BY <1>7 DEF CloseStop, ClosePolled, params, ring_vars, history
  <2>2. QED BY <1>1, <2>1
<1>8. CASE WorkBegin \/ ServiceEnd
  <2>1. Frame
    <3>1. CASE WorkBegin
      BY <3>1 DEF WorkBegin, params, user_vars, ring_vars, hw_vars, history
    <3>2. CASE ServiceEnd
      BY <3>2 DEF ServiceEnd, params, history
    <3>3. QED BY <1>8, <3>1, <3>2
  <2>2. QED BY <1>1, <2>1
<1>9. CASE PollBegin \/ PollDone \/ PollError
  <2>1. Frame
    <3>1. CASE PollBegin
      BY <3>1 DEF PollBegin, params, ring_vars, hw_vars, history
    <3>2. CASE PollDone
      BY <3>2 DEF PollDone, params, ring_vars, hw_vars, history, CyclicInv, StopInv
    <3>3. CASE PollError
      BY <3>3 DEF PollError, params, ring_vars, history, CyclicInv, StopInv
    <3>4. QED BY <1>9, <3>1, <3>2, <3>3
  <2>2. QED BY <1>1, <2>1
<1>10. CASE HwIdle \/ HwAbort
  <2>1. Frame
    BY <1>10 DEF HwIdle, HwAbort, Mishap, params, user_vars, ring_vars, history
  <2>2. QED BY <1>1, <2>1
<1>11. CASE UNCHANGED vars
  <2>1. Frame
    BY <1>11 DEF vars, params, user_vars, ring_vars, hw_vars, history
  <2>2. QED BY <1>1, <2>1
<1>12. QED
  BY <1>2, <1>3, <1>4, <1>5, <1>6, <1>7, <1>8, <1>9, <1>10, <1>11, OpenSetupStep,
     OpenStartStep, CopyStep, CopyFailsStep, CompleteStep, SettleStep, RingProcessStep,
     ReceiveStep DEF Next, Reader, Service

\* The locals of complete_cyclic() are in use only while it copies, and the
\* service routine meets a ring.
LEMMA LocalsStep == ASSUME CyclicInv, [Next]_vars PROVE LocalsInv'
<1> USE DEF LocalsInv
<1>1. LocalsInv /\ left \in Nat /\ num_credit \in Nat
  BY DEF CyclicInv, Ring
<1>2. CASE OpenSetup
  <2>1. ~running /\ svc # "ring"
    BY <1>2 DEF OpenSetup, Defined, Unlocked
  <2>2. QED BY <1>1, <1>2, <2>1 DEF OpenSetup, svc_vars, run_vars
<1>3. CASE OpenFails \/ OpenRefused
  BY <1>1, <1>3 DEF OpenFails, OpenRefused, user_vars, run_vars, svc_vars
<1>4. CASE OpenStart
  BY <1>1, <1>4 DEF OpenStart, Unlocked, svc_vars
<1>5. CASE Read \/ Wait \/ Check
  <2>1. /\ UNCHANGED <<left, num_credit, svc, held, running>>
        /\ pc # "copy" /\ pc' \notin {"copy", "start"}
    <3>1. CASE Read
      BY <3>1 DEF Read, Go, run_vars, svc_vars, ring_vars
    <3>2. CASE Wait
      BY <3>2 DEF Wait, Go, run_vars, svc_vars, ring_vars
    <3>3. CASE Check
      BY <3>3 DEF Check, Go, run_vars, svc_vars, ring_vars
    <3>4. QED BY <1>5, <3>1, <3>2, <3>3
  <2>2. QED BY <1>1, <2>1
<1>6. CASE Signal \/ Again
  <2>1. /\ UNCHANGED <<left, num_credit, svc, held, running>>
        /\ pc # "copy" /\ pc' \notin {"copy", "start"}
    <3>1. CASE Signal
      BY <3>1 DEF Signal, run_vars, svc_vars, ring_vars
    <3>2. CASE Again
      BY <3>2 DEF Again, run_vars, svc_vars
    <3>3. QED BY <1>6, <3>1, <3>2
  <2>2. QED BY <1>1, <2>1
<1>7. CASE Complete
  <2>1. Taken \in Nat
    BY TakenFirst
  <2>2. /\ UNCHANGED <<svc, held, running>> /\ pc' \in {"copy", "again"}
        /\ pc' = "copy" => left' = Taken /\ num_credit' = Taken
        /\ pc' = "again" => left' = 0 /\ num_credit' = 0
    <3>1. CASE Faulty
      BY <1>7, <3>1 DEF Complete, run_vars, svc_vars
    <3>2. CASE ~Faulty
      BY <1>7, <3>2 DEF Complete, run_vars, svc_vars
    <3>3. QED BY <3>1, <3>2
  <2>3. left' <= num_credit'
    BY <2>1, <2>2
  <2>4. QED BY <1>1, <2>2, <2>3
<1>8. CASE Copy \/ CopyFails
  <2>1. /\ UNCHANGED <<svc, held, num_credit>> /\ pc' = "copy" /\ left' \in {0, left - 1}
    BY <1>8 DEF Copy, CopyFails, svc_vars, ring_vars
  <2>2. left' <= num_credit'
    BY <1>1, <2>1
  <2>3. QED BY <1>1, <2>1, <2>2
<1>9. CASE Settle
  BY <1>1, <1>9 DEF Settle, svc_vars
<1>10. CASE CloseStop
  BY <1>1, <1>10 DEF CloseStop, ring_vars, svc_vars
<1>11. CASE ClosePolled
  BY <1>1, <1>11 DEF ClosePolled, ring_vars, svc_vars
<1>12. CASE CloseFree
  <2>1. /\ UNCHANGED <<left, num_credit, svc>> /\ svc # "ring" /\ pc # "copy" /\ pc' = "closed"
    BY <1>12 DEF CloseFree, Unlocked, svc_vars
  <2>2. QED BY <1>1, <2>1
<1>13. CASE WorkBegin
  <2>1. svc' = "ring" => held'
    BY <1>13 DEF WorkBegin, ring_vars
  <2>2. QED BY <1>1, <1>13, <2>1 DEF WorkBegin, user_vars, run_vars
<1>14. CASE RingProcess
  BY <1>1, <1>14 DEF RingProcess, user_vars, run_vars
<1>15. CASE ServiceEnd
  <2>1. /\ UNCHANGED <<left, num_credit>> /\ svc' = "idle"
        /\ pc' = "copy" <=> pc = "copy"
        /\ pc' = "start" => pc = "start"
    BY <1>15 DEF ServiceEnd
  <2>2. ~running => ~running'
    BY <1>15 DEF ServiceEnd, EngineShutdown
  <2>3. QED BY <1>1, <2>1, <2>2
<1>16. CASE PollBegin \/ PollDone \/ PollError
  <2>1. /\ UNCHANGED <<left, num_credit>> /\ svc' # "ring"
        /\ pc # "copy" /\ pc' \notin {"copy", "start"}
    BY <1>16 DEF PollBegin, PollDone, PollError, CyclicInv, StopInv
  <2>2. QED BY <1>1, <2>1
<1>17. CASE HwReceive \/ HwIdle \/ HwAbort
  BY <1>1, <1>17 DEF HwReceive, HwIdle, HwAbort, user_vars, run_vars, ring_vars
<1>18. CASE UNCHANGED vars
  BY <1>1, <1>18 DEF vars, user_vars, run_vars, svc_vars, ring_vars
<1>19. QED
  BY <1>2, <1>3, <1>4, <1>5, <1>6, <1>7, <1>8, <1>9, <1>10, <1>11, <1>12, <1>13, <1>14,
     <1>15, <1>16, <1>17, <1>18 DEF Next, Reader, Service

LEMMA CyclicStep == CyclicInv /\ [Next]_vars => CyclicInv'
BY StopStep, FlagsStep, ControlStep, RingStep, LocalsStep, StreamStep DEF CyclicInv

LEMMA CyclicInit == Init => CyclicInv
<1> SUFFICES ASSUME Init PROVE CyclicInv
  OBVIOUS
<1>1. StopInv
  BY DEF Init, StopInv, FreedWhenStopped, Defined
<1>2. Flags
  BY DEF Init, Flags, CallFlags, EngineFlags, HwFlags
<1>3. Control
  BY DEF Init, Control
<1>4. Ring
  BY RingAssumption DEF Init, Ring, Slots
<1>5. LocalsInv
  BY DEF Init, LocalsInv
<1>6. ~held /\ ~rx_overrun
  BY DEF Init
<1>7. QED BY <1>1, <1>2, <1>3, <1>4, <1>5, <1>6 DEF CyclicInv, StreamInv

LEMMA CyclicInvariant == Spec => []CyclicInv
BY CyclicInit, CyclicStep, PTL DEF Spec

(***************************************************************************)
(* In every reachable state of cyclic receive the variables have their     *)
(* types; above all the ring indices stay inside the ring.                 *)
(***************************************************************************)
THEOREM CyclicTypeCorrect == Spec => []TypeOK
<1>1. CyclicInv => TypeOK
  BY DEF CyclicInv, Flags, CallFlags, EngineFlags, HwFlags, Control, Ring, TypeOK
<1>2. QED BY <1>1, CyclicInvariant, PTL

(***************************************************************************)
(* With the credit feature no block is lost, overwritten or reordered      *)
(* between the hardware and the reader, for every ring that is larger than *)
(* the credits cyclic_transfer_setup() gives, and complete_cyclic() never  *)
(* walks over a result that is not there: what its WARN_ON assumes.        *)
(***************************************************************************)
THEOREM StreamSafe == Spec => []StreamIntact
<1>1. CyclicInv => StreamIntact
  <2> SUFFICES ASSUME CyclicInv PROVE StreamIntact
    OBVIOUS
  <2>1. ASSUME Streaming, held
        PROVE  /\ Unread \in 0 .. Pages
               /\ \A i \in 0 .. Unread - 1 :
                    /\ result[Slot(rx_head, i)] # "none"
                    /\ block[Slot(rx_head, i)] = consumed + 1 + i
               /\ pc = "copy" => \A i \in 0 .. left - 1 :
                    block[Slot(head, i)] = consumed - left + 1 + i
    <3>1. Unread \in 0 .. Pages - 1 /\ Filled /\ CopySafe
      BY <2>1 DEF CyclicInv, StreamInv
    <3>2. Unread \in 0 .. Pages
      BY <3>1, StreamNumbers
    <3>3. ASSUME NEW i \in 0 .. Unread - 1
          PROVE  /\ result[Slot(rx_head, i)] # "none"
                 /\ block[Slot(rx_head, i)] = consumed + 1 + i
      <4>1. i \in 0 .. Pages - 1 /\ i < Unread
        BY <3>1, StreamNumbers
      <4>2. QED BY <3>1, <4>1 DEF Filled
    <3>4. ASSUME pc = "copy", NEW i \in 0 .. left - 1
          PROVE  block[Slot(head, i)] = consumed - left + 1 + i
      <4>1. left > 0
        BY StreamNumbers
      <4>2. QED BY <3>1, <3>4, <4>1 DEF CopySafe
    <3>5. QED BY <3>2, <3>3, <3>4
  <2>2. BlocksInOrder
    BY <2>1 DEF BlocksInOrder, Streaming
  <2>3. NoMissingResult
    <3>1. Streaming => ~rx_overrun
      BY DEF CyclicInv
    <3>2. Streaming /\ pc = "complete" /\ Taken > 0 => Walked(Taken - 1) # "none"
      BY TakenUnread DEF CyclicInv, StopInv
    <3>3. QED BY <3>1, <3>2 DEF NoMissingResult, Streaming
  <2>4. QED BY <2>2, <2>3 DEF StreamIntact
<1>2. QED BY <1>1, CyclicInvariant, PTL

(***************************************************************************)
(* What a read() returns.  An end of packet is noticed only while the      *)
(* blocks up to it are being handed over, and until then the read() has no *)
(* more than a part of one packet.                                         *)
(***************************************************************************)
Reading == pc \in {"wait", "asleep", "polling", "check", "complete", "copy", "again"}

PacketInv ==
  Streaming =>
    /\ eop_found => pc \in {"copy", "again"} /\ packet = "whole"
    /\ ~eop_found /\ Reading => packet \in {"empty", "part"}

\* complete_cyclic() stops at the first end of packet.
LEMMA CompletePacket ==
  ASSUME CyclicInv, PacketInv, Complete, Streaming
  PROVE  PacketInv'
<1> DEFINE n == Taken
<1>1. n \in Nat /\ \A i \in 0 .. n - 2 : Walked(i) # "eop"
  <2>1. n \in 0 .. Pages + 1 /\ Pages \in Nat
    BY TakenFirst, RingAssumption
  <2>2. ASSUME NEW i \in 0 .. n - 2, Walked(i) = "eop" PROVE FALSE
    <3>1. i + 1 \in 0 .. Pages + 1 /\ i + 1 > 0 /\ (i + 1) - 1 = i /\ ~(n <= i + 1)
      BY <2>1
    <3>2. StopsAt(i + 1)
      BY <2>2, <3>1 DEF StopsAt, Stops
    <3>3. n <= i + 1
      BY <3>1, <3>2, TakenFirst
    <3>4. QED BY <3>1, <3>3
  <2>3. QED BY <2>1, <2>2
<1> DEFINE eop == n > 0 /\ Walked(n - 1) = "eop"
<1>2. ~eop_found /\ packet \in {"empty", "part"}
  BY DEF Complete, PacketInv, Reading
<1> HIDE DEF n
<1>3. /\ pc' \in {"copy", "again"} /\ (eop_found' <=> eop)
      /\ packet' = IF n = 0 THEN packet
                   ELSE IF packet \in {"whole", "more"} \/ \E i \in 0 .. n - 2 : Walked(i) = "eop"
                     THEN "more"
                     ELSE IF eop THEN "whole" ELSE "part"
  <2>1. pc' \in {"copy", "again"}
    <3>1. CASE Faulty
      BY <3>1 DEF Complete
    <3>2. CASE ~Faulty
      BY <3>2 DEF Complete
    <3>3. QED BY <3>1, <3>2
  <2>2. eop_found' <=> eop
    BY <1>2 DEF Complete, n
  <2>3. packet' = IF n = 0 THEN packet
                  ELSE IF packet \in {"whole", "more"} \/ \E i \in 0 .. n - 2 : Walked(i) = "eop"
                    THEN "more"
                    ELSE IF eop THEN "whole" ELSE "part"
    BY DEF Complete, n
  <2>4. QED BY <2>1, <2>2, <2>3
<1>4. packet' = IF n = 0 THEN packet ELSE IF eop THEN "whole" ELSE "part"
  BY <1>1, <1>2, <1>3
<1>5. CASE n = 0
  <2>1. ~eop
    BY <1>5
  <2>2. QED BY <1>2, <1>3, <1>4, <1>5, <2>1 DEF PacketInv
<1>6. CASE n # 0
  BY <1>3, <1>4, <1>6 DEF PacketInv
<1>7. QED BY <1>5, <1>6

LEMMA PacketStep == ASSUME CyclicInv, PacketInv, [Next]_vars PROVE PacketInv'
<1> SUFFICES ASSUME Streaming' PROVE PacketInv'
  BY DEF PacketInv
<1>1. Streaming
  <2>1. UNCHANGED enable_credit_mp
    BY DEF Next, Reader, Service, OpenSetup, OpenFails, OpenRefused, OpenStart, Read, Go,
           Signal, CopyFails, Wait, PollBegin, PollDone, PollError, Check, Complete, Copy,
           Settle, Again, CloseStop, ClosePolled, CloseFree, WorkBegin, RingProcess,
           ServiceEnd, HwReceive, HwIdle, HwAbort, vars, params
  <2>2. "refused" \in mishaps => "refused" \in mishaps'
    BY DEF Next, Reader, Service, OpenSetup, OpenFails, OpenRefused, OpenStart, Read, Go,
           Signal, CopyFails, Wait, PollBegin, PollDone, PollError, Check, Complete, Copy,
           Settle, Again, CloseStop, ClosePolled, CloseFree, WorkBegin, RingProcess,
           ServiceEnd, HwReceive, HwIdle, HwAbort, vars, history, Mishap
  <2>3. QED BY <2>1, <2>2 DEF Streaming
<1>2. /\ eop_found => pc \in {"copy", "again"} /\ packet = "whole"
      /\ ~eop_found /\ Reading => packet \in {"empty", "part"}
  BY <1>1 DEF PacketInv
<1>3. CASE OpenSetup \/ OpenFails
  BY <1>3 DEF OpenSetup, OpenFails, ResetRing, user_vars, PacketInv, Reading
<1>4. CASE OpenRefused
  BY <1>4 DEF OpenRefused, Mishap, Streaming
<1>5. CASE OpenStart
  BY <1>2, <1>5 DEF OpenStart, ring_vars, PacketInv, Reading
<1>6. CASE Read
  BY <1>2, <1>6 DEF Read, Go, ring_vars, PacketInv, Reading
<1>7. CASE Wait \/ Signal \/ Check
  <2>1. /\ UNCHANGED <<eop_found, packet>> /\ pc \notin {"copy", "again"}
        /\ Reading' => Reading
    <3>1. CASE Wait
      BY <3>1 DEF Wait, Go, ring_vars, Reading
    <3>2. CASE Signal
      BY <3>2 DEF Signal, ring_vars, Reading
    <3>3. CASE Check
      BY <3>3 DEF Check, Go, ring_vars, Reading
    <3>4. QED BY <1>7, <3>1, <3>2, <3>3
  <2>2. QED BY <1>2, <2>1 DEF PacketInv
<1>8. CASE PollBegin \/ PollDone \/ PollError
  <2>1. UNCHANGED <<eop_found, packet>> /\ pc \in {"wait", "polling"}
    BY <1>8 DEF PollBegin, PollDone, PollError, CyclicInv, StopInv, ring_vars, history
  <2>2. QED BY <1>2, <2>1 DEF PacketInv, Reading
<1>9. CASE Copy \/ CopyFails \/ Settle
  <2>1. UNCHANGED <<eop_found, packet>> /\ pc = "copy" /\ pc' \in {"copy", "again"}
    BY <1>9 DEF Copy, CopyFails, Settle, ring_vars, history
  <2>2. QED BY <1>2, <2>1 DEF PacketInv, Reading
<1>10. CASE Again
  <2>1. CASE eop_found
    BY <1>1, <1>10, <2>1 DEF Again, PacketInv, Reading, Streaming
  <2>2. CASE ~eop_found
    BY <1>2, <1>10, <2>2 DEF Again, PacketInv, Reading
  <2>3. QED BY <2>1, <2>2
<1>11. CASE CloseStop \/ ClosePolled \/ CloseFree
  <2>1. /\ UNCHANGED eop_found /\ pc \in {"open", "stop", "free"}
        /\ pc' \in {"stop", "free", "closed"}
    BY <1>11 DEF CloseStop, ClosePolled, CloseFree, ring_vars
  <2>2. QED BY <1>2, <2>1 DEF PacketInv, Reading
<1>12. CASE ServiceEnd
  <2>1. /\ eop_found' <=> eop_found
        /\ packet' = packet
        /\ pc' = pc \/ (pc = "asleep" /\ pc' = "wait")
    BY <1>1, <1>12 DEF ServiceEnd, Streaming, history
  <2>2. QED BY <1>2, <2>1 DEF PacketInv, Reading
<1>13. CASE WorkBegin \/ RingProcess \/ HwReceive \/ HwIdle \/ HwAbort \/ UNCHANGED vars
  <2>1. UNCHANGED <<eop_found, packet, pc>>
    BY <1>13 DEF WorkBegin, RingProcess, HwReceive, HwIdle, HwAbort, vars, user_vars,
                 ring_vars, history
  <2>2. QED BY <1>2, <2>1 DEF PacketInv, Reading
<1>14. QED
  BY <1>1, <1>3, <1>4, <1>5, <1>6, <1>7, <1>8, <1>9, <1>10, <1>11, <1>12, <1>13,
     CompletePacket DEF Next, Reader, Service

(***************************************************************************)
(* With the credit feature a read() that returns after an undisturbed run  *)
(* returns exactly one packet, however the service routine and the         *)
(* hardware interleave with it: char_sgdma_read_cyclic() leaves its loop   *)
(* only at an end of packet, and complete_cyclic() never takes blocks of   *)
(* the packet behind it.                                                   *)
(***************************************************************************)
THEOREM ReadReturnsOnePacket == Spec => ReadReturnsPacket
<1>1. Init => PacketInv
  BY DEF Init, PacketInv, Reading
<1>2. PacketInv /\ [Next]_vars =>
        [pc = "again" /\ pc' = "open" /\ enable_credit_mp /\ mishaps = {} => packet = "whole"]_vars
  <2> SUFFICES ASSUME PacketInv, Next, pc = "again", pc' = "open", enable_credit_mp,
                      mishaps = {}
               PROVE  packet = "whole"
    BY DEF vars, user_vars
  <2>1. Streaming
    BY DEF Streaming
  <2>2. eop_found
    <3>1. Again
      BY DEF Next, Reader, Service, OpenSetup, OpenFails, OpenRefused, OpenStart, Read, Go,
             Signal, CopyFails, Wait, PollBegin, PollDone, PollError, Check, Complete, Copy,
             Settle, CloseStop, ClosePolled, CloseFree, WorkBegin, RingProcess,
             ServiceEnd, HwReceive, HwIdle, HwAbort, user_vars
    <3>2. QED BY <3>1 DEF Again
  <2>3. QED BY <2>1, <2>2 DEF PacketInv
<1>3. CyclicInv /\ PacketInv /\ [Next]_vars => PacketInv'
  BY PacketStep
<1>4. QED BY <1>1, <1>2, <1>3, CyclicInvariant, PTL DEF Spec, ReadReturnsPacket
=============================================================================
