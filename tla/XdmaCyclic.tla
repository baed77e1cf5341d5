----------------------------- MODULE XdmaCyclic -----------------------------
(***************************************************************************)
(* Cyclic receive of an AXI-stream C2H engine (xdma-core.c): open() builds *)
(* a ring of pages and starts an endless transfer, the hardware fills one  *)
(* page after the other and writes a result for each, the service routine  *)
(* follows it with rx_tail, read() follows with rx_head, and close() stops *)
(* the engine and frees the ring.  The service routine runs in a work item *)
(* after an interrupt or, in poll mode, inside read().                     *)
(*                                                                         *)
(* A file that was opened is used by one thread.  Every block carries its  *)
(* number in the stream.  mishaps records what has gone wrong so far:      *)
(*   "refused"  an open() returned with an error and engine->lock held;    *)
(*   "signal"   a signal ended a wait;                                     *)
(*   "fault"    the hardware wrote a malformed result or aborted, or user  *)
(*              memory could not be written.                               *)
(***************************************************************************)
EXTENDS Integers, FiniteSets, FiniteSetsExt

CONSTANTS
  Pages,       \* RX_BUF_PAGES
  Credits,     \* what cyclic_transfer_setup() writes to the credit register:
               \* 128, fewer than the 256 pages
  MaxBlocks    \* bound: blocks the hardware receives after one open()

ASSUME RingAssumption ==
  /\ Pages \in Nat \ {0}
  /\ Credits \in 1 .. Pages - 1
  /\ MaxBlocks \in Nat

VARIABLES
  enable_credit_mp, poll_mode,  \* module parameters
  \* the thread that holds the file open: where it is, the result of its wait,
  \* a signal that is pending, and the locals of complete_cyclic() (a local
  \* that is no longer used goes back to its initial value, here and below)
  pc, interrupted, signal, head, left, num_credit,
  \* struct xdma_engine
  held, result, block, rx_head, rx_tail, rx_overrun, eop_found,
  user_buffer_index, running, listed,
  \* engine_service_work(): pending, program counter, locals
  work, svc, idle_seen, eop_count,
  \* hardware: RUN bit, BUSY bit, next page, blocks received, credits left,
  \* error bit of the writeback word
  hw_run, hw_busy, hw_page, received, hw_credits, wb_err,
  \* history: blocks read() has consumed, and how the current read() stands
  consumed, packet, mishaps

user_vars == <<pc, interrupted, signal, head, left, num_credit>>
ring_vars == <<held, result, block, rx_head, rx_tail, rx_overrun, eop_found,
               user_buffer_index>>
run_vars  == <<running, listed>>
svc_vars  == <<work, svc, idle_seen, eop_count>>
hw_vars   == <<hw_run, hw_busy, hw_page, received, hw_credits, wb_err>>
params    == <<enable_credit_mp, poll_mode>>
history   == <<consumed, packet, mishaps>>

vars == <<params, user_vars, ring_vars, run_vars, svc_vars, hw_vars,
          history>>

Slots == 0 .. Pages - 1

\* Pages beyond the last one.
NoWrap(p, i) == p + i

\* The page i after page p.
Slot(p, i) == (p + i) % Pages

\* engine->lock can be taken: the service routine does not hold it, and no
\* open() has kept it.
Unlocked == svc = "idle" /\ "refused" \notin mishaps

(***************************************************************************)
(* Behaviour is defined until the ring is freed with the engine running.   *)
(***************************************************************************)
Defined == (running \/ listed \/ hw_busy) => held

Mishap(m) == mishaps' = mishaps \cup {m}

(***************************************************************************)
(* Pieces of the code the actions below share.                             *)
(***************************************************************************)

\* The loop condition of engine_ring_process().
NewResult == result[rx_tail] # "none" /\ ~rx_overrun

\* Packets run into one another.
NeverStops(r) == r \in {"bad", "none"}

\* complete_cyclic() goes no further after a fault or the end of a packet.
Stops(r) == r \in {"bad", "none", "eop"}

\* A credit more than the blocks that were freed.
GenerousCredit(n) == n + 1

\* The credits given back for n blocks.
Credit(n) == n

\* Readers sleep on.
NobodyWoken == FALSE

\* The service routine wakes the reader.
Wakes == enable_credit_mp \/ eop_count

\* xdma_engine_stop() leaves IE_IDLE_STOPPED set for a streaming C2H engine.
IdleInterrupt == TRUE

\* The ring is freed at once.
NoWait == TRUE

\* The condition cyclic_shutdown_interrupt() waits for.
Stopped == ~running

\* The transfer is taken off the list and engine_service_shutdown() clears
\* RUN and running, when the engine was running.
EngineShutdown ==
  IF running
    THEN listed' = FALSE /\ running' = FALSE /\ hw_run' = FALSE
    ELSE UNCHANGED <<listed, running, hw_run>>

\* The condition transfer_monitor_cyclic() waits for.
DataReady ==
  IF enable_credit_mp THEN rx_head # rx_tail \/ rx_overrun ELSE eop_found

(***************************************************************************)
(* open(): cyclic_transfer_setup().                                        *)
(***************************************************************************)

\* What the setup clears before it looks whether the ring exists.
ResetRing ==
  /\ rx_tail' = 0 /\ rx_head' = 0
  /\ rx_overrun' = FALSE /\ eop_found' = FALSE
  /\ user_buffer_index' = 0

\* The ring is allocated; the hardware has not received anything for it.
OpenSetup ==
  /\ Defined /\ Unlocked
  /\ pc = "closed" /\ ~held
  /\ ResetRing
  /\ held' = TRUE
  /\ result' = [i \in Slots |-> "none"]
  /\ block' = [i \in Slots |-> 0]
  /\ received' = 0 /\ consumed' = 0
  /\ pc' = "start"
  /\ UNCHANGED <<params, interrupted, signal, head, left, num_credit,
                 run_vars, svc_vars, hw_run, hw_busy, hw_page, hw_credits,
                 wb_err, packet, mishaps>>

\* The result buffer cannot be allocated: what was allocated is freed.
OpenFails ==
  /\ Defined /\ Unlocked
  /\ pc = "closed" /\ ~held
  /\ ResetRing
  /\ UNCHANGED <<params, user_vars, held, result, block, run_vars,
                 svc_vars, hw_vars, history>>

\* Another process opens the device while the ring exists, or the pages of the
\* ring cannot be allocated: an error is returned, the lock is not.
OpenRefused ==
  /\ Defined /\ Unlocked
  /\ ResetRing
  /\ Mishap("refused")
  /\ UNCHANGED <<params, user_vars, held, result, block, run_vars,
                 svc_vars, hw_vars, consumed, packet>>

\* The credits are written and transfer_queue() starts the engine.
OpenStart ==
  /\ Defined /\ Unlocked
  /\ pc = "start"
  /\ hw_credits' = IF enable_credit_mp THEN Credits ELSE hw_credits
  /\ listed' = TRUE /\ running' = TRUE
  /\ hw_run' = TRUE /\ hw_busy' = TRUE /\ hw_page' = 0
  /\ pc' = "open"
  /\ UNCHANGED <<params, interrupted, signal, head, left, num_credit,
                 ring_vars, svc_vars, received, wb_err, history>>

(***************************************************************************)
(* read(): char_sgdma_read_cyclic().                                       *)
(***************************************************************************)

\* A move of the thread that changes nothing else.
Go(from, to) ==
  /\ pc = from
  /\ pc' = to
  /\ UNCHANGED <<params, head, left, num_credit, ring_vars, run_vars,
                 svc_vars, hw_vars, consumed>>

Read ==
  /\ Defined
  /\ Go("open", "wait")
  /\ packet' = "empty"
  /\ UNCHANGED <<interrupted, signal, mishaps>>

\* wait_event_interruptible() in transfer_monitor_cyclic() returns, or sleeps.
\* In poll mode transfer_monitor_cyclic() services the engine, see PollBegin.
Wait ==
  /\ Defined
  /\ ~poll_mode
  /\ IF DataReady \/ signal
       THEN Go("wait", "check") /\ interrupted' = ~DataReady
       ELSE Go("wait", "asleep") /\ UNCHANGED interrupted
  /\ UNCHANGED <<signal, packet, mishaps>>

\* In poll mode nothing looks for signals.
Signal ==
  /\ Defined
  /\ ~poll_mode
  /\ pc \in {"wait", "asleep", "stop"}
  /\ ~signal
  /\ signal' = TRUE
  /\ Mishap("signal")
  /\ pc' = IF pc = "asleep" THEN "wait" ELSE pc
  /\ UNCHANGED <<params, interrupted, head, left, num_credit,
                 ring_vars, run_vars, svc_vars, hw_vars, consumed, packet>>

\* The loop of transfer_monitor_cyclic() ends once the result at the head is
\* there, even when a signal ended the wait; only then is the signal noticed.
Check ==
  /\ Defined
  /\ \/ result[rx_head] = "none" /\ Go("check", "wait")
        /\ UNCHANGED signal
     \/ result[rx_head] # "none" /\ ~interrupted /\ Go("check", "complete")
        /\ UNCHANGED signal
     \/ result[rx_head] # "none" /\ interrupted /\ Go("check", "open")
        /\ signal' = FALSE
  /\ interrupted' = FALSE
  /\ UNCHANGED <<packet, mishaps>>

\* The results complete_cyclic() walks over: a cleared one is met again after
\* a whole round.
Walked(i) == IF i < Pages THEN result[Slot(rx_head, i)] ELSE "none"

\* How many of them it takes.
Taken ==
  Min({i \in 0 .. Pages + 1 :
         \/ Slot(rx_head, i) = rx_tail /\ ~rx_overrun
         \/ i > 0 /\ Stops(Walked(i - 1))})

\* The last one taken is malformed or missing.
Faulty == Taken > 0 /\ Walked(Taken - 1) \in {"bad", "none"}

\* complete_cyclic() up to the unlock: results are cleared up to a fault or the
\* end of a packet.
Complete ==
  /\ Defined /\ Unlocked
  /\ pc = "complete"
  /\ LET n == Taken
         eop == n > 0 /\ Walked(n - 1) = "eop"
     IN  /\ head' = IF Faulty THEN 0 ELSE rx_head
         /\ rx_head' = Slot(rx_head, n)
         /\ result' = [s \in Slots |->
              IF \E i \in 0 .. n - 1 : s = Slot(rx_head, i) THEN "none"
              ELSE result[s]]
         /\ eop_found' = (eop_found \/ eop)
         /\ consumed' = consumed + n
         /\ packet' = IF n = 0 THEN packet
                      ELSE IF \/ packet \in {"whole", "more"}
                              \/ \E i \in 0 .. n - 2 : Walked(i) = "eop"
                        THEN "more"
                        ELSE IF eop THEN "whole" ELSE "part"
         /\ IF Faulty
              THEN pc' = "again" /\ left' = 0 /\ num_credit' = 0
              ELSE pc' = "copy" /\ left' = n /\ num_credit' = n
  /\ UNCHANGED <<params, interrupted, signal, held, block, rx_tail,
                 rx_overrun, user_buffer_index, run_vars, svc_vars, hw_vars,
                 mishaps>>

\* copy_cyclic_to_user() copies one page.
Copy ==
  /\ Defined
  /\ pc = "copy" /\ left > 0
  /\ head' = Slot(head, 1)
  /\ left' = left - 1
  /\ user_buffer_index' = user_buffer_index + 1
  /\ UNCHANGED <<params, pc, interrupted, signal, num_credit, held,
                 result, block, rx_head, rx_tail, rx_overrun, eop_found,
                 run_vars, svc_vars, hw_vars, history>>

\* User memory cannot be written: copy_cyclic_to_user() returns the number of
\* bytes left, which its caller takes for a success.
CopyFails ==
  /\ Defined
  /\ pc = "copy" /\ left > 0
  /\ left' = 0
  /\ Mishap("fault")
  /\ UNCHANGED <<params, pc, interrupted, signal, head, num_credit,
                 ring_vars, run_vars, svc_vars, hw_vars, consumed, packet>>

\* The end of complete_cyclic(), without the lock.
Settle ==
  /\ Defined
  /\ pc = "copy" /\ left = 0
  /\ rx_overrun' = FALSE
  /\ hw_credits' = IF enable_credit_mp /\ num_credit > 0
                     THEN hw_credits + Credit(num_credit) ELSE hw_credits
  /\ num_credit' = 0 /\ head' = 0
  /\ pc' = "again"
  /\ UNCHANGED <<params, interrupted, signal, left, held,
                 result, block, rx_head, rx_tail, eop_found,
                 user_buffer_index, run_vars, svc_vars, hw_run, hw_busy,
                 hw_page, received, wb_err, history>>

\* The loop of char_sgdma_read_cyclic().
Again ==
  /\ Defined
  /\ pc = "again"
  /\ IF eop_found
       THEN pc' = "open" /\ eop_found' = ~enable_credit_mp
       ELSE pc' = "wait" /\ UNCHANGED eop_found
  /\ packet' = IF eop_found THEN "empty" ELSE packet
  /\ signal' = (signal /\ pc' # "open")
  /\ UNCHANGED <<params, interrupted, head, left, num_credit, held,
                 result, block, rx_head, rx_tail, rx_overrun,
                 user_buffer_index, run_vars, svc_vars, hw_vars, consumed, mishaps>>

(***************************************************************************)
(* close(): cyclic_transfer_teardown().                                    *)
(***************************************************************************)

\* engine_cyclic_stop(), without the lock.
CloseStop ==
  /\ Defined
  /\ pc = "open"
  /\ hw_run' = (hw_run /\ ~listed)
  /\ pc' = "stop"
  /\ UNCHANGED <<params, interrupted, signal, head, left, num_credit,
                 ring_vars, run_vars, svc_vars, hw_busy, hw_page, received,
                 hw_credits, wb_err, history>>

\* cyclic_shutdown_polled() takes the engine out of service when BUSY is off.
ClosePolled ==
  /\ Defined /\ Unlocked
  /\ poll_mode
  /\ pc = "stop"
  /\ ~hw_busy
  /\ EngineShutdown
  /\ pc' = "free"
  /\ UNCHANGED <<params, interrupted, signal, head, left, num_credit, ring_vars,
                 svc_vars, hw_busy, hw_page, received, hw_credits, wb_err, history>>

\* Back from there, or from cyclic_shutdown_interrupt(): the ring is freed
\* whatever it returns.
CloseFree ==
  /\ Defined /\ Unlocked
  /\ \/ pc = "free"
     \/ ~poll_mode /\ pc = "stop" /\ (Stopped \/ signal)
  /\ held' = FALSE
  /\ signal' = FALSE
  /\ pc' = "closed"
  /\ UNCHANGED <<params, interrupted, head, left, num_credit, result,
                 block, rx_head, rx_tail, rx_overrun, eop_found,
                 user_buffer_index, run_vars, svc_vars, hw_vars, history>>

(***************************************************************************)
(* engine_service_work(), under engine->lock.                              *)
(***************************************************************************)

\* engine_service_cyclic_interrupt() reads the status.  Without a ring the
\* engine does not run and there is nothing to service.
WorkBegin ==
  /\ Defined /\ Unlocked
  /\ work
  /\ work' = FALSE
  /\ svc' = IF held THEN "ring" ELSE "idle"
  /\ idle_seen' = ~hw_busy
  /\ eop_count' = FALSE
  /\ UNCHANGED <<params, user_vars, ring_vars, run_vars, hw_vars,
                 history>>

\* One round of engine_ring_process().
RingProcess ==
  /\ Defined
  /\ svc \in {"ring", "poll"}
  /\ NewResult
  /\ eop_count' = (eop_count \/ result[rx_tail] = "eop")
  /\ rx_tail' = Slot(rx_tail, 1)
  /\ rx_overrun' = (rx_overrun \/ rx_tail' = rx_head)
  /\ UNCHANGED <<params, user_vars, held, result, block, rx_head,
                 eop_found, user_buffer_index, run_vars, work, svc, idle_seen,
                 hw_vars, history>>

\* The reader is woken, and an engine that went idle is taken out of service.
ServiceEnd ==
  /\ Defined
  /\ svc = "ring"
  /\ ~NewResult
  /\ eop_found' = (eop_found \/ (~enable_credit_mp /\ eop_count))
  /\ pc' = IF Wakes /\ pc = "asleep" THEN "wait" ELSE pc
  /\ IF idle_seen THEN EngineShutdown ELSE UNCHANGED <<listed, running, hw_run>>
  /\ svc' = "idle" /\ idle_seen' = FALSE /\ eop_count' = FALSE
  /\ UNCHANGED <<params, interrupted, signal, head, left, num_credit,
                 held, result, block, rx_head, rx_tail, rx_overrun,
                 user_buffer_index, work, hw_busy,
                 hw_page, received, hw_credits, wb_err, history>>

(***************************************************************************)
(* engine_service_cyclic_polled(), called by the reader, which keeps       *)
(* engine->lock until it has met an end of packet or an error.             *)
(***************************************************************************)
PollBegin ==
  /\ Defined /\ Unlocked
  /\ poll_mode
  /\ pc = "wait"
  /\ pc' = "polling"
  /\ svc' = "poll"
  /\ eop_count' = FALSE
  /\ UNCHANGED <<params, interrupted, signal, head, left, num_credit, ring_vars,
                 run_vars, work, idle_seen, hw_vars, history>>

\* The loop is left with an end of packet among the new results.
PollDone ==
  /\ Defined
  /\ svc = "poll"
  /\ eop_count /\ ~NewResult
  /\ svc' = "idle" /\ eop_count' = FALSE /\ pc' = "check" /\ interrupted' = FALSE
  /\ UNCHANGED <<params, signal, head, left, num_credit, ring_vars, run_vars, work,
                 idle_seen, hw_vars, history>>

\* Or with the error bit, which becomes -ERESTARTSYS; an idle engine is taken
\* out of service.
PollError ==
  /\ Defined
  /\ svc = "poll"
  /\ ~eop_count /\ wb_err
  /\ IF ~hw_busy THEN EngineShutdown ELSE UNCHANGED <<listed, running, hw_run>>
  /\ svc' = "idle" /\ eop_count' = FALSE /\ pc' = "check" /\ interrupted' = TRUE
  /\ UNCHANGED <<params, signal, head, left, num_credit, ring_vars, work, idle_seen,
                 hw_busy, hw_page, received, hw_credits, wb_err, history>>

(***************************************************************************)
(* The hardware.  Every event it latches leads to one more run of the      *)
(* service routine, in interrupt mode.                                     *)
(***************************************************************************)

\* A page is filled and its result written; with the credit feature each page
\* costs a credit.
HwReceive ==
  /\ Defined
  /\ hw_busy
  /\ received < MaxBlocks
  /\ enable_credit_mp => hw_credits > 0
  /\ \E r \in {"part", "eop", "bad"} :
       /\ result' = [result EXCEPT ![hw_page] = r]
       /\ mishaps' = IF r = "bad" THEN mishaps \cup {"fault"} ELSE mishaps
  /\ received' = received + 1
  /\ block' = [block EXCEPT ![hw_page] = received']
  /\ hw_page' = Slot(hw_page, 1)
  /\ hw_credits' = IF enable_credit_mp THEN hw_credits - 1 ELSE hw_credits
  /\ wb_err' = FALSE
  /\ work' = ~poll_mode
  /\ UNCHANGED <<params, user_vars, held, rx_head, rx_tail,
                 rx_overrun, eop_found, user_buffer_index, run_vars, svc,
                 idle_seen, eop_count, hw_run, hw_busy, consumed, packet>>

\* With RUN cleared the engine stops.
HwIdle ==
  /\ Defined
  /\ hw_busy /\ ~hw_run
  /\ hw_busy' = FALSE
  /\ work' = (work \/ (IdleInterrupt /\ ~poll_mode))
  /\ UNCHANGED <<params, user_vars, ring_vars, run_vars, svc,
                 idle_seen, eop_count, hw_run, hw_page, received, hw_credits,
                 wb_err, history>>

\* The hardware meets an error and stops; in poll mode it says so in the
\* writeback word, which no run of the cyclic service clears.
HwAbort ==
  /\ Defined
  /\ hw_busy
  /\ hw_busy' = FALSE
  /\ wb_err' = poll_mode
  /\ work' = ~poll_mode
  /\ Mishap("fault")
  /\ UNCHANGED <<params, user_vars, ring_vars, run_vars, svc, idle_seen, eop_count,
                 hw_run, hw_page, received, hw_credits, consumed, packet>>

-----------------------------------------------------------------------------

Init ==
  /\ enable_credit_mp \in BOOLEAN /\ poll_mode \in BOOLEAN
  /\ pc = "closed" /\ interrupted = FALSE /\ signal = FALSE
  /\ head = 0 /\ left = 0 /\ num_credit = 0
  /\ held = FALSE
  /\ result = [i \in Slots |-> "none"]
  /\ block = [i \in Slots |-> 0]
  /\ rx_head = 0 /\ rx_tail = 0 /\ rx_overrun = FALSE /\ eop_found = FALSE
  /\ user_buffer_index = 0
  /\ running = FALSE /\ listed = FALSE
  /\ work = FALSE /\ svc = "idle" /\ idle_seen = FALSE /\ eop_count = FALSE
  /\ hw_run = FALSE /\ hw_busy = FALSE /\ hw_page = 0 /\ received = 0
  /\ hw_credits = 0 /\ wb_err = FALSE
  /\ consumed = 0 /\ packet = "empty" /\ mishaps = {}

Reader ==
  \/ Wait \/ PollBegin \/ PollDone \/ PollError
  \/ Check \/ Complete \/ Copy \/ Settle \/ Again

Service == WorkBegin \/ RingProcess \/ ServiceEnd

Next ==
  \/ OpenSetup \/ OpenFails \/ OpenRefused \/ OpenStart
  \/ Read \/ Signal \/ CopyFails \/ Reader
  \/ CloseStop \/ ClosePolled \/ CloseFree
  \/ Service
  \/ HwReceive \/ HwIdle \/ HwAbort

Spec == Init /\ [][Next]_vars

(***************************************************************************)
(* The reader and a thread in close() are scheduled, the workqueue runs    *)
(* what is pending, and a stopped engine finishes the page it is on.       *)
(***************************************************************************)
Fairness ==
  /\ WF_vars(Reader)
  /\ WF_vars(ClosePolled \/ CloseFree)
  /\ WF_vars(Service)
  /\ WF_vars(HwIdle)

FairSpec == Spec /\ Fairness

-----------------------------------------------------------------------------

\* Types; the ring indices stay inside the ring.
TypeOK ==
  /\ enable_credit_mp \in BOOLEAN /\ poll_mode \in BOOLEAN /\ wb_err \in BOOLEAN
  /\ pc \in {"closed", "start", "open", "wait", "asleep", "polling", "check",
             "complete", "copy", "again", "stop", "free"}
  /\ interrupted \in BOOLEAN /\ signal \in BOOLEAN
  /\ head \in Slots /\ left \in Nat /\ num_credit \in Nat
  /\ held \in BOOLEAN
  /\ result \in [Slots -> {"none", "part", "eop", "bad"}]
  /\ block \in [Slots -> Nat]
  /\ rx_head \in Slots /\ rx_tail \in Slots
  /\ rx_overrun \in BOOLEAN /\ eop_found \in BOOLEAN
  /\ user_buffer_index \in Nat
  /\ running \in BOOLEAN /\ listed \in BOOLEAN
  /\ work \in BOOLEAN /\ svc \in {"idle", "ring", "poll"}
  /\ idle_seen \in BOOLEAN /\ eop_count \in BOOLEAN
  /\ hw_run \in BOOLEAN /\ hw_busy \in BOOLEAN /\ hw_page \in Slots
  /\ received \in Nat /\ hw_credits \in Nat
  /\ consumed \in Nat
  /\ packet \in {"empty", "part", "whole", "more"}
  /\ mishaps \in SUBSET {"refused", "signal", "fault"}

\* Blocks received and not yet consumed.
Unread == received - consumed

\* With the credit feature the stream is intact: every unread block is at its
\* place after the head with its result, and what read() is copying has not
\* been overwritten.  (A refused open() has reset the indices.)
BlocksInOrder ==
  enable_credit_mp /\ held /\ "refused" \notin mishaps =>
    /\ Unread \in 0 .. Pages
    /\ \A i \in 0 .. Unread - 1 :
         /\ result[Slot(rx_head, i)] # "none"
         /\ block[Slot(rx_head, i)] = consumed + 1 + i
    /\ pc = "copy" => \A i \in 0 .. left - 1 :
         block[Slot(head, i)] = consumed - left + 1 + i

\* WARN_ON(result[engine->rx_head].status == 0) in complete_cyclic() never
\* fires with the credit feature, and the ring never overruns.
NoMissingResult ==
  enable_credit_mp /\ "refused" \notin mishaps =>
    /\ ~rx_overrun
    /\ pc = "complete" /\ Taken > 0 => Walked(Taken - 1) # "none"

\* With the credit feature the stream reaches the reader intact: no block is
\* lost, overwritten or reordered in the ring, and complete_cyclic() walks
\* over no result that is not there.
StreamIntact == BlocksInOrder /\ NoMissingResult

\* With the credit feature a read() that was not disturbed returns exactly one
\* packet: the blocks up to and including the next end of packet.
ReadReturnsPacket ==
  [][pc = "again" /\ pc' = "open" /\ enable_credit_mp /\ mishaps = {}
       => packet = "whole"]_vars

\* The ring is never freed under a running engine, unless a signal ended the
\* wait in close().
FreedWhenStopped == "signal" \notin mishaps => Defined

\* A packet that ends in a result the service routine has not passed yet.
PacketAhead ==
  \E i \in 0 .. Pages - 1 :
    /\ result[Slot(rx_tail, i)] = "eop"
    /\ \A j \in 0 .. i : result[Slot(rx_tail, j)] # "none"

\* With the credit feature a read() in front of a complete packet returns.
\* (Without it an overrun that reaches no end of packet leaves the reader
\* asleep and the service routine stuck on rx_overrun.)  In poll mode the end
\* of the packet must be new: for a packet that an earlier read() has serviced
\* along with its own, or that stands behind a malformed result, read() polls
\* until yet another packet has come.
ReadReturns ==
  /\ (enable_credit_mp /\ ~poll_mode
        /\ pc \in {"wait", "asleep", "check", "complete"}
        /\ \E s \in Slots : result[s] = "eop")
       ~> (pc = "open" \/ "refused" \in mishaps)
  /\ (enable_credit_mp /\ poll_mode /\ pc \in {"wait", "polling"} /\ PacketAhead)
       ~> (pc = "open" \/ mishaps \cap {"refused", "fault"} # {})

\* close() returns.
CloseReturns == pc = "stop" ~> (pc = "closed" \/ "refused" \in mishaps)

\* Nobody is left waiting: neither the reader for the service routine nor
\* close() for the engine to stop.
CallsReturn == ReadReturns /\ CloseReturns
=============================================================================
