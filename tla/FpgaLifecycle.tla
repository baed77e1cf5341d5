--------------------------- MODULE FpgaLifecycle ----------------------------
(***************************************************************************)
(* The lifecycle of the memcpy driver (MTE/vc707_memcpy/FPGA.c): loading   *)
(* and unloading the module, probe() and remove() step by step, and the    *)
(* file operations that may run between those steps.                       *)
(*                                                                         *)
(* mishaps records what has gone wrong so far:                             *)
(*   "early"    the device was opened before probe() returned (a node from *)
(*              an earlier load; load_driver.sh makes it after insmod);    *)
(*   "unbind"   the device was unbound while the module stayed loaded;     *)
(*   "failure"  an allocation or registration failed.                      *)
(*                                                                         *)
(* A probe() that fails after cdev_add() leaves the character device       *)
(* registered; once the module is gone as well, the device's operations    *)
(* point into freed code and the model goes no further.                    *)
(***************************************************************************)
EXTENDS Integers, FiniteSets

CONSTANT Threads

VARIABLES
  module,     \* "none", "loaded" or "going"
  step,       \* how far probe() or remove() has come
  held,       \* the resources of the device that exist
  sem_ready,  \* sema_init() was called on this devInfo
  pc,         \* what each thread does with the device node
  mishaps

vars == <<module, step, held, sem_ready, pc, mishaps>>

Resources == {"devInfo", "region", "cdev", "buffer", "pci", "regions", "bars"}

\* Calls that acquire the resources rs: all of them succeed, or only those of
\* a smaller set got do.
Acquire(rs, got) ==
  /\ got \subseteq rs
  /\ held' = held \cup got
  /\ mishaps' = IF got = rs THEN mishaps ELSE mishaps \cup {"failure"}

\* fileOps without an owner.
NeverPinned == FALSE

\* fileOps.owner: an open file, or an open() under way, holds the module.
Pinned == \E t \in Threads : pc[t] # "closed"

\* A remove() that leaves the character device registered.
LeaveChrdev == held \ {"region"}

\* unmap_bars(), pci_release_regions() and pci_disable_device().
WithoutPci == held \ {"bars", "regions", "pci"}

\* cdev_del() and unregister_chrdev_region().
WithoutChrdev == held \ {"cdev", "region"}

(***************************************************************************)
(* Loading: fpga_init() registers the driver, and the bus calls probe().   *)
(***************************************************************************)

\* Memory that a failed probe() left behind is lost, and not tracked further.
Insmod ==
  /\ module = "none"
  /\ "cdev" \notin held
  /\ module' = "loaded"
  /\ held' = {}
  /\ step' = "probe"
  /\ UNCHANGED <<sem_ready, pc, mishaps>>

\* The device comes back while the module is loaded.
Rebind ==
  /\ module = "loaded"
  /\ step = "unbound"
  /\ step' = "probe"
  /\ UNCHANGED <<module, held, sem_ready, pc, mishaps>>

\* kzalloc() of devInfo.
ProbeAlloc ==
  /\ step = "probe"
  /\ \E got \in SUBSET {"devInfo"} : Acquire({"devInfo"}, got)
  /\ step' = IF "devInfo" \in held' THEN "chrdev" ELSE "failed"
  /\ sem_ready' = FALSE
  /\ UNCHANGED <<module, pc>>

\* setup_chrdev(): from cdev_add() on the device can be opened.  The caller
\* ignores the result.
SetupChrdev ==
  /\ step = "chrdev"
  /\ \E got \in {{}, {"region"}, {"region", "cdev"}} :
       Acquire({"region", "cdev"}, got)
  /\ step' = "buffer"
  /\ UNCHANGED <<module, sem_ready, pc>>

\* kmalloc() of the buffer, unchecked.
ProbeBuffer ==
  /\ step = "buffer"
  /\ \E got \in SUBSET {"buffer"} : Acquire({"buffer"}, got)
  /\ step' = "enable"
  /\ UNCHANGED <<module, sem_ready, pc>>

\* pci_enable_device(): its failure makes probe() return -1, with everything
\* acquired so far left behind.
ProbeEnable ==
  /\ step = "enable"
  /\ \E got \in SUBSET {"pci"} : Acquire({"pci"}, got)
  /\ step' = IF "pci" \in held' THEN "map" ELSE "failed"
  /\ UNCHANGED <<module, sem_ready, pc>>

\* pci_request_regions() and map_bars(), both unchecked.
ProbeMap ==
  /\ step = "map"
  /\ \E got \in SUBSET {"regions", "bars"} : Acquire({"regions", "bars"}, got)
  /\ step' = "sema"
  /\ UNCHANGED <<module, sem_ready, pc>>

\* sema_init(), and probe() returns 0.
ProbeSema ==
  /\ step = "sema"
  /\ sem_ready' = TRUE
  /\ step' = "bound"
  /\ UNCHANGED <<module, held, pc, mishaps>>

(***************************************************************************)
(* Unloading: fpga_exit() unregisters the driver, and the bus calls        *)
(* remove() for a device that was probed successfully.                     *)
(***************************************************************************)

Rmmod ==
  /\ module = "loaded"
  /\ step \in {"bound", "failed", "unbound"}
  /\ ~Pinned
  /\ module' = "going"
  /\ UNCHANGED <<step, held, sem_ready, pc, mishaps>>

Unloaded ==
  /\ module = "going"
  /\ step \in {"failed", "unbound"}
  /\ module' = "none"
  /\ UNCHANGED <<step, held, sem_ready, pc, mishaps>>

RemoveChrdev ==
  /\ step = "bound"
  /\ mishaps' = IF module = "going" THEN mishaps ELSE mishaps \cup {"unbind"}
  /\ held' = WithoutChrdev
  /\ step' = "unmap"
  /\ UNCHANGED <<module, sem_ready, pc>>

RemoveUnmap ==
  /\ step = "unmap"
  /\ held' = WithoutPci
  /\ step' = "free"
  /\ UNCHANGED <<module, sem_ready, pc, mishaps>>

\* kfree() of the buffer and of devInfo, the semaphore with it.
RemoveFree ==
  /\ step = "free"
  /\ held' = held \ {"buffer", "devInfo"}
  /\ sem_ready' = FALSE
  /\ step' = "unbound"
  /\ UNCHANGED <<module, pc, mishaps>>

(***************************************************************************)
(* File operations.                                                        *)
(***************************************************************************)

Move(t, from, to) ==
  /\ pc[t] = from
  /\ pc' = [pc EXCEPT ![t] = to]
  /\ UNCHANGED <<module, step, held, sem_ready>>

\* A move that nothing else depends on.
Go(t, from, to) == Move(t, from, to) /\ UNCHANGED mishaps

\* The node leads to a registered character device whose module can be taken.
OpenBegin(t) ==
  /\ "cdev" \in held
  /\ module = "loaded"
  /\ Move(t, "closed", "opening")
  /\ mishaps' = IF step \in {"buffer", "enable", "map", "sema"}
                   THEN mishaps \cup {"early"} ELSE mishaps

\* fpga_open() got the semaphore, or was interrupted waiting for it.
OpenEnd(t) == Go(t, "opening", "open") \/ Go(t, "opening", "closed")

\* rw_dispatcher() of fpga_read() and fpga_write().
DispatchBegin(t) == Go(t, "open", "dispatch")
DispatchEnd(t) == Go(t, "dispatch", "open")

\* fpga_close(): the file is released whatever it returns.
CloseBegin(t) == Go(t, "open", "closing")
CloseEnd(t) == Go(t, "closing", "closed")

-----------------------------------------------------------------------------

Init ==
  /\ module = "none"
  /\ step = "unbound"
  /\ held = {}
  /\ sem_ready = FALSE
  /\ pc = [t \in Threads |-> "closed"]
  /\ mishaps = {}

Driver ==
  \/ Insmod \/ Rebind
  \/ ProbeAlloc \/ SetupChrdev \/ ProbeBuffer \/ ProbeEnable \/ ProbeMap
  \/ ProbeSema
  \/ Rmmod \/ Unloaded \/ RemoveChrdev \/ RemoveUnmap \/ RemoveFree

FileOp(t) ==
  \/ OpenBegin(t) \/ OpenEnd(t)
  \/ DispatchBegin(t) \/ DispatchEnd(t)
  \/ CloseBegin(t) \/ CloseEnd(t)

Next == Driver \/ \E t \in Threads : FileOp(t)

Spec == Init /\ [][Next]_vars

-----------------------------------------------------------------------------

\* The resources the running file operation of thread t dereferences.
Uses(t) ==
  CASE pc[t] \in {"opening", "closing"} -> {"devInfo"}
    [] pc[t] = "dispatch" -> {"devInfo", "buffer", "bars"}
    [] OTHER -> {}

\* A file operation finds the device structure, its initialised semaphore, its
\* buffer and its BARs, as long as no call failed and the device was neither
\* opened early nor unbound: nothing is used before probe() made it or after
\* remove() freed it.
UsesInitialised ==
  mishaps = {} =>
    \A t \in Threads : /\ Uses(t) \subseteq held
                       /\ Uses(t) # {} => sem_ready

\* Unloading gives back everything probe() acquired, whether fpga_exit() or an
\* unbind made remove() run, as long as no call failed; the PCI device is
\* never left claimed or mapped, not even after a probe() that failed half-way.
UnloadReleases ==
  module = "none" =>
    /\ held \cap {"pci", "regions", "bars"} = {}
    /\ "failure" \notin mishaps => held = {}
=============================================================================
