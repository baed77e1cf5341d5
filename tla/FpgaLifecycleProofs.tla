------------------------ MODULE FpgaLifecycleProofs -------------------------
(***************************************************************************)
(* Theorems about FpgaLifecycle, for any number of threads: file           *)
(* operations find what probe() made and remove() has not freed, and       *)
(* unloading the module gives everything back.                             *)
(***************************************************************************)
EXTENDS FpgaLifecycle, TLAPS

Steps == {"probe", "chrdev", "buffer", "enable", "map", "sema", "bound",
          "unmap", "free", "unbound", "failed"}

LifecycleType ==
  /\ module \in {"none", "loaded", "going"}
  /\ step \in Steps
  /\ held \subseteq Resources
  /\ sem_ready \in BOOLEAN
  /\ pc \in [Threads -> {"closed", "opening", "open", "dispatch", "closing"}]
  /\ mishaps \subseteq {"early", "unbind", "failure"}

\* What the device holds at step s when no call has failed.
HeldAt(s) ==
  CASE s \in {"probe", "unbound"} -> {}
    [] s = "chrdev" -> {"devInfo"}
    [] s = "buffer" -> {"devInfo", "region", "cdev"}
    [] s = "enable" -> {"devInfo", "region", "cdev", "buffer"}
    [] s = "map" -> {"devInfo", "region", "cdev", "buffer", "pci"}
    [] s \in {"sema", "bound"} -> Resources
    [] s = "unmap" -> {"devInfo", "buffer", "pci", "regions", "bars"}
    [] s = "free" -> {"devInfo", "buffer"}
    [] OTHER -> {}

\* The module is only unloaded, or being unloaded, when probe() is over.
ModuleFollows ==
  /\ module = "none" => step \in {"failed", "unbound"}
  /\ module = "going" => step \in {"bound", "unmap", "free", "failed", "unbound"}

\* The PCI device is claimed only between pci_enable_device() and
\* pci_disable_device(), whatever failed.
PciBetween ==
  /\ "pci" \in held => step \in {"map", "sema", "bound", "unmap"}
  /\ held \cap {"regions", "bars"} # {} => step \in {"sema", "bound", "unmap"}

\* Without a failure the step tells what is held.
HeldExactly ==
  "failure" \notin mishaps =>
    /\ held = HeldAt(step)
    /\ step # "failed"
    /\ sem_ready <=> step \in {"bound", "unmap", "free"}

\* Without any mishap the node is only in use while the device is bound.
InUseBound == mishaps = {} /\ Pinned => module = "loaded" /\ step = "bound"

LifecycleInv ==
  LifecycleType /\ ModuleFollows /\ PciBetween /\ HeldExactly /\ InUseBound

\* Every step of loading, probing, removing and unloading keeps the account.
LEMMA DriverKeeps ==
  ASSUME LifecycleInv, Driver
  PROVE  LifecycleInv'
<1> USE DEF LifecycleInv, LifecycleType, ModuleFollows, PciBetween, HeldExactly,
            InUseBound, HeldAt, Resources, Steps, Pinned
<1>1. CASE Insmod
  BY <1>1 DEF Insmod
<1>2. CASE Rebind
  BY <1>2 DEF Rebind
<1>3. CASE ProbeAlloc
  BY <1>3 DEF ProbeAlloc, Acquire
<1>4. CASE SetupChrdev
  BY <1>4 DEF SetupChrdev, Acquire
<1>5. CASE ProbeBuffer
  BY <1>5 DEF ProbeBuffer, Acquire
<1>6. CASE ProbeEnable
  BY <1>6 DEF ProbeEnable, Acquire
<1>7. CASE ProbeMap
  BY <1>7 DEF ProbeMap, Acquire
<1>8. CASE ProbeSema
  BY <1>8 DEF ProbeSema
<1>9. CASE Rmmod
  BY <1>9 DEF Rmmod
<1>10. CASE Unloaded
  BY <1>10 DEF Unloaded
<1>11. CASE RemoveChrdev
  BY <1>11 DEF RemoveChrdev, WithoutChrdev
<1>12. CASE RemoveUnmap
  BY <1>12 DEF RemoveUnmap, WithoutPci
<1>13. CASE RemoveFree
  BY <1>13 DEF RemoveFree
<1>14. QED
  BY <1>1, <1>2, <1>3, <1>4, <1>5, <1>6, <1>7, <1>8, <1>9, <1>10, <1>11, <1>12,
     <1>13 DEF Driver

\* A file operation only moves its own thread; the first one of a thread
\* needs a registered device, and is early unless probe() has returned.
LEMMA FileOpKeeps ==
  ASSUME LifecycleInv, NEW t \in Threads, FileOp(t)
  PROVE  LifecycleInv'
<1> USE DEF LifecycleInv, LifecycleType, ModuleFollows, PciBetween, HeldExactly,
            InUseBound, HeldAt, Resources, Steps, Pinned
<1>1. CASE OpenBegin(t)
  BY <1>1 DEF OpenBegin, Move
<1>2. CASE OpenEnd(t)
  BY <1>2 DEF OpenEnd, Go, Move
<1>3. CASE DispatchBegin(t) \/ DispatchEnd(t)
  BY <1>3 DEF DispatchBegin, DispatchEnd, Go, Move
<1>4. CASE CloseBegin(t) \/ CloseEnd(t)
  BY <1>4 DEF CloseBegin, CloseEnd, Go, Move
<1>5. QED BY <1>1, <1>2, <1>3, <1>4 DEF FileOp

LEMMA LifecycleInvariant == Spec => []LifecycleInv
<1>1. Init => LifecycleInv
  BY DEF Init, LifecycleInv, LifecycleType, ModuleFollows, PciBetween,
         HeldExactly, InUseBound, HeldAt, Steps, Pinned
<1>2. LifecycleInv /\ [Next]_vars => LifecycleInv'
  <2> SUFFICES ASSUME LifecycleInv, [Next]_vars PROVE LifecycleInv'
    OBVIOUS
  <2>1. CASE UNCHANGED vars
    BY <2>1 DEF vars, LifecycleInv, LifecycleType, ModuleFollows, PciBetween,
                HeldExactly, InUseBound, HeldAt, Pinned
  <2>2. QED BY <2>1, DriverKeeps, FileOpKeeps DEF Next
<1>3. QED BY <1>1, <1>2, PTL DEF Spec

\* A file operation of the memcpy driver uses nothing before probe() made it
\* and nothing after remove() freed it, as long as no call failed and the
\* device was neither opened early nor unbound.
THEOREM FileOpsFindDevice == Spec => []UsesInitialised
<1>1. LifecycleInv => UsesInitialised
  BY DEF LifecycleInv, LifecycleType, HeldExactly, InUseBound, HeldAt, Resources,
         Pinned, UsesInitialised, Uses
<1>2. QED BY <1>1, LifecycleInvariant, PTL

\* Once the module is unloaded the PCI device is neither claimed nor mapped,
\* and nothing at all is left of a load in which no call failed.
THEOREM UnloadComplete == Spec => []UnloadReleases
<1>1. LifecycleInv => UnloadReleases
  BY DEF LifecycleInv, ModuleFollows, PciBetween, HeldExactly, HeldAt,
         UnloadReleases
<1>2. QED BY <1>1, LifecycleInvariant, PTL
=============================================================================
