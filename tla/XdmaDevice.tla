----------------------------- MODULE XdmaDevice -----------------------------
(***************************************************************************)
(* Life of the XDMA driver's devices (xdma-core.c): loading the module,    *)
(* probe() step by step with the failure of each step and the unwinding    *)
(* that follows, remove() step by step, unloading, and the processes that  *)
(* have a device node open meanwhile.                                      *)
(*                                                                         *)
(* held[d] is what the driver owns for device d; when a probe that failed  *)
(* or a remove is over, whatever is still held goes to leftover.           *)
(* Probes and removes are serialised by the PCI core; interrupts, work     *)
(* items and file operations are not.                                      *)
(***************************************************************************)
EXTENDS Integers, Sequences, FiniteSets

CONSTANTS
  Devices,    \* boards the driver may be bound to
  Files,      \* open file descriptions
  None, Dangling,
  Slots,      \* MAX_XDMA_DEVICES: dev_present has entries 0 .. Slots - 1
  Boards(_),  \* the boards that may stand for a device, see Board
  Unplug      \* TRUE: a device may be unbound while it is used

ASSUME SlotsAssumption == Slots \in Nat
ASSUME UnplugAssumption == Unplug \in BOOLEAN
ASSUME NoneAssumption == None \notin Devices

VARIABLES
  hw,           \* the board of each device: fixed
  mod,          \* the module: out, init (in xdma_init), in, exit
  dev_present,  \* which instance numbers are taken
  pc,           \* progress of probe() or remove() of each device
  held,         \* resources of each device
  engine,       \* the pointers lro->engine[][]
  nodes,        \* character devices, in the order they were added
  instance,     \* lro->instance, None while lro->major is 0
  file,         \* the device whose node each file was opened through
  stale,        \* why the struct xdma_char of a file was freed, or "no"
  work,         \* the device whose engine has work pending, or None; Dangling
                \* when the engine was freed meanwhile
  ghosts,       \* devices whose nodes outlive them
  leftover,     \* history: what the last failed probe or remove left behind
  mishap,       \* history: that the last operation was a probe, and its
                \* special failures
  cleared       \* history: instances in use that xdma_init marked free

vars == <<hw, mod, dev_present, pc, held, engine, nodes, instance, file, stale,
          work, ghosts, leftover, mishap, cleared>>

Engines == {"h2c", "c2h"}

\* What a board has: BARs (a function from BAR numbers to what they hold),
\* engines, and the kind of interrupt that can be enabled.
Board(l, e, i) == [layout |-> l, engines |-> e, irq |-> i]

EngineIrq(e) == IF e = "h2c" THEN "irq_h2c" ELSE "irq_c2h"
EngineIrqs == {EngineIrq(e) : e \in Engines}

Resources == {"lro", "device", "msix", "msi", "regions", "regions_in_use",
              "bars", "irq", "ints", "sysfs", "minors"} \cup Engines \cup EngineIrqs

NodeTypes == {"user", "control", "events", "h2c", "c2h", "bypass_h2c",
              "bypass_c2h", "bypass"}

Settled == {"unbound", "bound", "hollow"}
Quiet == \A d \in Devices : pc[d] \in Settled

(***************************************************************************)
(* Steps of one device: what they take, what they give back.               *)
(***************************************************************************)
Goto(d, l) == pc' = [pc EXCEPT ![d] = l]
Take(d, R) == held' = [held EXCEPT ![d] = @ \cup R]
Release(d, R) == held' = [held EXCEPT ![d] = @ \ R]

file_vars == <<file, stale>>
soft_vars == <<engine, nodes, instance>>

\* alloc_dev_instance().  Without memory probe() jumps to err_alloc with rc
\* still 0: the device is bound and has no driver data.
AllocDevInstance(d) ==
  /\ pc[d] = "alloc"
  /\ \/ /\ Goto(d, "enable")
        /\ Take(d, {"lro"})
     \/ /\ Goto(d, "hollow")
        /\ UNCHANGED held
  /\ UNCHANGED <<hw, mod, dev_present, soft_vars, file_vars, work,
                 ghosts, leftover, mishap, cleared>>

\* pci_enable_device(), pci_set_master().
EnableDevice(d) ==
  /\ pc[d] = "enable"
  /\ \/ /\ Goto(d, "scan")
        /\ Take(d, {"device"})
     \/ /\ Goto(d, "err_enable")
        /\ UNCHANGED held
  /\ UNCHANGED <<hw, mod, dev_present, soft_vars, file_vars, work,
                 ghosts, leftover, mishap, cleared>>

\* probe_scan_for_msi(): MSI-X, MSI, or the legacy line; or a failure.  When
\* there are fewer MSI-X vectors than asked for, probe() goes on as if it had
\* them.
ProbeScanForMsi(d) ==
  /\ pc[d] = "scan"
  /\ \/ /\ Goto(d, "regions")
        /\ Take(d, {hw[d].irq} \cap {"msix", "msi"})
     \/ /\ hw[d].irq = "msix"
        /\ Goto(d, "regions")
        /\ UNCHANGED held
     \/ /\ Goto(d, "err_scan_msi")
        /\ UNCHANGED held
  /\ UNCHANGED <<hw, mod, dev_present, soft_vars, file_vars, work,
                 ghosts, leftover, mishap, cleared>>

\* request_regions(): on failure the device is taken to be in use by another
\* driver and is not disabled.
RequestRegions(d) ==
  /\ pc[d] = "regions"
  /\ \/ /\ Goto(d, "map")
        /\ Take(d, {"regions"})
        /\ UNCHANGED mishap
     \/ /\ Goto(d, "err_regions")
        /\ Take(d, {"regions_in_use"})
        /\ mishap' = mishap \cup {"in_use"}
  /\ UNCHANGED <<hw, mod, dev_present, soft_vars, file_vars, work,
                 ghosts, leftover, cleared>>

(***************************************************************************)
(* map_bars() and identify_bars(): the BARs present, in order, and which   *)
(* of them are taken to be the user and the bypass BAR.                    *)
(***************************************************************************)
Bars(l) == {i \in DOMAIN l : l[i] # "none"}

\* The index of BAR i in bar_id_list.
BarPos(l, i) == Cardinality({j \in Bars(l) : j < i})

BarAt(l, k) == CHOOSE i \in Bars(l) : BarPos(l, i) = k

ConfigPos(l) == {BarPos(l, i) : i \in {j \in Bars(l) : l[j] = "config"}}

\* identify_bars(): user_bar_idx, or -1.
UserBar(l) ==
  IF Cardinality(Bars(l)) \in {2, 3} /\ ConfigPos(l) = {1} THEN BarAt(l, 0) ELSE -1

\* identify_bars(): bypass_bar_idx, or -1.
BypassBar(l) ==
  CASE Cardinality(Bars(l)) = 2 /\ ConfigPos(l) = {0} -> BarAt(l, 1)
    [] Cardinality(Bars(l)) = 3 /\ ConfigPos(l) = {1} -> BarAt(l, 2)
    [] OTHER -> -1

\* The rule identify_bars() relies on: one BAR of each kind at most, the user
\* BAR before the config BAR and the bypass BAR after it.
BarRule(l) ==
  /\ DOMAIN l \subseteq Nat
  /\ \A i \in Bars(l) : l[i] \in {"user", "config", "bypass"}
  /\ \A i, j \in Bars(l) : i # j => l[i] # l[j]
  /\ \A i, j \in Bars(l) :
       l[i] = "config" => (l[j] = "user" => j < i) /\ (l[j] = "bypass" => i < j)

ASSUME BoardsAssumption == \A d \in Devices : \A b \in Boards(d) : BarRule(b.layout)

\* map_bars(): a BAR cannot be mapped, or none is the config BAR.
MapBars(d) ==
  /\ pc[d] = "map"
  /\ \/ /\ ConfigPos(hw[d].layout) # {}
        /\ Goto(d, "mask")
        /\ Take(d, {"bars"})
     \/ /\ Goto(d, "err_map")
        /\ UNCHANGED held
  /\ UNCHANGED <<hw, mod, dev_present, soft_vars, file_vars, work, ghosts, leftover,
                 mishap, cleared>>

SetDmaMask(d) ==
  /\ pc[d] = "mask"
  /\ \E l \in {"irq", "err_mask"} : Goto(d, l)
  /\ UNCHANGED <<hw, mod, dev_present, held, soft_vars, file_vars, work,
                 ghosts, leftover, mishap, cleared>>

\* irq_setup(), msix_irq_setup(): all or none of the lines are requested; with
\* msix_enabled set but no vectors that fails.
IrqSetup(d) ==
  /\ pc[d] = "irq"
  /\ \/ /\ hw[d].irq = "msix" => "msix" \in held[d]
        /\ Goto(d, "engine_h2c")
        /\ Take(d, {"irq"})
     \/ /\ Goto(d, "err_mask")
        /\ UNCHANGED held
  /\ UNCHANGED <<hw, mod, dev_present, soft_vars, file_vars, work,
                 ghosts, leftover, mishap, cleared>>

(***************************************************************************)
(* Engines.                                                                *)
(***************************************************************************)

\* engine_create(): with MSI-X the engine has an interrupt line of its own.
EngineResources(d, e) ==
  {e} \cup (IF "msix" \in held[d] THEN {EngineIrq(e)} ELSE {})

\* remove_engines(), engine_destroy(): lines and memory are released, the
\* pointers in lro->engine and pending work are not touched.
RemoveEngines(d) ==
  /\ Release(d, Engines \cup EngineIrqs)
  /\ work' = IF work = d THEN Dangling ELSE work

\* probe_for_engine() for the H2C channels: absent, created, or failed, in
\* which case probe_engines() removes the engines.
ProbeH2C(d) ==
  /\ pc[d] = "engine_h2c"
  /\ \/ /\ "h2c" \notin hw[d].engines
        /\ Goto(d, "engine_c2h")
        /\ UNCHANGED <<held, engine, work>>
     \/ /\ "h2c" \in hw[d].engines
        /\ Goto(d, "engine_c2h")
        /\ Take(d, EngineResources(d, "h2c"))
        /\ engine' = [engine EXCEPT ![d] = @ \cup {"h2c"}]
        /\ UNCHANGED work
     \/ /\ "h2c" \in hw[d].engines
        /\ Goto(d, "err_engines")
        /\ RemoveEngines(d)
        /\ UNCHANGED engine
  /\ UNCHANGED <<hw, mod, dev_present, nodes, instance, file_vars,
                 ghosts, leftover, mishap, cleared>>

\* probe_for_engine() for the C2H channels: a failure only leaves the loop,
\* and the engines created so far are not removed.
ProbeC2H(d) ==
  /\ pc[d] = "engine_c2h"
  /\ \/ /\ "c2h" \notin hw[d].engines
        /\ Goto(d, "interfaces")
        /\ UNCHANGED <<held, engine, mishap>>
     \/ /\ "c2h" \in hw[d].engines
        /\ Goto(d, "interfaces")
        /\ Take(d, EngineResources(d, "c2h"))
        /\ engine' = [engine EXCEPT ![d] = @ \cup {"c2h"}]
        /\ UNCHANGED mishap
     \/ /\ "c2h" \in hw[d].engines
        /\ Goto(d, "err_engines")
        /\ mishap' = mishap \cup {"c2h"}
        /\ UNCHANGED <<held, engine>>
  /\ UNCHANGED <<hw, mod, dev_present, nodes, instance, file_vars, work,
                 ghosts, leftover, cleared>>

(***************************************************************************)
(* Character devices.                                                      *)
(***************************************************************************)

\* A bypass node below the others.
MinorLowBypass(t) ==
  CASE t = "user" -> 0 [] t = "control" -> 1 [] t = "events" -> 10
    [] t = "h2c" -> 32 [] t = "c2h" -> 36
    [] t = "bypass_h2c" -> 64 [] t = "bypass_c2h" -> 68 [] t = "bypass" -> 2

\* gen_dev_minor(), for the first channel and the first event.
Minor(t) ==
  CASE t = "user" -> 0 [] t = "control" -> 1 [] t = "events" -> 10
    [] t = "h2c" -> 32 [] t = "c2h" -> 36
    [] t = "bypass_h2c" -> 64 [] t = "bypass_c2h" -> 68 [] t = "bypass" -> 100

\* create_interfaces(): the order in which the nodes are created, and the
\* ones that device d gets.
NodeOrder == <<"user", "control", "events", "h2c", "c2h", "bypass_h2c",
               "bypass_c2h", "bypass">>

Rank(t) == CHOOSE i \in 1 .. Len(NodeOrder) : NodeOrder[i] = t

Interfaces(d) ==
  LET bypass == BypassBar(hw[d].layout) >= 0 IN
  {"control", "events"}
    \cup (IF UserBar(hw[d].layout) >= 0 THEN {"user"} ELSE {})
    \cup engine[d]
    \cup {t \in {"bypass_h2c", "bypass_c2h", "bypass"} :
            /\ bypass
            /\ t = "bypass_h2c" => "h2c" \in engine[d]
            /\ t = "bypass_c2h" => "c2h" \in engine[d]}

\* A failure to create one of these is not noticed: the test is of the array
\* of events nodes, and there is none of the last bypass node.
Unnoticed == {"events", "bypass"}

\* The nodes still to create, and those that may be created next.
Pending(d) ==
  {t \in Interfaces(d) :
     \A i \in 1 .. Len(nodes[d]) : Rank(t) > Rank(nodes[d][i])}

NextNodes(d) ==
  {t \in Pending(d) : \A u \in Pending(d) : Rank(u) < Rank(t) => u \in Unnoticed}

FreeSlots == {i \in 0 .. Slots - 1 : ~dev_present[i]}

\* Always the first number.
FirstSlot == 0

FirstFreeSlot == CHOOSE i \in FreeSlots : \A j \in FreeSlots : i <= j

\* A claim that does not stop at MAX_XDMA_DEVICES.
ClaimSlotUnchecked(d) ==
  IF instance[d] # None
    THEN UNCHANGED <<dev_present, instance>>
    ELSE /\ dev_present' = [i \in 0 .. Slots - 1 |->
                              dev_present[i] \/ \A j \in FreeSlots : i <= j]
         /\ instance' = [instance EXCEPT ![d] =
                           IF FreeSlots = {} THEN Slots ELSE FirstFreeSlot]

\* create_sg_char(): the first one claims an instance number and, in
\* gen_dev_major(), a major number with a region of 255 minors.
ClaimSlot(d) ==
  IF instance[d] # None
    THEN UNCHANGED <<dev_present, instance>>
    ELSE /\ FreeSlots # {}
         /\ dev_present' = [dev_present EXCEPT ![FirstFreeSlot] = TRUE]
         /\ instance' = [instance EXCEPT ![d] = FirstFreeSlot]

CreateNode(d) ==
  /\ pc[d] = "interfaces"
  /\ ClaimSlot(d)
  /\ Take(d, {"minors"})
  /\ \E t \in NextNodes(d) : nodes' = [nodes EXCEPT ![d] = Append(@, t)]
  /\ UNCHANGED <<hw, mod, pc, engine, file_vars, work, ghosts, leftover, mishap,
                 cleared>>

\* The files opened through nodes of device d now refer to freed memory, by
\* unloading the module, by remove(), or by the unwinding of probe().
Cause(d) ==
  IF mod = "exit" THEN "rmmod"
  ELSE IF pc[d] = "rm_interfaces" THEN "unplug" ELSE "probe"

Orphan(d) ==
  stale' = [f \in Files |->
              IF file[f] = d /\ stale[f] = "no" THEN Cause(d) ELSE stale[f]]

\* destroy_interfaces(), destroy_sg_char(): every node is removed and its
\* struct xdma_char freed, whoever has it open.  One minor is unregistered for
\* each, which no region matches.
DestroyInterfaces(d) ==
  /\ nodes' = [nodes EXCEPT ![d] = <<>>]
  /\ Orphan(d)

\* create_sg_char() fails, after it claimed the numbers or because no instance
\* number was free.  Its last labels unregister 255 minors from the node's own,
\* which is the region if that is minor 0: the user node.
CreateNodeFails(d) ==
  /\ pc[d] = "interfaces"
  /\ NextNodes(d) \ Unnoticed # {}
  /\ \/ ClaimSlot(d) /\ Take(d, {"minors"})
     \/ ClaimSlot(d) /\ "user" \in NextNodes(d) /\ UNCHANGED held
     \/ UNCHANGED <<dev_present, instance, held>>
  /\ DestroyInterfaces(d)
  /\ Goto(d, "err_interfaces")
  /\ UNCHANGED <<hw, mod, engine, file, work, ghosts, leftover, mishap, cleared>>

\* create_interfaces() is done, possibly without the events or the last
\* bypass node; the interrupts are enabled.
EnableInterrupts(d) ==
  /\ pc[d] = "interfaces"
  /\ Pending(d) \subseteq Unnoticed
  /\ Goto(d, "sysfs")
  /\ Take(d, {"ints"})
  /\ UNCHANGED <<hw, mod, dev_present, soft_vars, file_vars, work,
                 ghosts, leftover, mishap, cleared>>

\* device_create_file().  Its failure is unwound without destroy_interfaces()
\* and without disabling the interrupts.
CreateSysfs(d) ==
  /\ pc[d] = "sysfs"
  /\ \/ /\ Goto(d, "bound")
        /\ Take(d, {"sysfs"})
        /\ UNCHANGED mishap
     \/ /\ Goto(d, "err_interfaces")
        /\ mishap' = mishap \cup {"sysfs"}
        /\ UNCHANGED held
  /\ UNCHANGED <<hw, mod, dev_present, soft_vars, file_vars, work,
                 ghosts, leftover, cleared>>

(***************************************************************************)
(* Unwinding and removal: the labels of probe() and the steps of remove(). *)
(***************************************************************************)

\* remove() that starts with the nodes, interrupts still enabled.
RemoveKeepsInterrupts(d) ==
  /\ Goto(d, "rm_interfaces")
  /\ UNCHANGED held

\* remove(): the interrupts are disabled first.
RemoveDisable(d) ==
  /\ Goto(d, "rm_interfaces")
  /\ Release(d, {"ints"})

RemoveInterfaces(d) ==
  /\ pc[d] = "rm_interfaces"
  /\ DestroyInterfaces(d)
  /\ Goto(d, "rm_engines")
  /\ UNCHANGED <<hw, mod, dev_present, held, engine, instance, file, work,
                 ghosts, leftover, mishap, cleared>>

UndoEngines(d) ==
  /\ pc[d] \in {"rm_engines", "err_interfaces"}
  /\ RemoveEngines(d)
  /\ Goto(d, IF pc[d] = "rm_engines" THEN "rm_irq" ELSE "err_engines")
  /\ UNCHANGED <<hw, mod, dev_present, soft_vars, file_vars, ghosts, leftover,
                 mishap, cleared>>

\* The step that follows label l, and what is released on the way.
UndoOrder(l) ==
  CASE l \in {"rm_irq", "err_engines"} -> {"irq"}
    [] l \in {"rm_bars", "err_mask"} -> {"bars"}
    [] l \in {"rm_regions", "err_map"} -> {"regions"}
    [] l = "rm_msi" -> {"msix", "msi"}
    [] l = "err_regions" -> {"msi"}

UndoNext(l) ==
  CASE l = "rm_irq" -> "rm_bars" [] l = "err_engines" -> "err_mask"
    [] l = "rm_bars" -> "rm_regions" [] l = "err_mask" -> "err_map"
    [] l = "rm_regions" -> "rm_msi" [] l = "err_map" -> "err_regions"
    [] l = "rm_msi" -> "rm_device" [] l = "err_regions" -> "err_scan_msi"

\* irq_teardown(), unmap_bars(), pci_release_regions(), pci_disable_msi().
Undo(d) ==
  /\ pc[d] \in {"rm_irq", "rm_bars", "rm_regions", "rm_msi",
                "err_engines", "err_mask", "err_map", "err_regions"}
  /\ Release(d, UndoOrder(pc[d]))
  /\ Goto(d, UndoNext(pc[d]))
  /\ UNCHANGED <<hw, mod, dev_present, soft_vars, file_vars, work,
                 ghosts, leftover, mishap, cleared>>

\* pci_disable_device(), unless another driver uses the device.
DisableDevice(d) ==
  /\ pc[d] \in {"rm_device", "err_scan_msi"}
  /\ Release(d, IF "regions_in_use" \in held[d] THEN {} ELSE {"device"})
  /\ Goto(d, IF pc[d] = "rm_device" THEN "rm_free" ELSE "err_enable")
  /\ UNCHANGED <<hw, mod, dev_present, soft_vars, file_vars, work,
                 ghosts, leftover, mishap, cleared>>

\* A remove() that keeps its instance number.
FreesSlotNever(d) == FALSE

\* remove() marks the instance number free; a failed probe does not.
FreesSlot(d) == pc[d] = "rm_free" /\ instance[d] # None

\* kfree(lro): the device is unbound.
FreeDev(d) ==
  LET rest == held[d] \ {"lro", "regions_in_use",
                         IF pc[d] = "rm_free" THEN "sysfs" ELSE "lro"}
  IN
  /\ pc[d] \in {"rm_free", "err_enable"}
  /\ Goto(d, "unbound")
  /\ held' = [held EXCEPT ![d] = {}]
  /\ leftover' = rest \cup (IF nodes[d] # <<>> THEN {"nodes"} ELSE {})
                  \cup (IF instance[d] # None /\ ~FreesSlot(d) THEN {"slot"} ELSE {})
  /\ ghosts' = IF nodes[d] # <<>> THEN ghosts \cup {d} ELSE ghosts
  /\ dev_present' = IF FreesSlot(d)
                      THEN [dev_present EXCEPT ![instance[d]] = FALSE]
                      ELSE dev_present
  /\ Orphan(d)
  /\ nodes' = [nodes EXCEPT ![d] = <<>>]
  /\ engine' = [engine EXCEPT ![d] = {}]
  /\ instance' = [instance EXCEPT ![d] = None]
  /\ UNCHANGED <<hw, mod, file, work, mishap, cleared>>

(***************************************************************************)
(* The module: xdma_init(), xdma_exit(), and the PCI core.                 *)
(***************************************************************************)
Insmod ==
  /\ mod = "out"
  /\ mod' = "init"
  /\ dev_present' = [i \in 0 .. Slots - 1 |-> FALSE]
  /\ cleared' = {}
  /\ UNCHANGED <<hw, pc, held, soft_vars, file_vars, work, ghosts, leftover, mishap>>

\* pci_register_driver() calls probe() for the devices present, and later
\* the PCI core does for devices that appear.
ProbeBegin(d) ==
  /\ mod \in {"init", "in"}
  /\ Quiet
  /\ pc[d] = "unbound"
  /\ Goto(d, "alloc")
  /\ leftover' = {}
  /\ mishap' = {"probe"}
  /\ UNCHANGED <<hw, mod, dev_present, held, soft_vars, file_vars, work,
                 ghosts, cleared>>

\* The end of xdma_init(): dev_present is cleared after the probes.
ClearPresent ==
  /\ mod = "init"
  /\ Quiet
  /\ mod' = "in"
  /\ dev_present' = [i \in 0 .. Slots - 1 |-> FALSE]
  /\ cleared' = {instance[d] : d \in Devices} \ {None}
  /\ UNCHANGED <<hw, pc, held, soft_vars, file_vars, work, ghosts, leftover, mishap>>

\* rmmod: files opened through the nodes hold a reference to the module.
Unused == \A f \in Files : file[f] = None

Rmmod ==
  /\ mod = "in"
  /\ Quiet
  /\ Unused
  /\ mod' = "exit"
  /\ UNCHANGED <<hw, dev_present, pc, held, soft_vars, file_vars, work,
                 ghosts, leftover, mishap, cleared>>

Removed ==
  /\ mod = "exit"
  /\ \A d \in Devices : pc[d] = "unbound"
  /\ mod' = "out"
  /\ UNCHANGED <<hw, dev_present, pc, held, soft_vars, file_vars, work,
                 ghosts, leftover, mishap, cleared>>

\* remove(), called by pci_unregister_driver() or because the device is
\* unbound or unplugged while the module stays.
RemoveBegin(d) ==
  /\ Quiet
  /\ pc[d] = "bound"
  /\ mod = "exit" \/ (mod = "in" /\ Unplug)
  /\ RemoveDisable(d)
  /\ leftover' = {}
  /\ mishap' = {}
  /\ UNCHANGED <<hw, mod, dev_present, soft_vars, file_vars, work, ghosts, cleared>>

\* remove() of a device without driver data returns at once.
RemoveHollow(d) ==
  /\ Quiet
  /\ pc[d] = "hollow"
  /\ mod = "exit" \/ (mod = "in" /\ Unplug)
  /\ Goto(d, "unbound")
  /\ UNCHANGED <<hw, mod, dev_present, held, soft_vars, file_vars, work,
                 ghosts, leftover, mishap, cleared>>

(***************************************************************************)
(* Processes, interrupts, work.                                            *)
(***************************************************************************)

\* open(): of a node of a live device, or of one that a failed probe left.
Open(f, d) ==
  /\ mod \in {"init", "in"}
  /\ file[f] = None
  /\ nodes[d] # <<>> \/ d \in ghosts
  /\ file' = [file EXCEPT ![f] = d]
  /\ stale' = [stale EXCEPT ![f] = IF nodes[d] # <<>> THEN "no" ELSE "probe"]
  /\ UNCHANGED <<hw, mod, dev_present, pc, held, soft_vars, work, ghosts, leftover,
                 mishap, cleared>>

Close(f) ==
  /\ file[f] # None
  /\ file' = [file EXCEPT ![f] = None]
  /\ stale' = [stale EXCEPT ![f] = "no"]
  /\ UNCHANGED <<hw, mod, dev_present, pc, held, soft_vars, work, ghosts, leftover,
                 mishap, cleared>>

\* An interrupt of an engine with a transfer in flight schedules its work.
Interrupt(d) ==
  /\ "ints" \in held[d]
  /\ engine[d] \cap held[d] # {}
  /\ work = None
  /\ \E f \in Files : file[f] = d
  /\ work' = d
  /\ UNCHANGED <<hw, mod, dev_present, pc, held, soft_vars, file_vars,
                 ghosts, leftover, mishap, cleared>>

RunWork ==
  /\ work # None
  /\ work' = None
  /\ UNCHANGED <<hw, mod, dev_present, pc, held, soft_vars, file_vars,
                 ghosts, leftover, mishap, cleared>>

(***************************************************************************)
(* Specification.                                                          *)
(***************************************************************************)
Init ==
  /\ hw \in [Devices -> UNION {Boards(d) : d \in Devices}]
  /\ \A d \in Devices : hw[d] \in Boards(d)
  /\ mod = "out"
  /\ dev_present = [i \in 0 .. Slots - 1 |-> FALSE]
  /\ pc = [d \in Devices |-> "unbound"]
  /\ held = [d \in Devices |-> {}]
  /\ engine = [d \in Devices |-> {}]
  /\ nodes = [d \in Devices |-> <<>>]
  /\ instance = [d \in Devices |-> None]
  /\ file = [f \in Files |-> None]
  /\ stale = [f \in Files |-> "no"]
  /\ work = None
  /\ ghosts = {}
  /\ leftover = {}
  /\ mishap = {}
  /\ cleared = {}

Next ==
  \/ Insmod \/ ClearPresent \/ Rmmod \/ Removed \/ RunWork
  \/ \E d \in Devices :
       \/ ProbeBegin(d) \/ AllocDevInstance(d) \/ EnableDevice(d)
       \/ ProbeScanForMsi(d) \/ RequestRegions(d) \/ MapBars(d) \/ SetDmaMask(d)
       \/ IrqSetup(d) \/ ProbeH2C(d) \/ ProbeC2H(d) \/ CreateNode(d)
       \/ CreateNodeFails(d) \/ EnableInterrupts(d) \/ CreateSysfs(d)
       \/ RemoveBegin(d) \/ RemoveHollow(d) \/ RemoveInterfaces(d)
       \/ UndoEngines(d) \/ Undo(d) \/ DisableDevice(d) \/ FreeDev(d)
       \/ Interrupt(d)
       \/ \E f \in Files : Open(f, d)
  \/ \E f \in Files : Close(f)

Spec == Init /\ [][Next]_vars

(***************************************************************************)
(* Properties.                                                             *)
(***************************************************************************)
\* The ranges of the variables; an unbound device holds nothing.
TypeOK ==
  /\ mod \in {"out", "init", "in", "exit"}
  /\ dev_present \in [0 .. Slots - 1 -> BOOLEAN]
  /\ \A d \in Devices :
       /\ held[d] \subseteq Resources
       /\ pc[d] = "unbound" => held[d] = {}
       /\ engine[d] \subseteq Engines
       /\ nodes[d] \in Seq(NodeTypes)
       /\ instance[d] \in (0 .. Slots - 1) \cup {None}
  /\ work \in Devices \cup {None, Dangling}
  /\ ghosts \subseteq Devices
  /\ leftover \subseteq Resources \cup {"nodes", "slot"}
  /\ mishap \subseteq {"probe", "in_use", "c2h", "sysfs"}
  /\ \A f \in Files :
       /\ file[f] \in Devices \cup {None}
       /\ stale[f] \in {"no", "rmmod", "unplug", "probe"}

\* What a probe that failed leaves behind, whichever of its steps failed: at
\* most the region of minors, MSI-X enabled and the instance number taken; the
\* engines, with their interrupt lines, when a C2H engine could not be created;
\* the nodes and enabled interrupts when the sysfs file could not; the device
\* enabled when another driver uses it.  Never an interrupt handler of the
\* device, its mappings, regions or MSI.  remove() leaves the region of minors,
\* which nothing ever unregisters, and otherwise gives back all that probe()
\* took, in every interrupt mode and whichever optional BARs and engines the
\* device has.
UnwindLeaves ==
  leftover \subseteq
    {"minors"}
      \cup (IF "probe" \in mishap THEN {"msix", "slot"} ELSE {})
      \cup (IF "c2h" \in mishap THEN Engines \cup EngineIrqs ELSE {})
      \cup (IF "sysfs" \in mishap THEN {"nodes", "ints"} ELSE {})
      \cup (IF "in_use" \in mishap THEN {"device"} ELSE {})

\* Two bound devices share an instance number, and with it the names of their
\* nodes, only if xdma_init() marked that number free while it was in use.
SlotsExclusive ==
  \A d, e \in Devices :
    d # e /\ instance[d] # None /\ instance[d] = instance[e] =>
      instance[d] \in cleared

\* cdev_add() registers 255 minors for every node, so that the ranges of the
\* nodes overlap, and open() finds the last one added that contains the minor.
\* Since minors ascend in the order of creation, that is the node's own.
Found(d, t) ==
  LET covers == {i \in 1 .. Len(nodes[d]) : Minor(nodes[d][i]) <= Minor(t)} IN
  nodes[d][CHOOSE i \in covers : \A j \in covers : j <= i]

\* The optional BARs are told apart by position only; for every layout of a
\* device that is brought up the user and bypass BARs are the right ones.
BarsIdentified ==
  \A d \in Devices :
    "bars" \in held[d] =>
      \A t \in {"user", "bypass"} :
        LET found == IF t = "user" THEN UserBar(hw[d].layout)
                                   ELSE BypassBar(hw[d].layout)
        IN IF found = -1
             THEN \A i \in DOMAIN hw[d].layout : hw[d].layout[i] # t
             ELSE hw[d].layout[found] = t

\* A node leads to what it is named after: open() finds the node itself among
\* the overlapping ranges, and the user and bypass nodes the right BAR.
NodesReachOwnDevice ==
  /\ \A d \in Devices :
       \A i \in 1 .. Len(nodes[d]) : Found(d, nodes[d][i]) = nodes[d][i]
  /\ BarsIdentified

\* While a line of the device is requested, in every interrupt mode and after
\* every failure, the device and its registers, which the handlers read, are
\* there; while an engine's own line is, the engine is, and unless a C2H engine
\* failed (see UnwindLeaves) so are device and registers.  The pointers to the
\* engines that xdma_isr() follows dangle only between remove_engines() and
\* irq_teardown(), which a shared legacy line can meet, and not while the
\* device's interrupts are enabled, unless the sysfs file failed.
IrqTargetsLive ==
  \A d \in Devices :
    /\ "irq" \in held[d] => {"lro", "bars"} \subseteq held[d]
    /\ \A e \in Engines : EngineIrq(e) \in held[d] => e \in held[d]
    /\ EngineIrqs \cap held[d] # {} /\ "c2h" \notin mishap =>
         {"lro", "bars"} \subseteq held[d]
    /\ "irq" \in held[d] /\ ~(engine[d] \subseteq held[d]) =>
         /\ pc[d] \in {"rm_irq", "err_engines"}
         /\ "ints" \in held[d] => "sysfs" \in mishap

\* Unloading the module frees nothing that an open file refers to.
FilesSurviveRmmod == \A f \in Files : stale[f] # "rmmod"

\* Interrupt handlers find what they use except where IrqTargetsLive says
\* otherwise, and open files do when the module is unloaded (but not when the
\* device is unbound under them or its probe failed).
UsersFindDevice == IrqTargetsLive /\ FilesSurviveRmmod
=============================================================================
