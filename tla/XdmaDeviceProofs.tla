-------------------------- MODULE XdmaDeviceProofs --------------------------
(***************************************************************************)
(* Theorems about XdmaDevice, for any number of devices, files and slots   *)
(* and any boards: what a failed probe and a remove leave behind, that     *)
(* interrupt handlers and open files find what they use, that instance     *)
(* numbers are not handed out twice, and that a node leads to what it is   *)
(* named after.                                                            *)
(***************************************************************************)
EXTENDS XdmaDevice, FiniteSetTheorems, WellFoundedInduction, TLAPS

(***************************************************************************)
(* What a device holds at each label of probe() and remove().              *)
(***************************************************************************)
Early == {"unbound", "alloc", "hollow"}

\* The labels of probe() while nothing has failed, from map_bars() on.
Rising == {"irq", "engine_h2c", "engine_c2h", "interfaces", "sysfs", "bound"}

Climb == Early \cup {"enable", "scan", "regions", "map", "mask"} \cup Rising

\* The labels a failed probe passes.
ErrTail == {"err_engines", "err_mask", "err_map", "err_regions", "err_scan_msi",
            "err_enable"}

Err == ErrTail \cup {"err_interfaces"}

Rm == {"rm_interfaces", "rm_engines", "rm_irq", "rm_bars", "rm_regions", "rm_msi",
       "rm_device", "rm_free"}

\* The labels at which the interrupt lines, the mappings, the regions, MSI
\* and the device itself may be held.
WithIrq == {"engine_h2c", "engine_c2h", "interfaces", "sysfs", "bound",
            "rm_interfaces", "rm_engines", "rm_irq", "err_interfaces",
            "err_engines"}
WithBars == WithIrq \cup {"mask", "irq", "rm_bars", "err_mask"}
WithRegions == WithBars \cup {"map", "rm_regions", "err_map"}
WithMsi == WithRegions \cup {"regions", "rm_msi", "err_regions"}
WithDevice == WithMsi \cup {"scan", "rm_device", "err_scan_msi"}
WithEngines == {"engine_c2h", "interfaces", "sysfs", "bound", "rm_interfaces",
                "rm_engines", "err_interfaces"}

\* A device that holds h at label l, with engine pointers g; n says whether
\* it has nodes and m is the mishap of the operation under way.
Accounted(h, l, m, n, g) ==
  /\ "lro" \in h <=> l \notin Early
  /\ "bars" \in h <=> l \in WithBars
  /\ "irq" \in h => l \in WithIrq
  /\ "regions" \in h => l \in WithRegions
  /\ "msi" \in h => l \in WithMsi
  /\ "msix" \in h => l \in WithMsi \cup {"err_scan_msi", "err_enable"}
  /\ "device" \in h => l \in WithDevice \/ (l = "err_enable" /\ "in_use" \in m)
  /\ "regions_in_use" \in h => l \in {"err_regions", "err_scan_msi", "err_enable"}
                                /\ "in_use" \in m
  /\ \A r \in Engines \cup EngineIrqs :
       r \in h => l \in WithEngines \/ (l \in ErrTail /\ "c2h" \in m)
  /\ "ints" \in h => l \in {"sysfs", "bound"} \/ (l \in Err /\ "sysfs" \in m)
  /\ "sysfs" \in h => l = "bound" \/ l \in Rm
  /\ "minors" \in h => l \in {"interfaces", "sysfs", "bound"} \cup Err \cup Rm
  /\ n => l \in {"interfaces", "sysfs", "bound", "rm_interfaces"}
          \/ (l \in Err /\ "sysfs" \in m)
  /\ l \in Settled \cup Rm \/ "probe" \in m
  /\ \A e \in Engines : EngineIrq(e) \in h => e \in h
  /\ l \in Climb \cup {"rm_interfaces", "rm_engines", "err_interfaces"} => g \subseteq h

DeviceType ==
  /\ held \in [Devices -> SUBSET Resources]
  /\ pc \in [Devices -> Climb \cup Err \cup Rm]
  /\ engine \in [Devices -> SUBSET Engines]
  /\ DOMAIN nodes = Devices

AccountedFor(d) == Accounted(held[d], pc[d], mishap, nodes[d] # <<>>, engine[d])

HeldInv == DeviceType /\ \A d \in Devices : AccountedFor(d)

\* The mishap only grows during an operation, and starts afresh when no
\* other operation is under way.
MishapKept == mishap \subseteq mishap' \/ \A e \in Devices : pc[e] \in Settled

\* A device that a step leaves alone stays accounted for.
LEMMA OtherDevice ==
  ASSUME NEW h, NEW l, NEW m, NEW n \in BOOLEAN, NEW g, NEW m2,
         Accounted(h, l, m, n, g), m \subseteq m2 \/ l \in Settled
  PROVE  Accounted(h, l, m2, n, g)
<1>1. CASE m \subseteq m2
  BY <1>1 DEF Accounted
<1>2. CASE l \in Settled
  BY <1>2 DEF Accounted, Settled, Err, ErrTail, Rm
<1>3. QED BY <1>1, <1>2

\* A step of device d alone.
OnlyOf(d) ==
  /\ DeviceType'
  /\ MishapKept
  /\ \A e \in Devices \ {d} :
       /\ held'[e] = held[e] /\ pc'[e] = pc[e]
       /\ nodes'[e] = nodes[e] /\ engine'[e] = engine[e]

\* Then it is enough to account for that device.
LEMMA DeviceStep ==
  ASSUME HeldInv, NEW d \in Devices, OnlyOf(d), AccountedFor(d)'
  PROVE  HeldInv'
<1>1. ASSUME NEW e \in Devices, e # d PROVE AccountedFor(e)'
  <2>1. /\ held'[e] = held[e] /\ pc'[e] = pc[e]
        /\ nodes'[e] = nodes[e] /\ engine'[e] = engine[e]
    BY <1>1 DEF OnlyOf
  <2>2. mishap \subseteq mishap' \/ pc[e] \in Settled
    BY DEF OnlyOf, MishapKept
  <2>3. Accounted(held[e], pc[e], mishap, nodes[e] # <<>>, engine[e])
    BY DEF HeldInv, AccountedFor
  <2>4. Accounted(held[e], pc[e], mishap', nodes[e] # <<>>, engine[e])
    BY <2>2, <2>3, OtherDevice
  <2>5. QED BY <2>1, <2>4 DEF AccountedFor
<1>2. QED BY <1>1 DEF HeldInv, OnlyOf

\* A step that leaves every device alone.
LEMMA NoDeviceStep ==
  ASSUME HeldInv, UNCHANGED <<held, pc, nodes, engine, mishap>>
  PROVE  HeldInv'
BY DEF HeldInv, DeviceType, AccountedFor

\* The labels and the resources in full.
LEMMA NamesInFull ==
  /\ Climb \cup Err \cup Rm =
       {"unbound", "alloc", "hollow", "enable", "scan", "regions", "map",
        "mask", "irq", "engine_h2c", "engine_c2h", "interfaces", "sysfs",
        "bound", "err_interfaces", "err_engines", "err_mask", "err_map",
        "err_regions", "err_scan_msi", "err_enable", "rm_interfaces",
        "rm_engines", "rm_irq", "rm_bars", "rm_regions", "rm_msi",
        "rm_device", "rm_free"}
  /\ Resources = {"lro", "device", "msix", "msi", "regions", "regions_in_use",
                  "bars", "irq", "ints", "sysfs", "minors", "h2c", "c2h", "irq_h2c",
                  "irq_c2h"}
  /\ EngineIrqs = {"irq_h2c", "irq_c2h"}
BY DEF Climb, Early, Rising, Err, ErrTail, Rm, Resources, EngineIrqs, EngineIrq,
       Engines

\* A step that takes R at label l and goes on to l2, or fails and goes on to
\* l3; the nodes, the engine pointers and the mishap stay.
Attempt(d, R, l, l2, l3) ==
  /\ pc[d] = l
  /\ \/ Goto(d, l2) /\ Take(d, R)
     \/ Goto(d, l3) /\ UNCHANGED held
  /\ UNCHANGED <<nodes, engine, mishap>>

LEMMA AttemptLocal ==
  ASSUME HeldInv, NEW d \in Devices, NEW R \in SUBSET Resources,
         NEW l, NEW l2 \in Climb \cup Err \cup Rm, NEW l3 \in Climb \cup Err \cup Rm,
         Attempt(d, R, l, l2, l3),
         Accounted(held[d], l, mishap, nodes[d] # <<>>, engine[d]) =>
           /\ Accounted(held[d] \cup R, l2, mishap, nodes[d] # <<>>, engine[d])
           /\ Accounted(held[d], l3, mishap, nodes[d] # <<>>, engine[d])
  PROVE  HeldInv'
<1>1. Accounted(held[d], l, mishap, nodes[d] # <<>>, engine[d])
  BY DEF HeldInv, AccountedFor, Attempt
<1>2. OnlyOf(d)
  BY DEF OnlyOf, HeldInv, DeviceType, MishapKept, Attempt, Goto, Take
<1>3. \/ pc'[d] = l2 /\ held'[d] = held[d] \cup R
      \/ pc'[d] = l3 /\ held'[d] = held[d]
  BY DEF HeldInv, DeviceType, Attempt, Goto, Take
<1>4. AccountedFor(d)'
  BY <1>1, <1>3 DEF AccountedFor, Attempt
<1>5. QED BY <1>2, <1>4, DeviceStep

\* The first steps of probe().
LEMMA ProbeFirst ==
  ASSUME HeldInv, NEW d \in Devices,
         AllocDevInstance(d) \/ EnableDevice(d) \/ ProbeScanForMsi(d)
           \/ MapBars(d) \/ SetDmaMask(d) \/ IrqSetup(d)
  PROVE  HeldInv'
<1> USE NamesInFull
<1> USE DEF Accounted, Settled, Early, Rm, Err, ErrTail, Climb, Rising,
            WithIrq, WithBars, WithRegions, WithMsi, WithDevice, WithEngines,
            Engines, EngineIrq
<1>1. CASE AllocDevInstance(d)
  <2>1. Attempt(d, {"lro"}, "alloc", "enable", "hollow")
    BY <1>1 DEF AllocDevInstance, Attempt, soft_vars
  <2>2. QED BY <2>1, AttemptLocal
<1>2. CASE EnableDevice(d)
  <2>1. Attempt(d, {"device"}, "enable", "scan", "err_enable")
    BY <1>2 DEF EnableDevice, Attempt, soft_vars
  <2>2. QED BY <2>1, AttemptLocal
<1>3. CASE ProbeScanForMsi(d)
  <2>1. PICK R \in SUBSET {"msix", "msi"} :
          Attempt(d, R, "scan", "regions", "err_scan_msi")
    <3>1. UNCHANGED <<nodes, engine, mishap>> /\ pc[d] = "scan"
      BY <1>3 DEF ProbeScanForMsi, soft_vars
    <3>2. held = [held EXCEPT ![d] = @ \cup {}]
      BY DEF HeldInv, DeviceType
    <3>3. CASE Goto(d, "regions") /\ UNCHANGED held
      <4>1. Take(d, {})
        BY <3>2, <3>3 DEF Take
      <4>2. Attempt(d, {}, "scan", "regions", "err_scan_msi")
        BY <3>1, <3>3, <4>1 DEF Attempt
      <4>3. QED BY <4>2
    <3>4. CASE Goto(d, "regions") /\ Take(d, {hw[d].irq} \cap {"msix", "msi"})
      <4>1. Attempt(d, {hw[d].irq} \cap {"msix", "msi"}, "scan", "regions", "err_scan_msi")
        BY <3>1, <3>4 DEF Attempt
      <4>2. {hw[d].irq} \cap {"msix", "msi"} \in SUBSET {"msix", "msi"}
        OBVIOUS
      <4>3. QED BY <4>1, <4>2
    <3>5. CASE Goto(d, "err_scan_msi") /\ UNCHANGED held
      <4>1. Attempt(d, {}, "scan", "regions", "err_scan_msi")
        BY <3>1, <3>5 DEF Attempt
      <4>2. QED BY <4>1
    <3>6. QED BY <1>3, <3>3, <3>4, <3>5 DEF ProbeScanForMsi
  <2>2. ASSUME Accounted(held[d], "scan", mishap, nodes[d] # <<>>, engine[d])
        PROVE  Accounted(held[d] \cup R, "regions", mishap, nodes[d] # <<>>, engine[d])
    BY <2>1, <2>2
  <2>3. ASSUME Accounted(held[d], "scan", mishap, nodes[d] # <<>>, engine[d])
        PROVE  Accounted(held[d], "err_scan_msi", mishap, nodes[d] # <<>>, engine[d])
    BY <2>3
  <2>4. R \in SUBSET Resources
    BY <2>1
  <2> HIDE DEF Accounted
  <2>5. QED BY <2>1, <2>2, <2>3, <2>4, AttemptLocal
<1>4. CASE MapBars(d)
  <2>1. Attempt(d, {"bars"}, "map", "mask", "err_map")
    BY <1>4 DEF MapBars, Attempt, soft_vars
  <2>2. QED BY <2>1, AttemptLocal
<1>5. CASE SetDmaMask(d)
  <2>1. Attempt(d, {}, "mask", "irq", "err_mask")
    BY <1>5 DEF SetDmaMask, Attempt, soft_vars, HeldInv, DeviceType, Take
  <2>2. QED BY <2>1, AttemptLocal
<1>6. CASE IrqSetup(d)
  <2>1. Attempt(d, {"irq"}, "irq", "engine_h2c", "err_mask")
    BY <1>6 DEF IrqSetup, Attempt, soft_vars
  <2>2. QED BY <2>1, AttemptLocal
<1>7. QED BY <1>1, <1>2, <1>3, <1>4, <1>5, <1>6

\* request_regions() and the engines.
LEMMA ProbeEngines ==
  ASSUME HeldInv, NEW d \in Devices, RequestRegions(d) \/ ProbeH2C(d) \/ ProbeC2H(d)
  PROVE  HeldInv'
<1> USE NamesInFull
<1> USE DEF Accounted, Settled, Early, Rm, Err, ErrTail, Climb, Rising,
            WithIrq, WithBars, WithRegions, WithMsi, WithDevice, WithEngines,
            Engines, EngineIrq
<1>1. CASE RequestRegions(d)
  <2>1. OnlyOf(d)
    BY <1>1 DEF RequestRegions, OnlyOf, HeldInv, DeviceType, MishapKept, Goto, Take, soft_vars
  <2>2. /\ pc[d] = "regions"
        /\ \/ /\ pc'[d] = "map" /\ held'[d] = held[d] \cup {"regions"}
              /\ mishap' = mishap
           \/ /\ pc'[d] = "err_regions" /\ held'[d] = held[d] \cup {"regions_in_use"}
              /\ mishap' = mishap \cup {"in_use"}
        /\ UNCHANGED <<nodes, engine>>
    BY <1>1 DEF RequestRegions, HeldInv, DeviceType, Goto, Take, soft_vars
  <2>3. AccountedFor(d)
    BY DEF HeldInv
  <2>4. AccountedFor(d)'
    BY <2>2, <2>3 DEF AccountedFor
  <2>5. QED BY <2>1, <2>4, DeviceStep
<1>2. CASE ProbeH2C(d)
  <2>1. OnlyOf(d)
    BY <1>2 DEF ProbeH2C, OnlyOf, HeldInv, DeviceType, MishapKept, Goto, Take, Release, RemoveEngines, EngineResources
  <2>2. /\ pc[d] = "engine_h2c"
        /\ \/ /\ pc'[d] = "engine_c2h"
              /\ held'[d] = held[d] /\ engine'[d] = engine[d]
           \/ /\ pc'[d] = "engine_c2h"
              /\ \/ held'[d] = held[d] \cup {"h2c"}
                 \/ held'[d] = held[d] \cup {"h2c", "irq_h2c"}
              /\ engine'[d] = engine[d] \cup {"h2c"}
           \/ /\ pc'[d] = "err_engines"
              /\ held'[d] = held[d] \ (Engines \cup EngineIrqs)
              /\ engine'[d] = engine[d]
        /\ UNCHANGED <<nodes, mishap>>
    BY <1>2 DEF ProbeH2C, HeldInv, DeviceType, Goto, Take, Release, RemoveEngines, EngineResources
  <2>3. AccountedFor(d)
    BY DEF HeldInv
  <2>4. AccountedFor(d)'
    BY <2>2, <2>3 DEF AccountedFor
  <2>5. QED BY <2>1, <2>4, DeviceStep
<1>3. CASE ProbeC2H(d)
  <2>1. OnlyOf(d)
    BY <1>3 DEF ProbeC2H, OnlyOf, HeldInv, DeviceType, MishapKept, Goto, Take, EngineResources
  <2>2. /\ pc[d] = "engine_c2h"
        /\ \/ /\ pc'[d] = "interfaces"
              /\ held'[d] = held[d] /\ engine'[d] = engine[d] /\ mishap' = mishap
           \/ /\ pc'[d] = "interfaces"
              /\ \/ held'[d] = held[d] \cup {"c2h"}
                 \/ held'[d] = held[d] \cup {"c2h", "irq_c2h"}
              /\ engine'[d] = engine[d] \cup {"c2h"} /\ mishap' = mishap
           \/ /\ pc'[d] = "err_engines"
              /\ held'[d] = held[d] /\ engine'[d] = engine[d]
              /\ mishap' = mishap \cup {"c2h"}
        /\ UNCHANGED nodes
    BY <1>3 DEF ProbeC2H, HeldInv, DeviceType, Goto, Take, EngineResources
  <2>3. AccountedFor(d)
    BY DEF HeldInv
  <2>4. AccountedFor(d)'
    BY <2>2, <2>3 DEF AccountedFor
  <2>5. QED BY <2>1, <2>4, DeviceStep
<1>4. QED BY <1>1, <1>2, <1>3

\* The nodes, the interrupts and the sysfs file.
LEMMA ProbeNodes ==
  ASSUME HeldInv, NEW d \in Devices,
         CreateNode(d) \/ CreateNodeFails(d) \/ EnableInterrupts(d) \/ CreateSysfs(d)
  PROVE  HeldInv'
<1> USE NamesInFull
<1> USE DEF Accounted, Settled, Early, Rm, Err, ErrTail, Climb, Rising,
            WithIrq, WithBars, WithRegions, WithMsi, WithDevice, WithEngines,
            Engines, EngineIrq
<1>1. CASE CreateNode(d)
  <2>1. OnlyOf(d)
    BY <1>1 DEF CreateNode, OnlyOf, HeldInv, DeviceType, MishapKept, ClaimSlot, Take
  <2>2. /\ pc[d] = "interfaces"
        /\ held'[d] = held[d] \cup {"minors"}
        /\ UNCHANGED <<pc, engine, mishap>>
    BY <1>1 DEF CreateNode, HeldInv, DeviceType, ClaimSlot, Take
  <2>3. AccountedFor(d)
    BY DEF HeldInv
  <2>4. AccountedFor(d)'
    BY <2>2, <2>3 DEF AccountedFor
  <2>5. QED BY <2>1, <2>4, DeviceStep
<1>2. CASE CreateNodeFails(d)
  <2>1. OnlyOf(d)
    BY <1>2 DEF CreateNodeFails, OnlyOf, HeldInv, DeviceType, MishapKept, Goto, Take,
                DestroyInterfaces
  <2>2. /\ pc[d] = "interfaces" /\ pc'[d] = "err_interfaces"
        /\ nodes'[d] = <<>>
        /\ held'[d] = held[d] \/ held'[d] = held[d] \cup {"minors"}
        /\ UNCHANGED <<engine, mishap>>
    BY <1>2 DEF CreateNodeFails, HeldInv, DeviceType, Goto, Take, DestroyInterfaces
  <2>3. AccountedFor(d)
    BY DEF HeldInv
  <2>4. AccountedFor(d)'
    BY <2>2, <2>3 DEF AccountedFor
  <2>5. QED BY <2>1, <2>4, DeviceStep
<1>3. CASE EnableInterrupts(d)
  <2>1. OnlyOf(d)
    BY <1>3 DEF EnableInterrupts, OnlyOf, HeldInv, DeviceType, MishapKept, Goto, Take, soft_vars
  <2>2. /\ pc[d] = "interfaces" /\ pc'[d] = "sysfs"
        /\ held'[d] = held[d] \cup {"ints"}
        /\ UNCHANGED <<nodes, engine, mishap>>
    BY <1>3 DEF EnableInterrupts, HeldInv, DeviceType, Goto, Take, soft_vars
  <2>3. AccountedFor(d)
    BY DEF HeldInv
  <2>4. AccountedFor(d)'
    BY <2>2, <2>3 DEF AccountedFor
  <2>5. QED BY <2>1, <2>4, DeviceStep
<1>4. CASE CreateSysfs(d)
  <2>1. OnlyOf(d)
    BY <1>4 DEF CreateSysfs, OnlyOf, HeldInv, DeviceType, MishapKept, Goto, Take, soft_vars
  <2>2. /\ pc[d] = "sysfs"
        /\ \/ /\ pc'[d] = "bound" /\ held'[d] = held[d] \cup {"sysfs"}
              /\ mishap' = mishap
           \/ /\ pc'[d] = "err_interfaces" /\ held'[d] = held[d]
              /\ mishap' = mishap \cup {"sysfs"}
        /\ UNCHANGED <<nodes, engine>>
    BY <1>4 DEF CreateSysfs, HeldInv, DeviceType, Goto, Take, soft_vars
  <2>3. AccountedFor(d)
    BY DEF HeldInv
  <2>4. AccountedFor(d)'
    BY <2>2, <2>3 DEF AccountedFor
  <2>5. QED BY <2>1, <2>4, DeviceStep
<1>5. QED BY <1>1, <1>2, <1>3, <1>4

\* The beginnings of probe() and remove().
LEMMA Begin ==
  ASSUME HeldInv, NEW d \in Devices,
         ProbeBegin(d) \/ RemoveBegin(d) \/ RemoveHollow(d)
  PROVE  HeldInv'
<1> USE NamesInFull
<1> USE DEF Accounted, Settled, Early, Rm, Err, ErrTail, Climb, Rising,
            WithIrq, WithBars, WithRegions, WithMsi, WithDevice, WithEngines,
            Engines, EngineIrq
<1>1. CASE ProbeBegin(d)
  <2>1. OnlyOf(d)
    BY <1>1 DEF ProbeBegin, OnlyOf, HeldInv, DeviceType, MishapKept, Goto, Quiet, soft_vars
  <2>2. /\ pc[d] = "unbound" /\ pc'[d] = "alloc"
        /\ mishap' = {"probe"}
        /\ UNCHANGED <<held, nodes, engine>>
    BY <1>1 DEF ProbeBegin, HeldInv, DeviceType, Goto, Quiet, soft_vars
  <2>3. AccountedFor(d)
    BY DEF HeldInv
  <2>4. AccountedFor(d)'
    BY <2>2, <2>3 DEF AccountedFor
  <2>5. QED BY <2>1, <2>4, DeviceStep
<1>2. CASE RemoveBegin(d)
  <2>1. OnlyOf(d)
    BY <1>2 DEF RemoveBegin, OnlyOf, HeldInv, DeviceType, MishapKept, Goto, Quiet, RemoveDisable, Release, soft_vars
  <2>2. /\ pc[d] = "bound" /\ pc'[d] = "rm_interfaces"
        /\ held'[d] = held[d] \ {"ints"}
        /\ UNCHANGED <<nodes, engine>>
    BY <1>2 DEF RemoveBegin, HeldInv, DeviceType, Goto, Quiet, RemoveDisable, Release, soft_vars
  <2>3. AccountedFor(d) /\ "ints" \notin engine[d]
    BY DEF HeldInv, DeviceType
  <2>4. AccountedFor(d)'
    BY <2>2, <2>3 DEF AccountedFor
  <2>5. QED BY <2>1, <2>4, DeviceStep
<1>3. CASE RemoveHollow(d)
  <2>1. OnlyOf(d)
    BY <1>3 DEF RemoveHollow, OnlyOf, HeldInv, DeviceType, MishapKept, Goto, soft_vars
  <2>2. /\ pc[d] = "hollow" /\ pc'[d] = "unbound"
        /\ UNCHANGED <<held, nodes, engine, mishap>>
    BY <1>3 DEF RemoveHollow, HeldInv, DeviceType, Goto, soft_vars
  <2>3. AccountedFor(d)
    BY DEF HeldInv
  <2>4. AccountedFor(d)'
    BY <2>2, <2>3 DEF AccountedFor
  <2>5. QED BY <2>1, <2>4, DeviceStep
<1>4. QED BY <1>1, <1>2, <1>3

\* Unwinding and removal.
LEMMA Unwind ==
  ASSUME HeldInv, NEW d \in Devices,
         RemoveInterfaces(d) \/ UndoEngines(d) \/ Undo(d) \/ DisableDevice(d)
           \/ FreeDev(d)
  PROVE  HeldInv'
<1> USE NamesInFull
<1> USE DEF Accounted, Settled, Early, Rm, Err, ErrTail, Climb, Rising,
            WithIrq, WithBars, WithRegions, WithMsi, WithDevice, WithEngines,
            Engines, EngineIrq
<1>1. CASE RemoveInterfaces(d)
  <2>1. OnlyOf(d)
    BY <1>1 DEF RemoveInterfaces, OnlyOf, HeldInv, DeviceType, MishapKept, Goto, DestroyInterfaces
  <2>2. /\ pc[d] = "rm_interfaces" /\ pc'[d] = "rm_engines"
        /\ nodes'[d] = <<>>
        /\ UNCHANGED <<held, engine, mishap>>
    BY <1>1 DEF RemoveInterfaces, HeldInv, DeviceType, Goto, DestroyInterfaces
  <2>3. AccountedFor(d)
    BY DEF HeldInv
  <2>4. AccountedFor(d)'
    BY <2>2, <2>3 DEF AccountedFor
  <2>5. QED BY <2>1, <2>4, DeviceStep
<1>2. CASE UndoEngines(d)
  <2>1. OnlyOf(d)
    BY <1>2 DEF UndoEngines, OnlyOf, HeldInv, DeviceType, MishapKept, Goto, RemoveEngines, Release, soft_vars
  <2>2. /\ \/ pc[d] = "rm_engines" /\ pc'[d] = "rm_irq"
           \/ pc[d] = "err_interfaces" /\ pc'[d] = "err_engines"
        /\ held'[d] = held[d] \ (Engines \cup EngineIrqs)
        /\ UNCHANGED <<nodes, engine, mishap>>
    BY <1>2 DEF UndoEngines, HeldInv, DeviceType, Goto, RemoveEngines, Release, soft_vars
  <2>3. AccountedFor(d)
    BY DEF HeldInv
  <2>4. AccountedFor(d)'
    BY <2>2, <2>3 DEF AccountedFor
  <2>5. QED BY <2>1, <2>4, DeviceStep
<1>3. CASE Undo(d)
  <2>1. OnlyOf(d)
    BY <1>3 DEF Undo, OnlyOf, HeldInv, DeviceType, MishapKept, Goto, Release, UndoOrder, UndoNext, soft_vars
  <2>2. /\ \/ /\ pc[d] = "rm_irq" /\ pc'[d] = "rm_bars"
              /\ held'[d] = held[d] \ {"irq"}
           \/ /\ pc[d] = "err_engines" /\ pc'[d] = "err_mask"
              /\ held'[d] = held[d] \ {"irq"}
           \/ /\ pc[d] = "rm_bars" /\ pc'[d] = "rm_regions"
              /\ held'[d] = held[d] \ {"bars"}
           \/ /\ pc[d] = "err_mask" /\ pc'[d] = "err_map"
              /\ held'[d] = held[d] \ {"bars"}
           \/ /\ pc[d] = "rm_regions" /\ pc'[d] = "rm_msi"
              /\ held'[d] = held[d] \ {"regions"}
           \/ /\ pc[d] = "err_map" /\ pc'[d] = "err_regions"
              /\ held'[d] = held[d] \ {"regions"}
           \/ /\ pc[d] = "rm_msi" /\ pc'[d] = "rm_device"
              /\ held'[d] = held[d] \ {"msix", "msi"}
           \/ /\ pc[d] = "err_regions" /\ pc'[d] = "err_scan_msi"
              /\ held'[d] = held[d] \ {"msi"}
        /\ UNCHANGED <<nodes, engine, mishap>>
    BY <1>3 DEF Undo, HeldInv, DeviceType, Goto, Release, UndoOrder, UndoNext, soft_vars
  <2>3. AccountedFor(d)
    BY DEF HeldInv
  <2>4. AccountedFor(d)'
    BY <2>2, <2>3 DEF AccountedFor
  <2>5. QED BY <2>1, <2>4, DeviceStep
<1>4. CASE DisableDevice(d)
  <2>1. OnlyOf(d)
    BY <1>4 DEF DisableDevice, OnlyOf, HeldInv, DeviceType, MishapKept, Goto, Release, soft_vars
  <2>2. /\ \/ pc[d] = "rm_device" /\ pc'[d] = "rm_free"
           \/ pc[d] = "err_scan_msi" /\ pc'[d] = "err_enable"
        /\ held'[d] = IF "regions_in_use" \in held[d] THEN held[d]
                                                      ELSE held[d] \ {"device"}
        /\ UNCHANGED <<nodes, engine, mishap>>
    BY <1>4 DEF DisableDevice, HeldInv, DeviceType, Goto, Release, soft_vars
  <2>3. AccountedFor(d)
    BY DEF HeldInv
  <2>4. AccountedFor(d)'
    BY <2>2, <2>3 DEF AccountedFor
  <2>5. QED BY <2>1, <2>4, DeviceStep
<1>5. CASE FreeDev(d)
  <2>1. OnlyOf(d)
    BY <1>5 DEF FreeDev, OnlyOf, HeldInv, DeviceType, MishapKept, Goto
  <2>2. /\ pc'[d] = "unbound" /\ held'[d] = {} /\ nodes'[d] = <<>> /\ engine'[d] = {}
        /\ UNCHANGED mishap
    BY <1>5 DEF FreeDev, HeldInv, DeviceType, Goto
  <2>3. AccountedFor(d)
    BY DEF HeldInv
  <2>4. AccountedFor(d)'
    BY <2>2, <2>3 DEF AccountedFor
  <2>5. QED BY <2>1, <2>4, DeviceStep
<1>6. QED BY <1>1, <1>2, <1>3, <1>4, <1>5

\* The steps of one device, by part of its life.
Probing(d) ==
  \/ AllocDevInstance(d) \/ EnableDevice(d) \/ ProbeScanForMsi(d)
  \/ MapBars(d) \/ SetDmaMask(d) \/ IrqSetup(d)

Unwinding(d) ==
  \/ RemoveInterfaces(d) \/ UndoEngines(d) \/ Undo(d) \/ DisableDevice(d)
  \/ FreeDev(d)

\* Steps that belong to no device's probe() or remove().
Elsewhere ==
  \/ Insmod \/ ClearPresent \/ Rmmod \/ Removed \/ RunWork
  \/ \E d \in Devices : Interrupt(d) \/ \E f \in Files : Open(f, d)
  \/ \E f \in Files : Close(f)

LEMMA NextByPart ==
  ASSUME [Next]_vars
  PROVE  \/ Elsewhere
         \/ UNCHANGED vars
         \/ \E d \in Devices :
              \/ Probing(d) \/ Unwinding(d)
              \/ RequestRegions(d) \/ ProbeH2C(d) \/ ProbeC2H(d)
              \/ CreateNode(d) \/ CreateNodeFails(d) \/ EnableInterrupts(d)
              \/ CreateSysfs(d)
              \/ ProbeBegin(d) \/ RemoveBegin(d) \/ RemoveHollow(d)
BY DEF Next, Elsewhere, Probing, Unwinding

LEMMA HeldInvStep == HeldInv /\ [Next]_vars => HeldInv'
<1> SUFFICES ASSUME HeldInv, [Next]_vars PROVE HeldInv'
  OBVIOUS
<1>1. CASE Elsewhere \/ UNCHANGED vars
  <2>1. UNCHANGED <<held, pc, nodes, engine, mishap>>
    BY <1>1 DEF Elsewhere, Insmod, ClearPresent, Rmmod, Removed, RunWork,
                Interrupt, Open, Close, vars, soft_vars
  <2>2. QED BY <2>1, NoDeviceStep
<1>2. QED
  BY <1>1, NextByPart, ProbeFirst, ProbeEngines, ProbeNodes, Begin, Unwind
     DEF Probing, Unwinding

LEMMA HeldInvInit == Init => HeldInv
BY NamesInFull DEF Init, HeldInv, DeviceType, AccountedFor, Accounted, Settled, Early,
   WithIrq, WithBars, WithRegions, WithMsi, WithDevice, WithEngines, Climb, Rising,
   Err, ErrTail, Rm

(***************************************************************************)
(* What is left behind.                                                    *)
(***************************************************************************)

\* kfree(lro) at the end of remove() or of a probe that failed.
LEMMA FreeDevLeaves ==
  ASSUME HeldInv, NEW d \in Devices, FreeDev(d)
  PROVE  UnwindLeaves'
<1> USE NamesInFull
<1>1. Accounted(held[d], pc[d], mishap, nodes[d] # <<>>, engine[d])
  BY DEF HeldInv, AccountedFor
<1>2. held[d] \subseteq Resources
  BY DEF HeldInv, DeviceType
<1>3. CASE pc[d] = "rm_free"
  <2>1. held[d] \subseteq {"lro", "sysfs", "minors"}
    BY <1>1, <1>2, <1>3 DEF Accounted, Early, WithIrq, WithBars, WithRegions, WithMsi,
       WithDevice, WithEngines, Err, ErrTail, Engines
  <2>2. nodes[d] = <<>>
    BY <1>1, <1>3 DEF Accounted, Err, ErrTail
  <2>3. leftover' \subseteq {"minors"}
    BY <1>3, <2>1, <2>2 DEF FreeDev, FreesSlot
  <2>4. QED BY <2>3 DEF UnwindLeaves
<1>4. CASE pc[d] = "err_enable"
  <2>1. /\ held[d] \subseteq {"lro", "regions_in_use", "msix", "device", "ints",
                             "minors"} \cup Engines \cup EngineIrqs
        /\ "device" \in held[d] => "in_use" \in mishap
        /\ "ints" \in held[d] => "sysfs" \in mishap
        /\ held[d] \cap (Engines \cup EngineIrqs) # {} => "c2h" \in mishap
    BY <1>1, <1>2, <1>4 DEF Accounted, Early, WithIrq, WithBars, WithRegions, WithMsi,
       WithDevice, WithEngines, Err, ErrTail, Engines, Rm
  <2>2. nodes[d] # <<>> => "sysfs" \in mishap
    BY <1>1, <1>4 DEF Accounted, Err, ErrTail
  <2>3. "probe" \in mishap
    BY <1>1, <1>4 DEF Accounted, Settled, Rm
  <2>4. /\ leftover' \subseteq (held[d] \ {"lro", "regions_in_use"})
             \cup (IF nodes[d] # <<>> THEN {"nodes"} ELSE {}) \cup {"slot"}
        /\ mishap' = mishap
    BY <1>4 DEF FreeDev, FreesSlot
  <2>5. QED BY <2>1, <2>2, <2>3, <2>4 DEF UnwindLeaves, Engines
<1>5. QED BY <1>3, <1>4 DEF FreeDev

\* The other steps leave nothing, or what was left before.
LEMMA OthersLeave ==
  ASSUME UnwindLeaves,
         leftover' = {} \/ (leftover' = leftover /\ mishap \subseteq mishap')
  PROVE  UnwindLeaves'
BY DEF UnwindLeaves

LEMMA UnwindStep == HeldInv /\ UnwindLeaves /\ [Next]_vars => UnwindLeaves'
<1> SUFFICES ASSUME HeldInv, UnwindLeaves, [Next]_vars PROVE UnwindLeaves'
  OBVIOUS
<1>1. CASE Elsewhere \/ UNCHANGED vars
  <2>1. UNCHANGED <<leftover, mishap>>
    BY <1>1 DEF Elsewhere, Insmod, ClearPresent, Rmmod, Removed, RunWork,
                Interrupt, Open, Close, vars
  <2>2. QED BY <2>1, OthersLeave
<1>2. ASSUME NEW d \in Devices, FreeDev(d) PROVE UnwindLeaves'
  BY <1>2, FreeDevLeaves
<1>3. ASSUME NEW d \in Devices, ProbeBegin(d) \/ RemoveBegin(d) PROVE UnwindLeaves'
  BY <1>3, OthersLeave DEF ProbeBegin, RemoveBegin
<1>4. ASSUME NEW d \in Devices,
             Probing(d) \/ RemoveHollow(d) \/ CreateNode(d) \/ CreateNodeFails(d)
               \/ EnableInterrupts(d) \/ ProbeH2C(d) \/ RemoveInterfaces(d)
               \/ UndoEngines(d) \/ Undo(d) \/ DisableDevice(d)
      PROVE  UnwindLeaves'
  <2>1. UNCHANGED <<leftover, mishap>>
    BY <1>4 DEF Probing, AllocDevInstance, EnableDevice, ProbeScanForMsi, MapBars,
       SetDmaMask, IrqSetup, RemoveHollow, CreateNode, CreateNodeFails,
       EnableInterrupts, ProbeH2C, RemoveInterfaces, UndoEngines, Undo, DisableDevice
  <2>2. QED BY <2>1, OthersLeave
<1>5. ASSUME NEW d \in Devices, RequestRegions(d) \/ ProbeC2H(d) \/ CreateSysfs(d)
      PROVE  UnwindLeaves'
  <2>1. leftover' = leftover /\ mishap \subseteq mishap'
    BY <1>5 DEF RequestRegions, ProbeC2H, CreateSysfs
  <2>2. QED BY <2>1, OthersLeave
<1>6. QED BY <1>1, <1>2, <1>3, <1>4, <1>5, NextByPart DEF Unwinding

\* Whichever step of probe() fails, on whatever board, nothing but what
\* UnwindLeaves lists is left behind, and remove() leaves only the region of
\* minors.
THEOREM UnwindComplete == Spec => []UnwindLeaves
<1>1. Init => UnwindLeaves
  BY DEF Init, UnwindLeaves
<1>2. HeldInv /\ UnwindLeaves /\ [Next]_vars => (HeldInv /\ UnwindLeaves)'
  BY HeldInvStep, UnwindStep
<1>3. QED BY <1>1, <1>2, HeldInvInit, PTL DEF Spec

(***************************************************************************)
(* Interrupt handlers and files.                                           *)
(***************************************************************************)

\* What the handlers follow is held, by the account of each device.
LEMMA HeldIsLive == HeldInv => IrqTargetsLive
<1> SUFFICES ASSUME HeldInv, NEW d \in Devices
             PROVE  /\ "irq" \in held[d] => {"lro", "bars"} \subseteq held[d]
                    /\ \A e \in Engines : EngineIrq(e) \in held[d] => e \in held[d]
                    /\ EngineIrqs \cap held[d] # {} /\ "c2h" \notin mishap =>
                         {"lro", "bars"} \subseteq held[d]
                    /\ "irq" \in held[d] /\ ~(engine[d] \subseteq held[d]) =>
                         /\ pc[d] \in {"rm_irq", "err_engines"}
                         /\ "ints" \in held[d] => "sysfs" \in mishap
  BY DEF IrqTargetsLive
<1>1. Accounted(held[d], pc[d], mishap, nodes[d] # <<>>, engine[d])
  BY DEF HeldInv, AccountedFor
<1>2. ASSUME pc[d] \in WithIrq PROVE {"lro", "bars"} \subseteq held[d]
  BY <1>1, <1>2 DEF Accounted, WithIrq, WithBars, Early
<1>3. "irq" \in held[d] => {"lro", "bars"} \subseteq held[d]
  BY <1>1, <1>2 DEF Accounted
<1>4. ASSUME EngineIrqs \cap held[d] # {}, "c2h" \notin mishap
      PROVE  {"lro", "bars"} \subseteq held[d]
  <2>1. pc[d] \in WithIrq
    BY <1>1, <1>4, NamesInFull DEF Accounted, WithIrq, WithEngines
  <2>2. QED BY <1>2, <2>1
<1>5. \A e \in Engines : EngineIrq(e) \in held[d] => e \in held[d]
  BY <1>1 DEF Accounted
<1>6. ASSUME "irq" \in held[d], ~(engine[d] \subseteq held[d])
      PROVE  /\ pc[d] \in {"rm_irq", "err_engines"}
             /\ "ints" \in held[d] => "sysfs" \in mishap
  <2>1. pc[d] \in WithIrq
    BY <1>1, <1>6 DEF Accounted
  <2>2. pc[d] \notin Climb \cup {"rm_interfaces", "rm_engines", "err_interfaces"}
    BY <1>1, <1>6 DEF Accounted
  <2>3. pc[d] \in {"rm_irq", "err_engines"}
    BY <2>1, <2>2 DEF WithIrq, Climb, Rising
  <2>4. QED BY <1>1, <2>3 DEF Accounted
<1>7. QED BY <1>3, <1>4, <1>5, <1>6

\* From rmmod on no file is open: files hold a reference to the module.
FileInv ==
  /\ file \in [Files -> Devices \cup {None}]
  /\ DOMAIN stale = Files
  /\ mod = "exit" => Unused
  /\ FilesSurviveRmmod

\* Nodes may be destroyed under open files, but not by rmmod.
LEMMA OrphanStep ==
  ASSUME FileInv, NEW d \in Devices, Orphan(d), UNCHANGED <<file, mod>>
  PROVE  FileInv'
<1>1. ASSUME NEW f \in Files PROVE stale'[f] # "rmmod"
  <2>1. CASE file[f] # d \/ stale[f] # "no"
    BY <2>1 DEF Orphan, FileInv, FilesSurviveRmmod
  <2>2. CASE file[f] = d /\ stale[f] = "no"
    <3>1. mod # "exit"
      BY <2>2, NoneAssumption DEF FileInv, Unused
    <3>2. QED BY <2>2, <3>1 DEF Orphan, Cause
  <2>3. QED BY <2>1, <2>2
<1>2. DOMAIN stale' = Files
  BY DEF Orphan
<1>3. QED BY <1>1, <1>2 DEF FileInv, FilesSurviveRmmod, Unused

LEMMA FileKept ==
  ASSUME FileInv, UNCHANGED file_vars, mod' = mod \/ mod' # "exit" \/ Unused
  PROVE  FileInv'
BY DEF FileInv, FilesSurviveRmmod, Unused, file_vars

LEMMA FileInvStep == FileInv /\ [Next]_vars => FileInv'
<1> SUFFICES ASSUME FileInv, [Next]_vars PROVE FileInv'
  OBVIOUS
<1>1. CASE Insmod \/ ClearPresent \/ Rmmod \/ Removed \/ RunWork \/ UNCHANGED vars
  <2>1. UNCHANGED file_vars /\ (mod' = mod \/ mod' # "exit" \/ Unused)
    BY <1>1 DEF Insmod, ClearPresent, Rmmod, Removed, RunWork, vars, file_vars
  <2>2. QED BY <2>1, FileKept
<1>2. ASSUME NEW d \in Devices, Interrupt(d) PROVE FileInv'
  BY <1>2, FileKept DEF Interrupt
<1>3. ASSUME NEW d \in Devices, NEW f \in Files, Open(f, d) PROVE FileInv'
  BY <1>3 DEF Open, FileInv, FilesSurviveRmmod
<1>4. ASSUME NEW f \in Files, Close(f) PROVE FileInv'
  BY <1>4 DEF Close, FileInv, FilesSurviveRmmod, Unused
<1>5. ASSUME NEW d \in Devices,
             CreateNodeFails(d) \/ RemoveInterfaces(d) \/ FreeDev(d)
      PROVE  FileInv'
  BY <1>5, OrphanStep DEF CreateNodeFails, RemoveInterfaces, FreeDev, DestroyInterfaces
<1>6. ASSUME NEW d \in Devices,
             Probing(d) \/ RequestRegions(d) \/ ProbeH2C(d) \/ ProbeC2H(d)
               \/ CreateNode(d) \/ EnableInterrupts(d) \/ CreateSysfs(d)
               \/ ProbeBegin(d) \/ RemoveBegin(d) \/ RemoveHollow(d)
               \/ UndoEngines(d) \/ Undo(d) \/ DisableDevice(d)
      PROVE  FileInv'
  <2>1. UNCHANGED <<file_vars, mod>>
    BY <1>6 DEF Probing, AllocDevInstance, EnableDevice, ProbeScanForMsi, MapBars,
       SetDmaMask, IrqSetup, RequestRegions, ProbeH2C, ProbeC2H, CreateNode,
       EnableInterrupts, CreateSysfs, ProbeBegin, RemoveBegin, RemoveHollow,
       UndoEngines, Undo, DisableDevice
  <2>2. QED BY <2>1, FileKept
<1>7. QED
  BY <1>1, <1>2, <1>3, <1>4, <1>5, <1>6, NextByPart DEF Elsewhere, Unwinding

\* On whatever board, in every interrupt mode and after every failure of
\* probe(), an interrupt handler finds the memory and mappings it uses but in
\* the cases IrqTargetsLive names: an engine's line after a failed C2H engine,
\* and xdma_isr() between remove_engines() and irq_teardown().  Unloading the
\* module frees nothing that a file refers to.
THEOREM UsersServed == Spec => []UsersFindDevice
<1>1. Init => FileInv
  BY DEF Init, FileInv, FilesSurviveRmmod
<1>2. HeldInv /\ FileInv => UsersFindDevice
  BY HeldIsLive DEF FileInv, UsersFindDevice
<1>3. HeldInv /\ FileInv /\ [Next]_vars => (HeldInv /\ FileInv)'
  BY HeldInvStep, FileInvStep
<1>4. QED BY <1>1, <1>2, <1>3, HeldInvInit, PTL DEF Spec

(***************************************************************************)
(* Instance numbers.                                                       *)
(***************************************************************************)

\* A number that a device uses is marked taken, unless xdma_init() cleared
\* it; a device that is not brought up has none.
SlotInv ==
  /\ dev_present \in [0 .. Slots - 1 -> BOOLEAN]
  /\ DOMAIN instance = Devices
  /\ DOMAIN pc = Devices
  /\ mod = "out" => \A d \in Devices : pc[d] = "unbound"
  /\ \A d \in Devices : pc[d] \in Early => instance[d] = None
  /\ \A d \in Devices :
       instance[d] # None /\ instance[d] \notin cleared =>
         instance[d] \in 0 .. Slots - 1 /\ dev_present[instance[d]]
  /\ SlotsExclusive

\* The scan of dev_present finds a number that is not marked.
LEMMA FreeSlotFound ==
  ASSUME FreeSlots # {}
  PROVE  FirstFreeSlot \in FreeSlots
<1>1. FreeSlots \subseteq Nat
  BY SlotsAssumption DEF FreeSlots
<1> DEFINE R == OpToRel(<, Nat)
<1>2. IsWellFoundedOn(R, Nat)
  BY NatLessThanWellFounded
<1>3. \A i, j \in Nat : j < i => <<j, i>> \in R
  BY DEF OpToRel
<1> HIDE DEF R
<1>4. \E i \in FreeSlots : \A j \in FreeSlots : ~(<<j, i>> \in R)
  BY <1>1, <1>2, WFMin
<1>5. PICK i \in FreeSlots : \A j \in FreeSlots : ~(j < i)
  BY <1>1, <1>3, <1>4, Zenon
<1>6. \A j \in FreeSlots : i <= j
  BY <1>1, <1>5
<1>7. QED BY <1>6 DEF FirstFreeSlot

\* Claiming a number, which happens to devices that are being brought up.
LEMMA ClaimStep ==
  ASSUME SlotInv, NEW d \in Devices, ClaimSlot(d) \/ UNCHANGED <<dev_present, instance>>,
         pc[d] \notin Early, pc'[d] \notin Early, DOMAIN pc' = Devices,
         \A e \in Devices \ {d} : pc'[e] = pc[e],
         UNCHANGED <<mod, cleared>>
  PROVE  SlotInv'
<1>1. mod # "out"
  BY DEF SlotInv, Early
<1>2. CASE UNCHANGED <<dev_present, instance>>
  BY <1>1, <1>2 DEF SlotInv, SlotsExclusive
<1>3. CASE instance[d] = None /\ ClaimSlot(d)
  <2>1. /\ FirstFreeSlot \in 0 .. Slots - 1 /\ ~dev_present[FirstFreeSlot]
        /\ dev_present' = [dev_present EXCEPT ![FirstFreeSlot] = TRUE]
        /\ instance' = [instance EXCEPT ![d] = FirstFreeSlot]
    BY <1>3, FreeSlotFound DEF ClaimSlot, FreeSlots
  <2>2. \A e \in Devices : instance[e] = FirstFreeSlot /\ instance[e] # None =>
                             FirstFreeSlot \in cleared
    BY <2>1 DEF SlotInv
  <2>3. SlotsExclusive'
    BY <2>1, <2>2 DEF SlotsExclusive, SlotInv
  <2>4. QED BY <1>1, <2>1, <2>3 DEF SlotInv
<1>4. QED BY <1>2, <1>3 DEF ClaimSlot

\* Releasing the number at the end of remove(): no other device loses it.
LEMMA FreeStep ==
  ASSUME SlotInv, NEW d \in Devices, FreeDev(d)
  PROVE  SlotInv'
<1>1. /\ instance' = [instance EXCEPT ![d] = None]
      /\ pc' = [pc EXCEPT ![d] = "unbound"]
      /\ UNCHANGED <<mod, cleared>>
      /\ \/ dev_present' = dev_present
         \/ /\ instance[d] # None
            /\ dev_present' = [dev_present EXCEPT ![instance[d]] = FALSE]
  BY DEF FreeDev, Goto, FreesSlot
<1>2. \A e \in Devices :
        e # d /\ instance[e] # None /\ instance[e] \notin cleared
          /\ instance[d] # None => instance[e] # instance[d]
  BY DEF SlotInv, SlotsExclusive
<1>3. dev_present' \in [0 .. Slots - 1 -> BOOLEAN]
  BY <1>1 DEF SlotInv
<1>4. ASSUME NEW e \in Devices, instance'[e] # None, instance'[e] \notin cleared'
      PROVE  instance'[e] \in 0 .. Slots - 1 /\ dev_present'[instance'[e]]
  BY <1>1, <1>2, <1>4 DEF SlotInv
<1>5. SlotsExclusive'
  BY <1>1 DEF SlotInv, SlotsExclusive
<1>6. QED BY <1>1, <1>3, <1>4, <1>5 DEF SlotInv, Early

\* Loading the module, and the end of xdma_init().
LEMMA InitStep ==
  ASSUME SlotInv, Insmod \/ ClearPresent
  PROVE  SlotInv'
<1>1. /\ dev_present' = [i \in 0 .. Slots - 1 |-> FALSE]
      /\ UNCHANGED <<pc, instance>>
      /\ mod' # "out"
      /\ \A d \in Devices : instance'[d] # None => instance'[d] \in cleared'
  BY DEF Insmod, ClearPresent, soft_vars, SlotInv, Early
<1>2. QED BY <1>1 DEF SlotInv, SlotsExclusive

\* Steps that leave the numbers alone; a device without one may come up, or
\* be found unbound.
LEMMA SlotKept ==
  ASSUME SlotInv, UNCHANGED <<dev_present, instance, cleared>>,
         DOMAIN pc' = Devices,
         \A d \in Devices : pc'[d] \in Early => pc[d] \in Early,
         mod' = "out" => \A d \in Devices : pc'[d] = "unbound"
  PROVE  SlotInv'
BY DEF SlotInv, SlotsExclusive

LEMMA SlotInvStep == SlotInv /\ [Next]_vars => SlotInv'
<1> SUFFICES ASSUME SlotInv, [Next]_vars PROVE SlotInv'
  OBVIOUS
<1> USE DEF SlotInv
<1>1. CASE Insmod \/ ClearPresent
  BY <1>1, InitStep
<1>2. CASE Rmmod \/ Removed \/ RunWork \/ UNCHANGED vars
  <2>1. /\ UNCHANGED <<dev_present, instance, cleared, pc>>
        /\ mod' = "out" => \A d \in Devices : pc'[d] = "unbound"
    BY <1>2 DEF Rmmod, Removed, RunWork, vars, soft_vars
  <2>2. QED BY <2>1, SlotKept
<1>3. ASSUME NEW d \in Devices, Interrupt(d) \/ \E f \in Files : Open(f, d)
      PROVE  SlotInv'
  <2>1. UNCHANGED <<dev_present, instance, cleared, pc, mod>>
    BY <1>3 DEF Interrupt, Open, soft_vars
  <2>2. QED BY <2>1, SlotKept
<1>4. ASSUME NEW f \in Files, Close(f) PROVE SlotInv'
  <2>1. UNCHANGED <<dev_present, instance, cleared, pc, mod>>
    BY <1>4 DEF Close, soft_vars
  <2>2. QED BY <2>1, SlotKept
<1>5. ASSUME NEW d \in Devices, CreateNode(d) \/ CreateNodeFails(d)
      PROVE  SlotInv'
  <2>1. /\ ClaimSlot(d) \/ UNCHANGED <<dev_present, instance>>
        /\ pc[d] = "interfaces"
        /\ pc'[d] \in {"interfaces", "err_interfaces"}
        /\ DOMAIN pc' = Devices
        /\ \A e \in Devices \ {d} : pc'[e] = pc[e]
        /\ UNCHANGED <<mod, cleared>>
    BY <1>5 DEF CreateNode, CreateNodeFails, Goto
  <2>2. pc[d] \notin Early /\ pc'[d] \notin Early
    BY <2>1 DEF Early
  <2>3. QED BY <2>1, <2>2, ClaimStep
<1>6. ASSUME NEW d \in Devices, FreeDev(d) PROVE SlotInv'
  BY <1>6, FreeStep
<1>7. ASSUME NEW d \in Devices, ProbeBegin(d) \/ RemoveHollow(d) \/ AllocDevInstance(d)
      PROVE  SlotInv'
  <2>1. /\ UNCHANGED <<dev_present, instance, cleared, mod>>
        /\ pc[d] \in Early
        /\ \E l \in {"alloc", "unbound", "enable", "hollow"} : pc' = [pc EXCEPT ![d] = l]
        /\ mod # "out"
    BY <1>7 DEF ProbeBegin, RemoveHollow, AllocDevInstance, Goto, soft_vars, Early
  <2>2. QED BY <2>1, SlotKept
<1>8. ASSUME NEW d \in Devices,
             EnableDevice(d) \/ ProbeScanForMsi(d) \/ MapBars(d) \/ SetDmaMask(d)
               \/ IrqSetup(d) \/ RequestRegions(d) \/ ProbeH2C(d) \/ ProbeC2H(d)
               \/ EnableInterrupts(d) \/ CreateSysfs(d) \/ RemoveBegin(d)
               \/ RemoveInterfaces(d) \/ UndoEngines(d) \/ Undo(d) \/ DisableDevice(d)
      PROVE  SlotInv'
  <2>1. UNCHANGED <<dev_present, instance, cleared, mod>>
    BY <1>8 DEF EnableDevice, ProbeScanForMsi, MapBars, SetDmaMask, IrqSetup,
       RequestRegions, ProbeH2C, ProbeC2H, EnableInterrupts, CreateSysfs, RemoveBegin,
       RemoveInterfaces, UndoEngines, Undo, DisableDevice, soft_vars
  <2>2. pc[d] \notin Early
    BY <1>8 DEF EnableDevice, ProbeScanForMsi, MapBars, SetDmaMask, IrqSetup,
       RequestRegions, ProbeH2C, ProbeC2H, EnableInterrupts, CreateSysfs, RemoveBegin,
       RemoveInterfaces, UndoEngines, Undo, DisableDevice, Early
  <2>3. \E l : pc' = [pc EXCEPT ![d] = l] /\ l \notin Early
    BY <1>8 DEF EnableDevice, ProbeScanForMsi, MapBars, SetDmaMask, IrqSetup,
       RequestRegions, ProbeH2C, ProbeC2H, EnableInterrupts, CreateSysfs, RemoveBegin,
       RemoveDisable, RemoveInterfaces, UndoEngines, Undo, UndoNext, DisableDevice,
       Goto, Early
  <2>4. mod # "out"
    BY <2>2 DEF Early
  <2>5. QED BY <2>1, <2>3, <2>4, SlotKept
<1>9. QED
  BY <1>1, <1>2, <1>3, <1>4, <1>5, <1>6, <1>7, <1>8, NextByPart
     DEF Elsewhere, Probing, Unwinding

\* Two devices never share an instance number, whatever comes, goes and fails
\* to come up, except for numbers xdma_init() cleared after the first probes.
THEOREM SlotsNotShared == Spec => []SlotsExclusive
<1>1. Init => SlotInv
  BY DEF Init, SlotInv, SlotsExclusive
<1>2. SlotInv => SlotsExclusive
  BY DEF SlotInv
<1>3. QED BY <1>1, <1>2, SlotInvStep, PTL DEF Spec

(***************************************************************************)
(* Character devices: which node open() finds.                             *)
(***************************************************************************)

\* The nodes in the order of creation, with their minors.
LEMMA NodeNumbers ==
  /\ Rank("user") = 1 /\ Rank("control") = 2 /\ Rank("events") = 3 /\ Rank("h2c") = 4
  /\ Rank("c2h") = 5 /\ Rank("bypass_h2c") = 6 /\ Rank("bypass_c2h") = 7
  /\ Rank("bypass") = 8
<1>1. Len(NodeOrder) = 8
  BY DEF NodeOrder
<1>2. /\ NodeOrder[1] = "user" /\ NodeOrder[2] = "control" /\ NodeOrder[3] = "events"
      /\ NodeOrder[4] = "h2c" /\ NodeOrder[5] = "c2h" /\ NodeOrder[6] = "bypass_h2c"
      /\ NodeOrder[7] = "bypass_c2h" /\ NodeOrder[8] = "bypass"
  BY DEF NodeOrder
<1>3. 1 .. Len(NodeOrder) = {1, 2, 3, 4, 5, 6, 7, 8}
  BY <1>1
<1>4. Rank("user") = 1
  BY <1>2, <1>3 DEF Rank
<1>5. Rank("control") = 2
  BY <1>2, <1>3 DEF Rank
<1>6. Rank("events") = 3
  BY <1>2, <1>3 DEF Rank
<1>7. Rank("h2c") = 4
  BY <1>2, <1>3 DEF Rank
<1>8. Rank("c2h") = 5
  BY <1>2, <1>3 DEF Rank
<1>9. Rank("bypass_h2c") = 6
  BY <1>2, <1>3 DEF Rank
<1>10. Rank("bypass_c2h") = 7
  BY <1>2, <1>3 DEF Rank
<1>11. Rank("bypass") = 8
  BY <1>2, <1>3 DEF Rank
<1>12. QED BY <1>4, <1>5, <1>6, <1>7, <1>8, <1>9, <1>10, <1>11

\* gen_dev_minor() ascends in that order.
LEMMA MinorsAscend ==
  ASSUME NEW t \in NodeTypes, NEW u \in NodeTypes, Rank(t) < Rank(u)
  PROVE  Minor(t) \in Nat /\ Minor(u) \in Nat /\ Minor(t) < Minor(u)
<1>1. /\ Minor("user") = 0 /\ Minor("control") = 1 /\ Minor("events") = 10
      /\ Minor("h2c") = 32 /\ Minor("c2h") = 36 /\ Minor("bypass_h2c") = 64
      /\ Minor("bypass_c2h") = 68 /\ Minor("bypass") = 100
  BY DEF Minor
<1>2. QED BY <1>1, NodeNumbers DEF NodeTypes

\* Every node was created behind those before it.
InOrder(s) ==
  /\ s \in Seq(NodeTypes)
  /\ \A i, j \in 1 .. Len(s) : i < j => Rank(s[i]) < Rank(s[j])

NodesInv == DOMAIN nodes = Devices /\ \A d \in Devices : InOrder(nodes[d])

LEMMA OrderAppend ==
  ASSUME NEW s, InOrder(s), NEW t \in NodeTypes,
         \A i \in 1 .. Len(s) : Rank(t) > Rank(s[i])
  PROVE  InOrder(Append(s, t))
<1>1. s \in Seq(NodeTypes) /\ Len(s) \in Nat
  BY DEF InOrder
<1>2. Append(s, t) \in Seq(NodeTypes) /\ Len(Append(s, t)) = Len(s) + 1
  BY <1>1
<1>3. ASSUME NEW i \in 1 .. Len(s) + 1, NEW j \in 1 .. Len(s) + 1, i < j
      PROVE  Rank(Append(s, t)[i]) < Rank(Append(s, t)[j])
  <2>1. i \in 1 .. Len(s) /\ Append(s, t)[i] = s[i]
    BY <1>1, <1>3
  <2>2. CASE j \in 1 .. Len(s)
    <3>1. Append(s, t)[j] = s[j]
      BY <1>1, <2>2
    <3>2. QED BY <1>3, <2>1, <2>2, <3>1 DEF InOrder
  <2>3. CASE j = Len(s) + 1
    <3>1. Append(s, t)[j] = t
      BY <1>1, <2>3
    <3>2. \A u \in NodeTypes : Rank(u) \in Nat
      BY NodeNumbers DEF NodeTypes
    <3>3. s[i] \in NodeTypes /\ Rank(t) > Rank(s[i])
      BY <1>1, <2>1
    <3>4. QED BY <2>1, <3>1, <3>2, <3>3
  <2>4. QED BY <1>1, <2>2, <2>3
<1>4. QED BY <1>2, <1>3 DEF InOrder

LEMMA OrderEmpty == InOrder(<< >>)
BY DEF InOrder

LEMMA NodesInvStep == DeviceType /\ NodesInv /\ [Next]_vars => NodesInv'
<1> SUFFICES ASSUME DeviceType, NodesInv, [Next]_vars PROVE NodesInv'
  OBVIOUS
<1>1. nodes' = nodes => NodesInv'
  BY DEF NodesInv
<1>2. CASE Insmod \/ ClearPresent \/ Rmmod \/ Removed \/ RunWork \/ UNCHANGED vars
  BY <1>1, <1>2 DEF Insmod, ClearPresent, Rmmod, Removed, RunWork, vars, soft_vars
<1>3. ASSUME NEW d \in Devices, Interrupt(d) \/ \E f \in Files : Open(f, d) PROVE NodesInv'
  BY <1>1, <1>3 DEF Interrupt, Open, soft_vars
<1>4. ASSUME NEW f \in Files, Close(f) PROVE NodesInv'
  BY <1>1, <1>4 DEF Close, soft_vars
<1>5. ASSUME NEW d \in Devices, CreateNode(d) PROVE NodesInv'
  <2>1. PICK t \in NextNodes(d) : nodes' = [nodes EXCEPT ![d] = Append(nodes[d], t)]
    BY <1>5 DEF CreateNode
  <2>2. t \in NodeTypes /\ \A i \in 1 .. Len(nodes[d]) : Rank(t) > Rank(nodes[d][i])
    <3>1. t \in Pending(d)
      BY <2>1 DEF NextNodes
    <3>2. t \in Interfaces(d) /\ \A i \in 1 .. Len(nodes[d]) : Rank(t) > Rank(nodes[d][i])
      BY <3>1 DEF Pending
    <3>3. Interfaces(d) \subseteq NodeTypes
      <4>1. engine[d] \subseteq {"h2c", "c2h"}
        BY DEF DeviceType, Engines
      <4>2. QED BY <4>1 DEF Interfaces, NodeTypes
    <3>4. QED BY <3>2, <3>3
  <2>3. InOrder(Append(nodes[d], t))
    BY <2>2, OrderAppend DEF NodesInv
  <2>4. QED BY <2>1, <2>3 DEF NodesInv
<1>6. ASSUME NEW d \in Devices,
             CreateNodeFails(d) \/ RemoveInterfaces(d) \/ FreeDev(d)
      PROVE  NodesInv'
  <2>1. nodes' = [nodes EXCEPT ![d] = << >>]
    BY <1>6 DEF CreateNodeFails, RemoveInterfaces, FreeDev, DestroyInterfaces
  <2>2. QED BY <2>1, OrderEmpty DEF NodesInv
<1>7. ASSUME NEW d \in Devices,
             Probing(d) \/ RequestRegions(d) \/ ProbeH2C(d) \/ ProbeC2H(d)
               \/ EnableInterrupts(d) \/ CreateSysfs(d)
               \/ ProbeBegin(d) \/ RemoveBegin(d) \/ RemoveHollow(d)
               \/ UndoEngines(d) \/ Undo(d) \/ DisableDevice(d)
      PROVE  NodesInv'
  <2>1. nodes' = nodes
    BY <1>7 DEF Probing, AllocDevInstance, EnableDevice, ProbeScanForMsi, MapBars,
       SetDmaMask, IrqSetup, RequestRegions, ProbeH2C, ProbeC2H,
       EnableInterrupts, CreateSysfs, ProbeBegin, RemoveBegin, RemoveHollow,
       UndoEngines, Undo, DisableDevice, soft_vars
  <2>2. QED BY <1>1, <2>1
<1>8. QED
  BY <1>2, <1>3, <1>4, <1>5, <1>6, <1>7, NextByPart DEF Elsewhere, Unwinding

\* Of the ranges that contain a node's minor its own was added last.
LEMMA FindsItself ==
  ASSUME NodesInv, NEW d \in Devices, NEW i \in 1 .. Len(nodes[d])
  PROVE  Found(d, nodes[d][i]) = nodes[d][i]
<1> DEFINE s == nodes[d]
           covers == {j \in 1 .. Len(s) : Minor(s[j]) <= Minor(s[i])}
<1>1. s \in Seq(NodeTypes) /\ \A j, k \in 1 .. Len(s) : j < k => Rank(s[j]) < Rank(s[k])
  BY DEF NodesInv, InOrder
<1>2. \A j \in 1 .. Len(s) : s[j] \in NodeTypes
  BY <1>1
<1>3. \A j \in 1 .. Len(s) : j \in Int
  OBVIOUS
<1>4. \A t \in NodeTypes : Minor(t) \in Nat
  BY DEF Minor, NodeTypes
<1> HIDE DEF s
<1>5. i \in covers
  BY <1>2, <1>4 DEF s
<1>6. \A j \in covers : j <= i
  <2> SUFFICES ASSUME NEW j \in 1 .. Len(s), i < j, Minor(s[j]) <= Minor(s[i]) PROVE FALSE
    BY <1>3 DEF s
  <2>1. Minor(s[i]) < Minor(s[j])
    BY <1>1, <1>2, MinorsAscend DEF s
  <2>2. QED BY <1>2, <1>4, <2>1 DEF s
<1>7. covers \subseteq Int
  BY <1>3
<1>8. Found(d, s[i]) = s[CHOOSE k \in covers : \A j \in covers : j <= k]
  BY DEF Found, s
<1> HIDE DEF covers
<1> DEFINE k == CHOOSE k \in covers : \A j \in covers : j <= k
<1>9. k \in covers /\ \A j \in covers : j <= k
  BY <1>5, <1>6
<1> HIDE DEF k
<1>10. k = i
  BY <1>5, <1>6, <1>7, <1>9
<1>11. QED BY <1>8, <1>10 DEF s, k

(***************************************************************************)
(* Which BARs are taken to be the user and the bypass BAR.                 *)
(***************************************************************************)
LEMMA PairSize == ASSUME NEW x, NEW y, x # y PROVE IsFiniteSet({x, y}) /\ Cardinality({x, y}) = 2
<1>1. IsFiniteSet({x}) /\ Cardinality({x}) = 1
  BY FS_Singleton
<1>2. IsFiniteSet({x} \cup {y}) /\ Cardinality({x} \cup {y}) = 2
  BY <1>1, FS_AddElement
<1>3. {x} \cup {y} = {x, y}
  OBVIOUS
<1>4. QED BY <1>2, <1>3

LEMMA TripleSize ==
  ASSUME NEW x, NEW y, NEW z, x # y, x # z, y # z
  PROVE  Cardinality({x, y, z}) = 3
<1> DEFINE S == {x, y}
<1>1. IsFiniteSet(S) /\ Cardinality(S) = 2 /\ z \notin S
  BY PairSize
<1>2. S \cup {z} = {x, y, z}
  OBVIOUS
<1> HIDE DEF S
<1>3. Cardinality(S \cup {z}) = 3
  BY <1>1, FS_AddElement
<1>4. QED BY <1>2, <1>3

\* The list of two BARs.
LEMMA TwoBars ==
  ASSUME NEW l, NEW a \in Nat, NEW b \in Nat, a < b, Bars(l) = {a, b}
  PROVE  /\ Cardinality(Bars(l)) = 2
         /\ BarPos(l, a) = 0 /\ BarPos(l, b) = 1
         /\ BarAt(l, 0) = a /\ BarAt(l, 1) = b
<1>1. Cardinality(Bars(l)) = 2
  BY PairSize
<1>2. {j \in Bars(l) : j < a} = {} /\ {j \in Bars(l) : j < b} = {a}
  OBVIOUS
<1>3. BarPos(l, a) = 0 /\ BarPos(l, b) = 1
  BY <1>2, FS_EmptySet, FS_Singleton DEF BarPos
<1>4. BarAt(l, 0) = a /\ BarAt(l, 1) = b
  BY <1>3 DEF BarAt
<1>5. QED BY <1>1, <1>3, <1>4

\* The list of three BARs.
LEMMA ThreeBars ==
  ASSUME NEW l, NEW a \in Nat, NEW b \in Nat, NEW c \in Nat, a < b, b < c,
         Bars(l) = {a, b, c}
  PROVE  /\ Cardinality(Bars(l)) = 3
         /\ BarPos(l, b) = 1
         /\ BarAt(l, 0) = a /\ BarAt(l, 2) = c
<1>1. a # b /\ a # c /\ b # c
  OBVIOUS
<1>2. Cardinality(Bars(l)) = 3
  <2>1. Cardinality({a, b, c}) = 3
    BY <1>1, TripleSize, Zenon
  <2>2. QED BY <2>1
<1>3. {j \in Bars(l) : j < a} = {} /\ {j \in Bars(l) : j < b} = {a}
      /\ {j \in Bars(l) : j < c} = {a, b}
  OBVIOUS
<1>4. BarPos(l, a) = 0 /\ BarPos(l, b) = 1 /\ BarPos(l, c) = 2
  <2>1. BarPos(l, a) = 0 /\ BarPos(l, b) = 1
    BY <1>3, FS_EmptySet, FS_Singleton DEF BarPos
  <2>2. BarPos(l, c) = 2
    BY <1>1, <1>3, PairSize DEF BarPos
  <2>3. QED BY <2>1, <2>2
<1>5. BarAt(l, 0) = a /\ BarAt(l, 2) = c
  BY <1>4 DEF BarAt
<1>6. QED BY <1>2, <1>4, <1>5

\* identify_bars() is right about every layout that keeps its rule.
LEMMA BarsFound ==
  ASSUME NEW l, BarRule(l), ConfigPos(l) # {}, NEW t \in {"user", "bypass"}
  PROVE  LET found == IF t = "user" THEN UserBar(l) ELSE BypassBar(l)
         IN IF found = -1 THEN \A i \in DOMAIN l : l[i] # t ELSE l[found] = t
<1>1. PICK c \in Bars(l) : l[c] = "config"
  BY DEF ConfigPos
<1>2. Bars(l) \subseteq Nat
  BY DEF BarRule, Bars
<1>3. {j \in Bars(l) : l[j] = "config"} = {c}
  BY <1>1 DEF BarRule
<1>4. ConfigPos(l) = {BarPos(l, c)}
  BY <1>3 DEF ConfigPos
<1>5. \A i \in DOMAIN l : l[i] \in {"user", "bypass"} => i \in Bars(l)
  BY DEF Bars
<1>6. CASE \E u, b \in Bars(l) : l[u] = "user" /\ l[b] = "bypass"
  <2>1. PICK u \in Bars(l), b \in Bars(l) : l[u] = "user" /\ l[b] = "bypass"
    BY <1>6
  <2>2. Bars(l) = {u, c, b} /\ u < c /\ c < b
    BY <1>1, <2>1 DEF BarRule
  <2>3. Cardinality(Bars(l)) = 3 /\ BarPos(l, c) = 1 /\ BarAt(l, 0) = u /\ BarAt(l, 2) = b
    BY <1>2, <2>2, ThreeBars
  <2>4. UserBar(l) = u
    BY <1>4, <2>3 DEF UserBar
  <2>5. BypassBar(l) = b
    BY <1>4, <2>3 DEF BypassBar
  <2>6. u # -1 /\ b # -1
    BY <1>2
  <2>7. QED BY <2>1, <2>4, <2>5, <2>6
<1>7. CASE \E u \in Bars(l) : l[u] = "user" /\ \A b \in Bars(l) : l[b] # "bypass"
  <2>1. PICK u \in Bars(l) : l[u] = "user" /\ \A b \in Bars(l) : l[b] # "bypass"
    BY <1>7
  <2>2. Bars(l) = {u, c} /\ u < c
    BY <1>1, <2>1 DEF BarRule
  <2>3. Cardinality(Bars(l)) = 2 /\ BarPos(l, c) = 1 /\ BarAt(l, 0) = u
    BY <1>2, <2>2, TwoBars
  <2>4. UserBar(l) = u
    BY <1>4, <2>3 DEF UserBar
  <2>5. BypassBar(l) = -1
    BY <1>4, <2>3 DEF BypassBar
  <2>6. u # -1
    BY <1>2
  <2>7. QED BY <1>5, <2>1, <2>4, <2>5, <2>6
<1>8. CASE \E b \in Bars(l) : l[b] = "bypass" /\ \A u \in Bars(l) : l[u] # "user"
  <2>1. PICK b \in Bars(l) : l[b] = "bypass" /\ \A u \in Bars(l) : l[u] # "user"
    BY <1>8
  <2>2. Bars(l) = {c, b} /\ c < b
    BY <1>1, <2>1 DEF BarRule
  <2>3. Cardinality(Bars(l)) = 2 /\ BarPos(l, c) = 0 /\ BarAt(l, 1) = b
    BY <1>2, <2>2, TwoBars
  <2>4. UserBar(l) = -1
    BY <1>4, <2>3 DEF UserBar
  <2>5. BypassBar(l) = b
    BY <1>4, <2>3 DEF BypassBar
  <2>6. b # -1
    BY <1>2
  <2>7. QED BY <1>5, <2>1, <2>4, <2>5, <2>6
<1>9. CASE \A i \in Bars(l) : l[i] \notin {"user", "bypass"}
  <2>1. Bars(l) = {c}
    BY <1>1, <1>9 DEF BarRule
  <2>2. Cardinality(Bars(l)) = 1
    BY <2>1, FS_Singleton
  <2>3. UserBar(l) = -1 /\ BypassBar(l) = -1
    BY <2>2 DEF UserBar, BypassBar
  <2>4. QED BY <1>5, <1>9, <2>3
<1>10. QED BY <1>6, <1>7, <1>8, <1>9

\* The boards stay, and the BARs of a board without config BAR are not kept.
BarsInv ==
  /\ hw \in [Devices -> UNION {Boards(d) : d \in Devices}]
  /\ \A d \in Devices : hw[d] \in Boards(d)
  /\ \A d \in Devices : "bars" \in held[d] => ConfigPos(hw[d].layout) # {}

\* Only map_bars() takes them.
LEMMA BarsInvStep == DeviceType /\ BarsInv /\ [Next]_vars => BarsInv'
<1> SUFFICES ASSUME DeviceType, BarsInv, [Next]_vars PROVE BarsInv'
  OBVIOUS
<1>1. ASSUME UNCHANGED hw, \A d \in Devices : "bars" \in held'[d] => "bars" \in held[d]
      PROVE  BarsInv'
  BY <1>1 DEF BarsInv
<1> USE DEF DeviceType
<1>2. CASE Insmod \/ ClearPresent \/ Rmmod \/ Removed \/ RunWork \/ UNCHANGED vars
  BY <1>1, <1>2 DEF Insmod, ClearPresent, Rmmod, Removed, RunWork, vars
<1>3. ASSUME NEW d \in Devices, Interrupt(d) \/ \E f \in Files : Open(f, d) PROVE BarsInv'
  BY <1>1, <1>3 DEF Interrupt, Open
<1>4. ASSUME NEW f \in Files, Close(f) PROVE BarsInv'
  BY <1>1, <1>4 DEF Close
<1>5. ASSUME NEW d \in Devices, MapBars(d) PROVE BarsInv'
  <2>1. CASE held' = held
    BY <1>5, <2>1 DEF MapBars, BarsInv
  <2>2. CASE ConfigPos(hw[d].layout) # {} /\ Take(d, {"bars"})
    BY <1>5, <2>2 DEF MapBars, BarsInv, Take
  <2>3. QED BY <1>5, <2>1, <2>2 DEF MapBars
<1>6. ASSUME NEW d \in Devices,
             RemoveInterfaces(d) \/ SetDmaMask(d) \/ ProbeBegin(d) \/ RemoveHollow(d)
      PROVE  BarsInv'
  BY <1>1, <1>6 DEF RemoveInterfaces, SetDmaMask, ProbeBegin, RemoveHollow
<1>7. ASSUME NEW d \in Devices,
             AllocDevInstance(d) \/ EnableDevice(d) \/ ProbeScanForMsi(d) \/ IrqSetup(d)
               \/ RequestRegions(d) \/ CreateNode(d) \/ CreateNodeFails(d)
               \/ EnableInterrupts(d) \/ CreateSysfs(d)
      PROVE  BarsInv'
  <2>1. UNCHANGED hw /\ \E R : "bars" \notin R /\ (Take(d, R) \/ held' = held)
    BY <1>7 DEF AllocDevInstance, EnableDevice, ProbeScanForMsi, IrqSetup,
       RequestRegions, CreateNode, CreateNodeFails, EnableInterrupts, CreateSysfs
  <2>2. QED BY <1>1, <2>1 DEF Take
<1>8. ASSUME NEW d \in Devices, ProbeH2C(d) \/ ProbeC2H(d) PROVE BarsInv'
  <2>1. \A e \in Engines : "bars" \notin EngineResources(d, e)
    BY DEF EngineResources, Engines, EngineIrq
  <2>2. UNCHANGED hw /\ \/ \E e \in Engines : Take(d, EngineResources(d, e))
                        \/ RemoveEngines(d) \/ held' = held
    BY <1>8 DEF ProbeH2C, ProbeC2H, Engines
  <2>3. \A e \in Devices : "bars" \in held'[e] => "bars" \in held[e]
    <3>1. CASE held' = held
      BY <3>1
    <3>2. CASE RemoveEngines(d)
      BY <3>2 DEF RemoveEngines, Release
    <3>3. ASSUME NEW e \in Engines, Take(d, EngineResources(d, e))
          PROVE  \A x \in Devices : "bars" \in held'[x] => "bars" \in held[x]
      BY <2>1, <3>3 DEF Take
    <3>4. QED BY <2>2, <3>1, <3>2, <3>3
  <2>4. QED BY <1>1, <2>2, <2>3
<1>9. ASSUME NEW d \in Devices,
             RemoveBegin(d) \/ UndoEngines(d) \/ Undo(d) \/ DisableDevice(d)
      PROVE  BarsInv'
  <2>1. UNCHANGED hw /\ \E R : Release(d, R)
    BY <1>9 DEF RemoveBegin, RemoveDisable, UndoEngines, RemoveEngines, Undo, DisableDevice
  <2>2. QED BY <1>1, <2>1 DEF Release
<1>10. ASSUME NEW d \in Devices, FreeDev(d) PROVE BarsInv'
  BY <1>1, <1>10 DEF FreeDev
<1>11. QED
  BY <1>2, <1>3, <1>4, <1>5, <1>6, <1>7, <1>8, <1>9, <1>10, NextByPart
     DEF Elsewhere, Probing, Unwinding

(***************************************************************************)
(* For every set of boards that keep the rule of identify_bars(): open()   *)
(* of a node reaches that node although the registered ranges of minors    *)
(* overlap, whichever nodes a device has, and the user and bypass nodes    *)
(* stand for the right BARs.                                               *)
(***************************************************************************)
THEOREM NodesLeadHome == Spec => []NodesReachOwnDevice
<1>1. Init => NodesInv /\ BarsInv
  BY OrderEmpty DEF Init, NodesInv, BarsInv
<1>2. NodesInv /\ BarsInv => NodesReachOwnDevice
  <2> SUFFICES ASSUME NodesInv, BarsInv PROVE NodesReachOwnDevice
    OBVIOUS
  <2>1. \A d \in Devices : "bars" \in held[d] =>
          BarRule(hw[d].layout) /\ ConfigPos(hw[d].layout) # {}
    BY BoardsAssumption DEF BarsInv
  <2>2. BarsIdentified
    BY <2>1, BarsFound DEF BarsIdentified
  <2>3. QED BY <2>2, FindsItself DEF NodesReachOwnDevice
<1>3. HeldInv /\ NodesInv /\ BarsInv /\ [Next]_vars => (HeldInv /\ NodesInv /\ BarsInv)'
  BY HeldInvStep, NodesInvStep, BarsInvStep DEF HeldInv
<1>4. QED BY <1>1, <1>2, <1>3, HeldInvInit, PTL DEF Spec

(***************************************************************************)
(* Types of the variables that no other invariant speaks of.               *)
(***************************************************************************)
ModType ==
  /\ mod \in {"out", "init", "in", "exit"}
  /\ mishap \subseteq {"probe", "in_use", "c2h", "sysfs"}
  /\ ghosts \subseteq Devices

UserType ==
  /\ work \in Devices \cup {None, Dangling}
  /\ stale \in [Files -> {"no", "rmmod", "unplug", "probe"}]

InstanceType == instance \in [Devices -> (0 .. Slots - 1) \cup {None}]

LEMMA ModTypeStep == ModType /\ [Next]_vars => ModType'
<1> SUFFICES ASSUME ModType, [Next]_vars PROVE ModType'
  OBVIOUS
<1> USE DEF ModType
<1>1. CASE Insmod \/ ClearPresent \/ Rmmod \/ Removed \/ RunWork \/ UNCHANGED vars
  BY <1>1 DEF Insmod, ClearPresent, Rmmod, Removed, RunWork, vars
<1>2. ASSUME NEW d \in Devices,
             Interrupt(d) \/ (\E f \in Files : Open(f, d)) \/ Probing(d) \/ ProbeH2C(d)
               \/ CreateNode(d) \/ CreateNodeFails(d) \/ RemoveInterfaces(d)
               \/ EnableInterrupts(d) \/ RemoveHollow(d) \/ UndoEngines(d) \/ Undo(d)
               \/ DisableDevice(d)
      PROVE  ModType'
  <2>1. UNCHANGED <<mod, mishap, ghosts>>
    BY <1>2 DEF Interrupt, Open, Probing, AllocDevInstance, EnableDevice, ProbeScanForMsi,
       MapBars, SetDmaMask, IrqSetup, ProbeH2C, CreateNode, CreateNodeFails,
       RemoveInterfaces, EnableInterrupts, RemoveHollow, UndoEngines, Undo, DisableDevice
  <2>2. QED BY <2>1
<1>3. ASSUME NEW d \in Devices,
             RequestRegions(d) \/ ProbeC2H(d) \/ CreateSysfs(d) \/ ProbeBegin(d)
               \/ RemoveBegin(d)
      PROVE  ModType'
  BY <1>3 DEF RequestRegions, ProbeC2H, CreateSysfs, ProbeBegin, RemoveBegin
<1>4. ASSUME NEW d \in Devices, FreeDev(d) PROVE ModType'
  BY <1>4 DEF FreeDev
<1>5. ASSUME NEW f \in Files, Close(f) PROVE ModType'
  BY <1>5 DEF Close
<1>6. QED BY <1>1, <1>2, <1>3, <1>4, <1>5, NextByPart DEF Elsewhere, Unwinding

LEMMA UserTypeStep == UserType /\ [Next]_vars => UserType'
<1> SUFFICES ASSUME UserType, [Next]_vars PROVE UserType'
  OBVIOUS
<1> USE DEF UserType
<1>1. CASE Insmod \/ ClearPresent \/ Rmmod \/ Removed \/ RunWork \/ UNCHANGED vars
  BY <1>1 DEF Insmod, ClearPresent, Rmmod, Removed, RunWork, vars, file_vars
<1>2. ASSUME NEW d \in Devices, Interrupt(d) PROVE UserType'
  BY <1>2 DEF Interrupt, file_vars
<1>3. ASSUME NEW d \in Devices, NEW f \in Files, Open(f, d) PROVE UserType'
  BY <1>3 DEF Open
<1>4. ASSUME NEW f \in Files, Close(f) PROVE UserType'
  BY <1>4 DEF Close
<1>5. ASSUME NEW d \in Devices,
             CreateNodeFails(d) \/ RemoveInterfaces(d) \/ FreeDev(d)
      PROVE  UserType'
  <2>1. work' = work /\ Orphan(d)
    BY <1>5 DEF CreateNodeFails, RemoveInterfaces, FreeDev, DestroyInterfaces
  <2>2. Cause(d) \in {"rmmod", "unplug", "probe"}
    BY DEF Cause
  <2>3. QED BY <2>1, <2>2 DEF Orphan
<1>6. ASSUME NEW d \in Devices, ProbeH2C(d) \/ UndoEngines(d) PROVE UserType'
  <2>1. UNCHANGED stale /\ work' \in {work, Dangling}
    BY <1>6 DEF ProbeH2C, UndoEngines, RemoveEngines, file_vars
  <2>2. QED BY <2>1
<1>7. ASSUME NEW d \in Devices,
             Probing(d) \/ RequestRegions(d) \/ ProbeC2H(d) \/ CreateNode(d)
               \/ EnableInterrupts(d) \/ CreateSysfs(d) \/ ProbeBegin(d) \/ RemoveBegin(d)
               \/ RemoveHollow(d) \/ Undo(d) \/ DisableDevice(d)
      PROVE  UserType'
  <2>1. UNCHANGED <<work, stale>>
    BY <1>7 DEF Probing, AllocDevInstance, EnableDevice, ProbeScanForMsi, MapBars,
       SetDmaMask, IrqSetup, RequestRegions, ProbeC2H, CreateNode, EnableInterrupts,
       CreateSysfs, ProbeBegin, RemoveBegin, RemoveHollow, Undo, DisableDevice, file_vars
  <2>2. QED BY <2>1
<1>8. QED
  BY <1>1, <1>2, <1>3, <1>4, <1>5, <1>6, <1>7, NextByPart DEF Elsewhere, Unwinding

LEMMA InstanceTypeStep == InstanceType /\ [Next]_vars => InstanceType'
<1> SUFFICES ASSUME InstanceType, [Next]_vars PROVE InstanceType'
  OBVIOUS
<1>1. instance' = instance => InstanceType'
  BY DEF InstanceType
<1>2. CASE Insmod \/ ClearPresent \/ Rmmod \/ Removed \/ RunWork \/ UNCHANGED vars
  BY <1>1, <1>2 DEF Insmod, ClearPresent, Rmmod, Removed, RunWork, vars, soft_vars
<1>3. ASSUME NEW d \in Devices, CreateNode(d) \/ CreateNodeFails(d) PROVE InstanceType'
  <2>1. \/ instance' = instance
        \/ FreeSlots # {} /\ instance' = [instance EXCEPT ![d] = FirstFreeSlot]
    BY <1>3 DEF CreateNode, CreateNodeFails, ClaimSlot
  <2>2. FreeSlots # {} => FirstFreeSlot \in 0 .. Slots - 1
    BY FreeSlotFound DEF FreeSlots
  <2>3. QED BY <2>1, <2>2 DEF InstanceType
<1>4. ASSUME NEW d \in Devices, FreeDev(d) PROVE InstanceType'
  BY <1>4 DEF FreeDev, InstanceType
<1>5. ASSUME NEW d \in Devices,
             Interrupt(d) \/ (\E f \in Files : Open(f, d)) \/ Probing(d) \/ ProbeH2C(d)
               \/ RequestRegions(d) \/ ProbeC2H(d) \/ CreateSysfs(d) \/ ProbeBegin(d)
               \/ RemoveBegin(d) \/ RemoveInterfaces(d) \/ EnableInterrupts(d)
               \/ RemoveHollow(d) \/ UndoEngines(d) \/ Undo(d) \/ DisableDevice(d)
      PROVE  InstanceType'
  <2>1. UNCHANGED instance
    BY <1>5 DEF Interrupt, Open, Probing, AllocDevInstance, EnableDevice, ProbeScanForMsi,
       MapBars, SetDmaMask, IrqSetup, ProbeH2C, RequestRegions, ProbeC2H, CreateSysfs,
       ProbeBegin, RemoveBegin, RemoveInterfaces, EnableInterrupts, RemoveHollow,
       UndoEngines, Undo, DisableDevice, soft_vars
  <2>2. QED BY <1>1, <2>1
<1>6. ASSUME NEW f \in Files, Close(f) PROVE InstanceType'
  BY <1>1, <1>6 DEF Close, soft_vars
<1>7. QED BY <1>2, <1>3, <1>4, <1>5, <1>6, NextByPart DEF Elsewhere, Unwinding

\* An unbound device holds nothing, by the account of what is held where.
LEMMA UnboundHoldsNothing ==
  ASSUME HeldInv, NEW d \in Devices, pc[d] = "unbound"
  PROVE  held[d] = {}
<1>1. Accounted(held[d], "unbound", mishap, nodes[d] # <<>>, engine[d])
  BY DEF HeldInv, AccountedFor
<1>2. held[d] \subseteq Resources
  BY DEF HeldInv, DeviceType
<1>3. \A r \in Resources : r \notin held[d]
  <2>1. /\ "unbound" \notin WithDevice /\ "unbound" \notin WithMsi
        /\ "unbound" \notin WithRegions /\ "unbound" \notin WithBars
        /\ "unbound" \notin WithIrq /\ "unbound" \notin WithEngines
        /\ "unbound" \notin Err /\ "unbound" \notin ErrTail /\ "unbound" \notin Rm
        /\ "unbound" \in Early
    BY DEF WithDevice, WithMsi, WithRegions, WithBars, WithIrq, WithEngines, Err, ErrTail,
           Rm, Early
  <2>2. "lro" \notin held[d] /\ "device" \notin held[d] /\ "msix" \notin held[d]
        /\ "msi" \notin held[d] /\ "regions" \notin held[d]
    BY <1>1, <2>1 DEF Accounted
  <2>3. "regions_in_use" \notin held[d] /\ "bars" \notin held[d] /\ "irq" \notin held[d]
        /\ "ints" \notin held[d] /\ "sysfs" \notin held[d] /\ "minors" \notin held[d]
    BY <1>1, <2>1 DEF Accounted
  <2>4. \A r \in Engines \cup EngineIrqs : r \notin held[d]
    BY <1>1, <2>1 DEF Accounted
  <2>5. QED BY <2>2, <2>3, <2>4 DEF Resources
<1>4. QED BY <1>2, <1>3

(***************************************************************************)
(* Through every probe, failure and remove the variables keep their types: *)
(* instance numbers stay below MAX_XDMA_DEVICES, what a device holds is    *)
(* among the resources it can be given, and an unbound device holds none.  *)
(***************************************************************************)
THEOREM DeviceTypeCorrect == Spec => []TypeOK
<1> DEFINE Inv == /\ HeldInv /\ UnwindLeaves /\ FileInv /\ SlotInv
                  /\ NodesInv /\ ModType /\ UserType /\ InstanceType
<1>1. Init => Inv
  <2> SUFFICES ASSUME Init PROVE Inv
    OBVIOUS
  <2>1. HeldInv
    BY HeldInvInit
  <2>2. UnwindLeaves /\ FileInv /\ SlotInv
    BY DEF Init, UnwindLeaves, FileInv, FilesSurviveRmmod, SlotInv, SlotsExclusive
  <2>3. NodesInv /\ ModType /\ UserType /\ InstanceType
    BY OrderEmpty DEF Init, NodesInv, ModType, UserType, InstanceType
  <2>4. QED BY <2>1, <2>2, <2>3
<1>2. Inv /\ [Next]_vars => Inv'
  BY HeldInvStep, UnwindStep, FileInvStep, SlotInvStep, NodesInvStep, ModTypeStep,
     UserTypeStep, InstanceTypeStep DEF HeldInv
<1>3. Inv => TypeOK
  <2> SUFFICES ASSUME Inv PROVE TypeOK
    OBVIOUS
  <2>1. \A d \in Devices :
          /\ held[d] \subseteq Resources
          /\ pc[d] = "unbound" => held[d] = {}
          /\ engine[d] \subseteq Engines
          /\ nodes[d] \in Seq(NodeTypes)
          /\ instance[d] \in (0 .. Slots - 1) \cup {None}
    BY UnboundHoldsNothing DEF HeldInv, DeviceType, NodesInv, InOrder, InstanceType
  <2>2. leftover \subseteq Resources \cup {"nodes", "slot"}
    BY DEF UnwindLeaves, Resources
  <2>3. \A f \in Files : /\ file[f] \in Devices \cup {None}
                         /\ stale[f] \in {"no", "rmmod", "unplug", "probe"}
    BY DEF FileInv, UserType
  <2>4. /\ mod \in {"out", "init", "in", "exit"}
        /\ mishap \subseteq {"probe", "in_use", "c2h", "sysfs"}
        /\ ghosts \subseteq Devices
        /\ work \in Devices \cup {None, Dangling}
        /\ dev_present \in [0 .. Slots - 1 -> BOOLEAN]
    BY DEF ModType, UserType, SlotInv
  <2>5. QED BY <2>1, <2>2, <2>3, <2>4 DEF TypeOK
<1> HIDE DEF Inv
<1>4. QED BY <1>1, <1>2, <1>3, PTL DEF Spec
=============================================================================
