---------------------------- MODULE DriverModel ----------------------------
(***************************************************************************)
(* The device and driver registry (core/driver.c), the PCI scan that fills *)
(* it (core/pci.c), and the drivers' probes (virtio.c, audio.c,            *)
(* dummy_pci.c).  Registering a device walks the drivers and registering a *)
(* driver walks the devices; a probe runs inside such a walk and may       *)
(* register a device itself, so walks nest and the lists grow under a walk *)
(* that is under way.  The calls in progress are the stack.                *)
(*                                                                         *)
(* A device is told apart by its kind: what the match functions see of it. *)
(* Every kmalloc may fail.                                                 *)
(***************************************************************************)
EXTENDS Integers, Sequences, FiniteSets

CONSTANTS
    Slots,      \* bus and slot numbers scanned: 256 * 32 in the code
    Functions,  \* functions of a slot: 8 in the code
    Configs     \* the machines considered: what is in each slot and function

VARIABLES
    config,          \* the machine: kind of each function, "none" if absent
    ready,           \* driver_model_ready
    buses,           \* the buses registered
    drivers,         \* driver_driver_list: driver names
    devices,         \* driver_device_list
    bound_count,     \* driver_bound_count_value
    block_list,      \* block_device_list: the registry index of each device
    transport_count, \* virtio_transport_bound_count_value
    logical_count,   \* virtio_logical_device_count_value
    blk_count,       \* virtio_blk_bound_count_value
    audio_count,     \* audio_bound_device_count_value
    ac97,            \* audio_ac97_state
    pci_count,       \* pci_device_count_value
    stack,           \* registrations under way, the innermost last
    scan,            \* the next function pci_init looks at
    missed           \* functions not registered for want of memory

registry == <<ready, buses, drivers, devices, bound_count>>
counts   == <<block_list, transport_count, logical_count, blk_count,
              audio_count, ac97>>
vars     == <<config, registry, counts, pci_count, stack, scan,
              missed>>

PciKinds    == {"block", "net", "virtiosound", "ac97", "sound", "dummy",
                "other"}
Kinds       == PciKinds \cup {"none"}
DriverNames == {"virtio-pci", "virtio-blk", "audio-pci", "dummy-pci"}

NoController == [detected |-> FALSE, at |-> <<0, 0>>, controller_ready |-> FALSE,
                 pcm_ready |-> FALSE]

ASSUME DriverModelAssumption ==
    /\ Slots \in Nat \ {0}
    /\ Functions \in Nat \ {0}
    /\ Configs \subseteq
          [kind : [(0 .. Slots - 1) \X (0 .. Functions - 1) -> Kinds],
           multi : [0 .. Slots - 1 -> BOOLEAN]]

\* After driver_model_init, which registers the two built-in buses if it can.
Init ==
    /\ config \in Configs
    /\ \E n \in 0 .. 2 :
          /\ buses = SubSeq(<<"PCI", "VIRTIO">>, 1, n)
          /\ ready = (n = 2)
    /\ drivers = <<>> /\ devices = <<>>
    /\ bound_count = 0
    /\ block_list = <<>>
    /\ transport_count = 0 /\ logical_count = 0 /\ blk_count = 0
    /\ audio_count = 0 /\ ac97 = NoController /\ pci_count = 0
    /\ stack = <<>>
    /\ scan = [slot |-> 0, function |-> 0]
    /\ missed = {}

-----------------------------------------------------------------------------
(* Matching and binding. *)

Bus(driver) == IF driver = "virtio-blk" THEN "VIRTIO" ELSE "PCI"

\* The match functions.  A virtio sound card has virtio's vendor number and the
\* multimedia class: two drivers want it.
VirtioPciWants == {"block", "net", "virtiosound"}
VirtioBlkWants == {"block"}
AudioPciWants  == {"ac97", "sound", "virtiosound"}
DummyPciWants  == {"dummy"}

Wanted(driver) ==
    CASE driver = "virtio-pci" -> VirtioPciWants
      [] driver = "virtio-blk" -> VirtioBlkWants
      [] driver = "audio-pci"  -> AudioPciWants
      [] driver = "dummy-pci"  -> DummyPciWants

\* driver_device_matches and the drivers' match functions
Matches(driver, device) ==
    Bus(driver) = device.bus /\ device.kind \in Wanted(driver)

NewDevice(kind, bus, at) ==
    [kind |-> kind, bus |-> bus, driver |-> 0, probes |-> 0, at |-> at]

Walk(op, node) == [op |-> op, node |-> node, cursor |-> 1]

\* driver_register_device up to its walk over the drivers
StartDevice(list, kind, bus, at, calls) ==
    /\ devices' = Append(list, NewDevice(kind, bus, at))
    /\ stack' = Append(calls, Walk("device", Len(list) + 1))

\* virtio_pci_probe and virtio_register_logical_device, on device i of list:
\* the logical device is registered, unless there is no memory for it.
VirtioPciProbe(i, list, calls) ==
    /\ transport_count' = transport_count + 1
    /\ \/ StartDevice(list, list[i].kind, "VIRTIO", list[i].at, calls)
       \/ devices' = list /\ stack' = calls
    /\ UNCHANGED <<block_list, logical_count, blk_count, audio_count, ac97>>

\* block_register_device, which may find no memory
BlockRegister(i) ==
    \/ block_list' = Append(block_list, i)
    \/ UNCHANGED block_list

\* virtio_blk_probe: without memory for its state it gives up.
VirtioBlkProbe(i, list, calls) ==
    /\ \/ blk_count' = blk_count + 1 /\ BlockRegister(i)
       \/ UNCHANGED <<blk_count, block_list>>
    /\ devices' = list /\ stack' = calls
    /\ UNCHANGED <<transport_count, logical_count, audio_count, ac97>>

\* Mutant: the controller found last is the one used.
MutAc97TryInitLast(device) ==
    IF device.kind # "ac97" THEN UNCHANGED ac97
    ELSE \E bars, pcm \in BOOLEAN :
            ac97' = [detected |-> TRUE, at |-> device.at,
                     controller_ready |-> bars, pcm_ready |-> bars /\ pcm]

\* audio_ac97_try_init: the first AC'97 controller is taken, whether or not its
\* I/O bars and the playback buffer can be had.
Ac97TryInit(device) ==
    IF ac97.detected \/ device.kind # "ac97" THEN UNCHANGED ac97
    ELSE \E bars, pcm \in BOOLEAN :
            ac97' = [detected |-> TRUE, at |-> device.at,
                     controller_ready |-> bars, pcm_ready |-> bars /\ pcm]

AudioPciProbe(i, list, calls) ==
    /\ audio_count' = audio_count + 1
    /\ Ac97TryInit(list[i])
    /\ devices' = list /\ stack' = calls
    /\ UNCHANGED <<block_list, transport_count, logical_count, blk_count>>

DummyPciProbe(list, calls) ==
    devices' = list /\ stack' = calls /\ UNCHANGED counts

\* The probe of driver d on device i, which is bound to it in list
Probe(d, i, list, calls) ==
    \/ d = "virtio-pci" /\ VirtioPciProbe(i, list, calls)
    \/ d = "virtio-blk" /\ VirtioBlkProbe(i, list, calls)
    \/ d = "audio-pci" /\ AudioPciProbe(i, list, calls)
    \/ d = "dummy-pci" /\ DummyPciProbe(list, calls)

Top == stack[Len(stack)]

TopIn(list) == Top.cursor <= Len(list)

\* The device and the driver the innermost walk has come to
TopDevice == IF Top.op = "device" THEN Top.node ELSE Top.cursor
TopDriver == IF Top.op = "device" THEN Top.cursor ELSE Top.node

Advanced == [stack EXCEPT ![Len(stack)].cursor = @ + 1]

WalkGoesOn ==
    /\ stack # <<>>
    /\ TopIn(IF Top.op = "device" THEN drivers ELSE devices)

Bindable(i, d) == devices[i].driver = 0 /\ Matches(drivers[d], devices[i])

\* driver_try_bind finds nothing to do.
TryBindSkips ==
    /\ WalkGoesOn
    /\ ~Bindable(TopDevice, TopDriver)
    /\ stack' = Advanced
    /\ UNCHANGED <<config, registry, counts, pci_count, scan, missed>>

\* driver_try_bind binds, counts and probes.
TryBind ==
    /\ WalkGoesOn
    /\ Bindable(TopDevice, TopDriver)
    /\ bound_count' = bound_count + 1
    /\ Probe(drivers[TopDriver], TopDevice,
             [devices EXCEPT ![TopDevice].driver = TopDriver,
                             ![TopDevice].probes = @ + 1],
             Advanced)
    /\ UNCHANGED <<config, ready, buses, drivers, pci_count, scan, missed>>

\* A walk is over: its caller counts the device.
WalkReturns ==
    /\ stack # <<>>
    /\ ~WalkGoesOn
    /\ stack' = SubSeq(stack, 1, Len(stack) - 1)
    /\ LET registered == Top.op = "device"
           child == registered /\ devices[Top.node].bus = "VIRTIO"
       IN  /\ logical_count' = IF child THEN logical_count + 1 ELSE logical_count
           /\ pci_count' = IF registered /\ ~child THEN pci_count + 1 ELSE pci_count
    /\ UNCHANGED <<config, registry, block_list, transport_count, blk_count,
                   audio_count, ac97, scan, missed>>

-----------------------------------------------------------------------------
(* The callers. *)

\* Mutant: a new driver is not shown the devices that are there already.
MutRegisterDriverNoWalk(name) ==
    /\ stack = <<>>
    /\ ready
    /\ name \notin {drivers[k] : k \in 1 .. Len(drivers)}
    /\ drivers' = Append(drivers, name)
    /\ UNCHANGED <<config, ready, buses, devices, bound_count, counts,
                   pci_count, stack, scan, missed>>

\* driver_register_driver, from virtio_init, audio_init and
\* dummy_pci_register_example_driver; without memory nothing happens.
RegisterDriver(name) ==
    /\ stack = <<>>
    /\ ready
    /\ name \notin {drivers[k] : k \in 1 .. Len(drivers)}
    /\ drivers' = Append(drivers, name)
    /\ stack' = <<Walk("driver", Len(drivers) + 1)>>
    /\ UNCHANGED <<config, ready, buses, devices, bound_count, counts,
                   pci_count, scan, missed>>

NextSlot == [slot |-> scan.slot + 1, function |-> 0]

\* Where pci_scan_slot goes after a function that it has looked at
AfterFunction ==
    IF scan.function + 1 < Functions /\ config.multi[scan.slot]
    THEN [scan EXCEPT !.function = @ + 1] ELSE NextSlot

Here == config.kind[<<scan.slot, scan.function>>]

\* pci_scan_slot and pci_register_function on an absent function: an empty slot
\* is left at once.
ScanAbsent ==
    /\ stack = <<>>
    /\ scan.slot < Slots
    /\ Here = "none"
    /\ scan' = IF scan.function = 0 THEN NextSlot ELSE AfterFunction
    /\ UNCHANGED <<config, registry, counts, pci_count, stack, missed>>

\* On a function that is there: it is registered, if there is memory and the
\* driver model is up.
ScanPresent(allocated) ==
    /\ stack = <<>>
    /\ scan.slot < Slots
    /\ Here # "none"
    /\ IF ready /\ allocated
       THEN /\ StartDevice(devices, Here, "PCI", <<scan.slot, scan.function>>, stack)
            /\ UNCHANGED missed
       ELSE /\ missed' = missed \cup {<<scan.slot, scan.function>>}
            /\ UNCHANGED <<devices, stack>>
    /\ scan' = AfterFunction
    /\ UNCHANGED <<config, ready, buses, drivers, bound_count, counts, pci_count>>

Next ==
    \/ TryBindSkips
    \/ TryBind
    \/ WalkReturns
    \/ \E d \in DriverNames : RegisterDriver(d)
    \/ ScanAbsent
    \/ \E allocated \in BOOLEAN : ScanPresent(allocated)

Spec == Init /\ [][Next]_vars

-----------------------------------------------------------------------------
DeviceIds == 1 .. Len(devices)

\* The types, a part of BoundToFirstMatch.  A registration nests in another at
\* most once, so its use of the boot stack is bounded.
TypeOK ==
    /\ config \in Configs
    /\ ready \in BOOLEAN
    /\ buses \in {<<>>, <<"PCI">>, <<"PCI", "VIRTIO">>}
    /\ drivers \in Seq(DriverNames)
    /\ \A i \in DeviceIds :
          devices[i] \in [kind : PciKinds, bus : {"PCI", "VIRTIO"},
                          driver : 0 .. Len(drivers), probes : Nat,
                          at : DOMAIN config.kind]
    /\ \A k \in 1 .. Len(block_list) : block_list[k] \in DeviceIds
    /\ {bound_count, transport_count, logical_count, blk_count, audio_count,
        pci_count} \subseteq Nat
    /\ ac97 \in [detected : BOOLEAN, at : DOMAIN config.kind \cup {<<0, 0>>},
                controller_ready : BOOLEAN, pcm_ready : BOOLEAN]
    /\ Len(stack) <= 2
    /\ \A k \in 1 .. Len(stack) :
          stack[k] \in [op : {"device", "driver"}, node : Nat, cursor : Nat]
    /\ scan \in [slot : 0 .. Slots, function : 0 .. (Functions - 1)]
    /\ missed \subseteq DOMAIN config.kind

\* Whatever the order in which drivers and devices come, and although probes
\* register devices in the middle of a walk: when no registration is under way,
\* each device is bound to the first registered driver that matches it, and is
\* unbound only if none does.  At no time has a device been probed twice, by one
\* driver or by two, and the bound count is the number of devices with a driver
\* (driver_try_bind).
BoundToFirstMatch ==
    /\ TypeOK
    /\ \A i \in DeviceIds :
          devices[i].probes = IF devices[i].driver = 0 THEN 0 ELSE 1
    /\ bound_count = Cardinality({i \in DeviceIds : devices[i].driver # 0})
    /\ stack = <<>> =>
          \A i \in DeviceIds :
              LET fit == {d \in 1 .. Len(drivers) : Matches(drivers[d], devices[i])}
              IN  IF fit = {} THEN devices[i].driver = 0
                  ELSE devices[i].driver \in fit
                       /\ \A d \in fit : devices[i].driver <= d

ByDriver(name) ==
    {i \in DeviceIds : devices[i].driver # 0 /\ drivers[devices[i].driver] = name}

\* Every logical device belongs to one bound virtio transport, which has no
\* other; the block devices are distinct logical devices bound to virtio-blk;
\* the AC'97 state is that of the first controller bound, which a second one does
\* not disturb; and, between registrations, the counters agree with the lists.
CountersAgree ==
    LET logical == {i \in DeviceIds : devices[i].bus = "VIRTIO"}
        ac97s   == {i \in ByDriver("audio-pci") : devices[i].kind = "ac97"}
    IN  /\ \A i \in logical :
              /\ \E j \in ByDriver("virtio-pci") : devices[j].at = devices[i].at
              /\ \A j \in logical \ {i} : devices[i].at # devices[j].at
        /\ \A k \in 1 .. Len(block_list) :
              /\ block_list[k] \in ByDriver("virtio-blk")
              /\ \A l \in 1 .. (k - 1) : block_list[l] # block_list[k]
        /\ Len(block_list) <= blk_count
        /\ transport_count = Cardinality(ByDriver("virtio-pci"))
        /\ audio_count = Cardinality(ByDriver("audio-pci"))
        /\ IF ac97s = {} THEN ac97 = NoController
           ELSE /\ ac97.detected
                /\ \E i \in ac97s : /\ ac97.at = devices[i].at
                                    /\ \A j \in ac97s : i <= j
        /\ stack = <<>> =>
              /\ logical_count = Cardinality(logical)
              /\ pci_count = Len(devices) - Cardinality(logical)

\* A function is there for the scan if its slot has a function 0 and, unless it
\* is that one, the slot is multi-function.
Reachable ==
    {p \in DOMAIN config.kind :
        /\ config.kind[p] # "none"
        /\ config.kind[<<p[1], 0>>] # "none"
        /\ p[2] = 0 \/ config.multi[p[1]]}

\* The scan registers each function that is there once, wherever the function 0
\* and the multi-function bit make it look, and misses one only for want of
\* memory.
ScanFindsAll ==
    LET pci == {i \in DeviceIds : devices[i].bus = "PCI"}
    IN  /\ \A i, j \in pci : devices[i].at = devices[j].at => i = j
        /\ {devices[i].at : i \in pci} \cup missed =
              {p \in Reachable :
                  \/ p[1] < scan.slot
                  \/ p[1] = scan.slot /\ p[2] < scan.function}

\* What the kernel reports of its devices is true: the counters and the lists of
\* the drivers agree with the registry, and the registry with the machine
\* (virtio_pci_probe, virtio_blk_probe, audio_ac97_try_init, pci_scan_slot).
RegistryAgrees == CountersAgree /\ ScanFindsAll
=============================================================================
