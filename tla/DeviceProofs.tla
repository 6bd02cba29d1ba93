---------------------------- MODULE DeviceProofs ----------------------------
(***************************************************************************)
(* The registry of devices and drivers, for every machine: any number of   *)
(* slots and functions, whatever is in them.  The walks of a registration  *)
(* nest, and the lists they walk grow under them; the inductive invariant  *)
(* says which pairs of a device and a driver a walk has still to come to.  *)
(* Then what the kernel reports of its devices: the scan of the PCI slots, *)
(* the lists and the counters of the drivers.  Last the sounds, for all    *)
(* lengths of notes and tones: what is on, and for how long.               *)
(***************************************************************************)
EXTENDS Sound, Arithmetic, FiniteSetTheorems, TLAPS

-----------------------------------------------------------------------------
(* The inductive invariant *)

Places == (0 .. Slots - 1) \X (0 .. Functions - 1)

DriverIds == 1 .. Len(drivers)
CallIds   == 1 .. Len(stack)

Device == [kind : PciKinds, bus : {"PCI", "VIRTIO"}, driver : Nat, probes : Nat,
           at : Places]
Call   == [op : {"device", "driver"}, node : Nat, cursor : Nat]

Controller == [detected : BOOLEAN, at : Places \cup {<<0, 0>>},
               controller_ready : BOOLEAN, pcm_ready : BOOLEAN]

Types ==
    /\ config \in Configs
    /\ ready \in BOOLEAN
    /\ buses \in {<<>>, <<"PCI">>, <<"PCI", "VIRTIO">>}
    /\ drivers \in Seq(DriverNames)
    /\ devices \in Seq(Device)
    /\ \A i \in DeviceIds : devices[i].driver <= Len(drivers)
    /\ block_list \in Seq(Nat)
    /\ \A k \in 1 .. Len(block_list) : block_list[k] \in DeviceIds
    /\ bound_count \in Nat /\ transport_count \in Nat /\ logical_count \in Nat
    /\ blk_count \in Nat /\ audio_count \in Nat /\ pci_count \in Nat
    /\ ac97 \in Controller
    /\ stack \in Seq(Call)
    /\ scan \in [slot : 0 .. Slots, function : 0 .. (Functions - 1)]
    /\ missed \subseteq Places

\* A walk for a driver, or for a PCI device, is the outer one; a walk for a logical
\* device is the inner one.  The driver that walks is the last one registered.
Calls ==
    /\ Len(stack) <= 2
    /\ \A k \in CallIds :
          /\ stack[k].cursor >= 1
          /\ stack[k].op = "device" =>
                /\ stack[k].node \in DeviceIds
                /\ devices[stack[k].node].bus = IF k = 1 THEN "PCI" ELSE "VIRTIO"
          /\ stack[k].op = "driver" =>
                /\ k = 1
                /\ stack[k].node \in DriverIds
                /\ stack[k].node = Len(drivers)

Fits(d, i) == Matches(drivers[d], devices[i])

\* Some walk has still to come to device i and driver d.
Pending(i, d) ==
    \E k \in CallIds :
        \/ stack[k].op = "device" /\ stack[k].node = i /\ stack[k].cursor <= d
        \/ stack[k].op = "driver" /\ stack[k].node = d /\ stack[k].cursor <= i

\* A device has the first driver that fits, or every driver that fits is ahead of
\* a walk.
Bindings ==
    \A i \in DeviceIds :
        /\ devices[i].probes = IF devices[i].driver = 0 THEN 0 ELSE 1
        /\ devices[i].driver = 0 =>
              \A d \in DriverIds : Fits(d, i) => Pending(i, d)
        /\ devices[i].driver # 0 =>
              /\ Fits(devices[i].driver, i)
              /\ \A d \in DriverIds : Fits(d, i) => devices[i].driver <= d

BoundIds == {i \in DeviceIds : devices[i].driver # 0}

Inductive == Types /\ Calls /\ Bindings /\ bound_count = Cardinality(BoundIds)

-----------------------------------------------------------------------------
\* A list is known by its length and its items, and is its own longest prefix.
LEMMA SameList ==
    ASSUME NEW T, NEW p \in Seq(T), NEW q \in Seq(T), Len(p) = Len(q),
           \A k \in 1 .. Len(p) : p[k] = q[k]
    PROVE  p = q
OBVIOUS

\* A list is the whole of itself.
LEMMA WholeList ==
    ASSUME NEW T, NEW p \in Seq(T)
    PROVE  SubSeq(p, 1, Len(p)) = p
OBVIOUS

\* A step that leaves the lists and the walks alone leaves the bindings alone.
LEMMA WalksKept ==
    ASSUME Inductive, UNCHANGED <<drivers, devices, stack, bound_count>>
    PROVE  Calls' /\ Bindings' /\ (bound_count = Cardinality(BoundIds))'
<1>1. Calls /\ Bindings /\ bound_count = Cardinality(BoundIds)
  BY Zenon DEF Inductive
<1>2. DeviceIds' = DeviceIds /\ DriverIds' = DriverIds /\ CallIds' = CallIds
  BY Zenon DEF DeviceIds, DriverIds, CallIds
<1>3. Calls'
  BY <1>1, <1>2, Zenon DEF Calls
<1>4. Bindings'
  BY <1>1, <1>2 DEF Bindings, Pending, Fits
<1>5. BoundIds' = BoundIds
  BY <1>2, Zenon DEF BoundIds
<1> QED BY <1>1, <1>3, <1>4, <1>5, Zenon

\* What a configuration of the machine is made of.
LEMMA Machine ==
    ASSUME config \in Configs
    PROVE  /\ Slots \in Nat \ {0} /\ Functions \in Nat \ {0}
           /\ config.kind \in [Places -> Kinds] /\ DOMAIN config.kind = Places
           /\ config.multi \in [0 .. Slots - 1 -> BOOLEAN]
BY DriverModelAssumption, Zenon DEF Places

\* The empty registry satisfies the invariant.
LEMMA InductiveInit == Init => Inductive
<1> SUFFICES ASSUME Init PROVE Inductive
  BY Zenon
<1>1. config \in Configs /\ Slots \in Nat \ {0} /\ Functions \in Nat \ {0}
  BY DriverModelAssumption, Zenon DEF Init
<1>2. PICK n \in 0 .. 2 : /\ buses = SubSeq(<<"PCI", "VIRTIO">>, 1, n)
                          /\ ready = (n = 2)
  BY Zenon DEF Init
<1>3. buses \in {<<>>, <<"PCI">>, <<"PCI", "VIRTIO">>} /\ ready \in BOOLEAN
  <2> DEFINE both == <<"PCI", "VIRTIO">>
  <2>1. both \in Seq({"PCI", "VIRTIO"}) /\ Len(both) = 2
    OBVIOUS
  <2>2. CASE n = 0
    BY <1>2, <2>2
  <2>3. CASE n = 1
    <3>1. /\ SubSeq(both, 1, 1) \in Seq({"PCI", "VIRTIO"})
          /\ Len(SubSeq(both, 1, 1)) = 1
          /\ SubSeq(both, 1, 1)[1] = "PCI"
      BY <2>1
    <3>2. <<"PCI">> \in Seq({"PCI", "VIRTIO"}) /\ Len(<<"PCI">>) = 1
      OBVIOUS
    <3>3. \A i \in 1 .. 1 : SubSeq(both, 1, 1)[i] = <<"PCI">>[i]
      BY <3>1
    <3> HIDE DEF both
    <3>4. SubSeq(both, 1, 1) = <<"PCI">>
      BY <3>1, <3>2, <3>3, SameList, Zenon
    <3> QED BY <1>2, <2>3, <3>4, Zenon DEF both
  <2>4. CASE n = 2
    <3>1. SubSeq(both, 1, 2) = both
      BY <2>1, WholeList, Zenon
    <3> QED BY <1>2, <2>4, <3>1, Zenon
  <2> QED BY <1>2, <2>2, <2>3, <2>4
<1>4. ac97 \in Controller
  BY Zenon DEF Init, NoController, Controller
<1>5. scan \in [slot : 0 .. Slots, function : 0 .. (Functions - 1)]
  BY <1>1 DEF Init
<1>6. Types
  BY <1>1, <1>3, <1>4, <1>5 DEF Init, Types, DeviceIds
<1>7. Calls /\ Bindings
  BY DEF Init, Calls, Bindings, DeviceIds, CallIds
<1>8. BoundIds = {}
  BY DEF Init, BoundIds, DeviceIds
<1>9. bound_count = Cardinality(BoundIds)
  BY <1>8, FS_EmptySet, Zenon DEF Init
<1> QED BY <1>6, <1>7, <1>9, Zenon DEF Inductive

\* When no walk is under way nothing is pending, so the binding is final.
LEMMA InductiveEnough == Inductive => BoundToFirstMatch
<1> SUFFICES ASSUME Inductive PROVE BoundToFirstMatch
  BY Zenon
<1>1. DOMAIN config.kind = Places
  BY Machine, Zenon DEF Inductive, Types
<1>2. \A i \in DeviceIds : devices[i] \in Device /\ devices[i].driver <= Len(drivers)
  BY DEF Inductive, Types, DeviceIds
<1>3. \A i \in DeviceIds :
          devices[i] \in [kind : PciKinds, bus : {"PCI", "VIRTIO"},
                          driver : 0 .. Len(drivers), probes : Nat,
                          at : DOMAIN config.kind]
  <2>1. Len(drivers) \in Nat
    BY DEF Inductive, Types
  <2> SUFFICES ASSUME NEW i \in DeviceIds
               PROVE  devices[i] \in [kind : PciKinds, bus : {"PCI", "VIRTIO"},
                                      driver : 0 .. Len(drivers), probes : Nat,
                                      at : DOMAIN config.kind]
    BY Zenon
  <2>2. devices[i].driver \in 0 .. Len(drivers)
    BY <1>2, <2>1 DEF Device
  <2> QED BY <1>1, <1>2, <2>2, Zenon DEF Device
<1>4. \A k \in 1 .. Len(stack) :
          stack[k] \in [op : {"device", "driver"}, node : Nat, cursor : Nat]
  <2>1. \A k \in 1 .. Len(stack) : stack[k] \in Call
    BY DEF Inductive, Types
  <2> QED BY <2>1, Zenon DEF Call
<1>5. TypeOK
  BY <1>1, <1>3, <1>4, Zenon DEF Inductive, Types, Calls, TypeOK, Controller
<1>6. ASSUME stack = <<>>, NEW i \in DeviceIds
      PROVE  LET fit == {d \in 1 .. Len(drivers) : Matches(drivers[d], devices[i])}
             IN  IF fit = {} THEN devices[i].driver = 0
                 ELSE devices[i].driver \in fit
                      /\ \A d \in fit : devices[i].driver <= d
  <2>1. \A d \in DriverIds : ~Pending(i, d)
    BY <1>6 DEF Pending, CallIds
  <2>2. devices[i].driver \in 0 .. Len(drivers)
    BY <1>3, <1>6, Zenon
  <2>3. CASE devices[i].driver = 0
    BY <1>6, <2>1, <2>3, Zenon DEF Inductive, Bindings, Fits, DriverIds
  <2>4. CASE devices[i].driver # 0
    <3>1. devices[i].driver \in DriverIds
      BY <2>2, <2>4 DEF DriverIds, Inductive, Types
    <3> QED BY <1>6, <2>4, <3>1, Zenon DEF Inductive, Bindings, Fits, DriverIds
  <2> QED BY <2>3, <2>4, Zenon
<1> QED BY <1>5, <1>6, Zenon DEF Inductive, Bindings, BoundToFirstMatch, BoundIds

-----------------------------------------------------------------------------
(* The steps *)

\* What a walk on the stack is made of.
LEMMA CallIs ==
    ASSUME Inductive, NEW k \in CallIds
    PROVE  /\ stack[k] \in Call
           /\ stack[k].cursor \in Nat
<1>1. stack[k] \in Call
  BY DEF Inductive, Types, CallIds
<1> QED BY <1>1, Zenon DEF Call

\* What the innermost walk has come to is a device and a driver.
LEMMA TopIs ==
    ASSUME Inductive, WalkGoesOn
    PROVE  /\ Len(stack) \in CallIds /\ Len(stack) \in {1, 2}
           /\ Top \in Call
           /\ TopDevice \in DeviceIds
           /\ TopDriver \in DriverIds
<1>1. stack \in Seq(Call) /\ stack # <<>>
  BY Zenon DEF Inductive, Types, WalkGoesOn
<1>2. Len(stack) \in CallIds /\ Len(stack) \in {1, 2}
  <2>1. Len(stack) \in Nat /\ Len(stack) # 0
    BY <1>1
  <2>2. Len(stack) <= 2
    BY Zenon DEF Inductive, Calls
  <2>3. \A n \in Nat : n # 0 /\ n <= 2 => n \in {1, 2} /\ n \in 1 .. n
    OBVIOUS
  <2> QED BY <2>1, <2>2, <2>3, Zenon DEF CallIds
<1>3. Top \in Call
  BY <1>1, <1>2 DEF Top, CallIds
<1>4. Top.cursor \in Nat /\ Top.cursor >= 1 /\ Top.op \in {"device", "driver"}
  BY <1>2, <1>3, Zenon DEF Inductive, Calls, Top, Call
<1>5. Len(drivers) \in Nat /\ Len(devices) \in Nat
  BY DEF Inductive, Types
<1>6. ASSUME Top.op = "device" PROVE TopDevice \in DeviceIds /\ TopDriver \in DriverIds
  <2>1. Top.node \in DeviceIds
    BY <1>2, <1>6, Zenon DEF Inductive, Calls, Top
  <2>2. Top.cursor <= Len(drivers)
    BY <1>6, Zenon DEF WalkGoesOn, TopIn
  <2> QED BY <1>4, <1>5, <1>6, <2>1, <2>2 DEF TopDevice, TopDriver, DeviceIds, DriverIds
<1>7. ASSUME Top.op = "driver" PROVE TopDevice \in DeviceIds /\ TopDriver \in DriverIds
  <2>1. Top.node \in DriverIds
    BY <1>2, <1>7, Zenon DEF Inductive, Calls, Top
  <2>2. Top.cursor <= Len(devices)
    BY <1>7, Zenon DEF WalkGoesOn, TopIn
  <2> QED BY <1>4, <1>5, <1>7, <2>1, <2>2 DEF TopDevice, TopDriver, DeviceIds, DriverIds
<1> QED BY <1>2, <1>3, <1>4, <1>6, <1>7, Zenon

\* The walk goes on to its next element.
LEMMA AdvancedIs ==
    ASSUME Inductive, WalkGoesOn
    PROVE  /\ Advanced \in Seq(Call)
           /\ Len(Advanced) = Len(stack)
           /\ \A k \in CallIds :
                 /\ Advanced[k].op = stack[k].op
                 /\ Advanced[k].node = stack[k].node
                 /\ Advanced[k].cursor =
                       IF k = Len(stack) THEN stack[k].cursor + 1 ELSE stack[k].cursor
<1> DEFINE next == [Top EXCEPT !.cursor = @ + 1]
<1>1. stack \in Seq(Call) /\ Len(stack) \in 1 .. Len(stack) /\ Top \in Call
  BY TopIs, Zenon DEF Inductive, Types, CallIds
<1>2. next \in Call
  BY <1>1 DEF Call
<1>3. Advanced = [stack EXCEPT ![Len(stack)] = next]
  BY <1>1, Zenon DEF Advanced, Top
<1>4. next.op = Top.op /\ next.node = Top.node /\ next.cursor = Top.cursor + 1
  BY <1>1, Zenon DEF Call
<1> HIDE DEF next
<1>5. /\ Advanced \in Seq(Call)
      /\ Len(Advanced) = Len(stack)
      /\ \A k \in CallIds : Advanced[k] = IF k = Len(stack) THEN next ELSE stack[k]
  BY <1>1, <1>2, <1>3 DEF CallIds
<1> QED BY <1>4, <1>5, Zenon DEF Top

\* The device that the walk has come to is bound.
BoundList == [devices EXCEPT ![TopDevice].driver = TopDriver,
                             ![TopDevice].probes = @ + 1]

\* Binding marks one device and leaves the others alone.
LEMMA BoundListIs ==
    ASSUME Inductive, WalkGoesOn
    PROVE  /\ BoundList \in Seq(Device)
           /\ Len(BoundList) = Len(devices)
           /\ \A i \in DeviceIds :
                 /\ BoundList[i].kind = devices[i].kind
                 /\ BoundList[i].bus = devices[i].bus
                 /\ BoundList[i].at = devices[i].at
                 /\ BoundList[i].driver =
                       IF i = TopDevice THEN TopDriver ELSE devices[i].driver
                 /\ BoundList[i].probes =
                       IF i = TopDevice THEN devices[i].probes + 1
                       ELSE devices[i].probes
<1> DEFINE old == devices[TopDevice]
           new == [old EXCEPT !.driver = TopDriver, !.probes = @ + 1]
<1>1. devices \in Seq(Device) /\ TopDevice \in 1 .. Len(devices) /\ TopDriver \in Nat
  BY TopIs DEF Inductive, Types, DeviceIds, DriverIds
<1>2. old \in Device
  BY <1>1
<1>3. new \in Device
  <2>1. old.probes + 1 \in Nat
    BY <1>2 DEF Device
  <2>2. new = [old EXCEPT !.driver = TopDriver, !.probes = old.probes + 1]
    BY <1>2, Zenon DEF Device
  <2> QED BY <1>1, <1>2, <2>1, <2>2, Zenon DEF Device
<1>4. BoundList = [devices EXCEPT ![TopDevice] = new]
  BY <1>1, <1>2, Zenon DEF BoundList, Device
<1>5. /\ new.kind = old.kind /\ new.bus = old.bus /\ new.at = old.at
      /\ new.driver = TopDriver /\ new.probes = old.probes + 1
  BY <1>2, Zenon DEF Device
<1> HIDE DEF new
<1>6. /\ BoundList \in Seq(Device)
      /\ Len(BoundList) = Len(devices)
      /\ \A i \in DeviceIds : BoundList[i] = IF i = TopDevice THEN new ELSE devices[i]
  BY <1>1, <1>3, <1>4 DEF DeviceIds
<1> QED BY <1>5, <1>6, Zenon

\* What a binding does to the lists: its probe may register a logical device.
Child == NewDevice(devices[TopDevice].kind, "VIRTIO", devices[TopDevice].at)

\* What driver_try_bind_device does when the driver fits: it binds the device and,
\* for a transport, registers the block device behind it.
LEMMA TryBindIs ==
    ASSUME Inductive, TryBind
    PROVE  /\ WalkGoesOn /\ Bindable(TopDevice, TopDriver)
           /\ UNCHANGED <<config, ready, buses, drivers, pci_count, scan, missed>>
           /\ bound_count' = bound_count + 1
           /\ \/ devices' = BoundList /\ stack' = Advanced
              \/ /\ drivers[TopDriver] = "virtio-pci"
                 /\ devices' = Append(BoundList, Child)
                 /\ stack' = Append(Advanced, Walk("device", Len(devices) + 1))
           /\ block_list' = block_list \/ block_list' = Append(block_list, TopDevice)
           /\ transport_count' \in Nat /\ logical_count' \in Nat
           /\ blk_count' \in Nat /\ audio_count' \in Nat
           /\ ac97' \in Controller
<1>1. WalkGoesOn /\ Bindable(TopDevice, TopDriver)
  BY Zenon DEF TryBind
<1>2. /\ UNCHANGED <<config, ready, buses, drivers, pci_count, scan, missed>>
      /\ bound_count' = bound_count + 1
  BY Zenon DEF TryBind
<1>3. Probe(drivers[TopDriver], TopDevice, BoundList, Advanced)
  BY Zenon DEF TryBind, BoundList
<1>4. /\ Len(BoundList) = Len(devices)
      /\ BoundList[TopDevice].kind = devices[TopDevice].kind
      /\ BoundList[TopDevice].at = devices[TopDevice].at
  BY <1>1, TopIs, BoundListIs, Zenon
<1>5. /\ transport_count \in Nat /\ logical_count \in Nat /\ blk_count \in Nat
      /\ audio_count \in Nat /\ ac97 \in Controller
  BY Zenon DEF Inductive, Types
<1>6. BoundList[TopDevice].at \in Places
  <2>1. devices[TopDevice] \in Device
    BY <1>1, TopIs DEF Inductive, Types, DeviceIds
  <2> QED BY <1>4, <2>1, Zenon DEF Device
<1> DEFINE Result ==
             /\ \/ devices' = BoundList /\ stack' = Advanced
                \/ /\ drivers[TopDriver] = "virtio-pci"
                   /\ devices' = Append(BoundList, Child)
                   /\ stack' = Append(Advanced, Walk("device", Len(devices) + 1))
             /\ block_list' = block_list \/ block_list' = Append(block_list, TopDevice)
             /\ transport_count' \in Nat /\ logical_count' \in Nat
             /\ blk_count' \in Nat /\ audio_count' \in Nat
             /\ ac97' \in Controller
<1>7. ASSUME drivers[TopDriver] = "virtio-pci",
             VirtioPciProbe(TopDevice, BoundList, Advanced)
      PROVE  Result
  BY <1>4, <1>5, <1>7 DEF VirtioPciProbe, StartDevice, Child
<1>8. ASSUME VirtioBlkProbe(TopDevice, BoundList, Advanced) PROVE Result
  BY <1>5, <1>8 DEF VirtioBlkProbe, BlockRegister
<1>9. ASSUME AudioPciProbe(TopDevice, BoundList, Advanced) PROVE Result
  <2>1. ac97' \in Controller
    <3>1. Ac97TryInit(BoundList[TopDevice])
      BY <1>9, Zenon DEF AudioPciProbe
    <3>2. CASE ac97' = ac97
      BY <1>5, <3>2, Zenon
    <3>3. CASE ac97' # ac97
      <4>1. PICK bars, pcm \in BOOLEAN :
               ac97' = [detected |-> TRUE, at |-> BoundList[TopDevice].at,
                        controller_ready |-> bars, pcm_ready |-> bars /\ pcm]
        BY <3>1, <3>3, Zenon DEF Ac97TryInit
      <4>2. (bars /\ pcm) \in BOOLEAN
        BY Zenon
      <4> QED BY <1>6, <4>1, <4>2, Zenon DEF Controller
    <3> QED BY <3>2, <3>3, Zenon
  <2> QED BY <1>5, <1>9, <2>1 DEF AudioPciProbe
<1>10. ASSUME DummyPciProbe(BoundList, Advanced) PROVE Result
  BY <1>5, <1>10, Zenon DEF DummyPciProbe, counts
<1>11. Result
  BY <1>3, <1>7, <1>8, <1>9, <1>10, Zenon DEF Probe
<1> QED BY <1>1, <1>2, <1>11, Zenon

\* A pair that is passed over was not to be bound, and the others stay pending.
LEMMA SkipsStep ==
    ASSUME Inductive, TryBindSkips
    PROVE  Inductive'
<1>1. WalkGoesOn /\ ~Bindable(TopDevice, TopDriver) /\ stack' = Advanced
  BY Zenon DEF TryBindSkips
<1>2. /\ UNCHANGED <<config, ready, buses, drivers, devices, bound_count>>
      /\ UNCHANGED <<block_list, transport_count, logical_count, blk_count,
                     audio_count, ac97, pci_count, scan, missed>>
  BY Zenon DEF TryBindSkips, registry, counts
<1>3. /\ stack' \in Seq(Call) /\ Len(stack') = Len(stack)
      /\ \A k \in CallIds :
            /\ stack'[k].op = stack[k].op
            /\ stack'[k].node = stack[k].node
            /\ stack'[k].cursor =
                  IF k = Len(stack) THEN stack[k].cursor + 1 ELSE stack[k].cursor
  BY <1>1, AdvancedIs, Zenon
<1>4. \A k \in CallIds : stack[k].cursor \in Nat
  BY CallIs, Zenon
<1>5. Types'
  BY <1>2, <1>3, ZenonT(30) DEF Inductive, Types, DeviceIds
<1>6. Calls'
  <2>1. Len(stack') <= 2 /\ CallIds' = CallIds
    BY <1>3, Zenon DEF Inductive, Calls, CallIds
  <2>2. Calls /\ DeviceIds' = DeviceIds /\ DriverIds' = DriverIds
    BY <1>2, Zenon DEF Inductive, DeviceIds, DriverIds
  <2> QED BY <1>2, <1>3, <1>4, <2>1, <2>2 DEF Calls
<1>7. ASSUME NEW i \in DeviceIds, NEW d \in DriverIds, devices[i].driver = 0, Fits(d, i)
      PROVE  Pending(i, d)'
  <2>1. PICK k \in CallIds :
           \/ stack[k].op = "device" /\ stack[k].node = i /\ stack[k].cursor <= d
           \/ stack[k].op = "driver" /\ stack[k].node = d /\ stack[k].cursor <= i
    BY <1>7, Zenon DEF Inductive, Bindings, Pending
  <2>2. ~(i = TopDevice /\ d = TopDriver)
    BY <1>1, <1>7, Zenon DEF Bindable, Fits
  <2>3. i \in Nat /\ d \in Nat /\ stack[k].cursor \in Nat
    BY <1>4 DEF DeviceIds, DriverIds
  <2>4. CASE k # Len(stack)
    BY <1>3, <2>1, <2>4, Zenon DEF Pending, CallIds
  <2>5. CASE k = Len(stack)
    <3>1. \/ Top.op = "device" /\ Top.node = i /\ Top.cursor + 1 <= d
          \/ Top.op = "driver" /\ Top.node = d /\ Top.cursor + 1 <= i
      BY <2>1, <2>2, <2>3, <2>5 DEF Top, TopDevice, TopDriver
    <3> QED BY <1>3, <2>5, <3>1, Zenon DEF Pending, CallIds, Top
  <2> QED BY <2>4, <2>5, Zenon
<1>8. Bindings'
  BY <1>2, <1>7, Zenon DEF Inductive, Bindings, Fits, DeviceIds, DriverIds
<1>9. (bound_count = Cardinality(BoundIds))'
  BY <1>2, Zenon DEF Inductive, BoundIds, DeviceIds
<1> QED BY <1>5, <1>6, <1>8, <1>9, Zenon DEF Inductive

\* When a walk is over nothing was pending in it.
LEMMA ReturnsStep ==
    ASSUME Inductive, WalkReturns
    PROVE  Inductive'
<1>1. stack # <<>> /\ ~WalkGoesOn /\ stack' = SubSeq(stack, 1, Len(stack) - 1)
  BY Zenon DEF WalkReturns
<1>2. /\ UNCHANGED <<config, ready, buses, drivers, devices, bound_count>>
      /\ UNCHANGED <<block_list, transport_count, blk_count, audio_count, ac97, scan,
                     missed>>
  BY Zenon DEF WalkReturns, registry
<1>3. logical_count' \in Nat /\ pci_count' \in Nat
  BY DEF WalkReturns, Inductive, Types
<1>4. stack \in Seq(Call) /\ Len(stack) \in Nat /\ Len(stack) # 0
  BY <1>1 DEF Inductive, Types
<1>5. /\ stack' \in Seq(Call) /\ Len(stack') = Len(stack) - 1
      /\ \A k \in 1 .. (Len(stack) - 1) : stack'[k] = stack[k]
  <2> DEFINE n == Len(stack) - 1
  <2>1. \A k \in 1 .. n : stack[k] \in Call
    BY <1>4
  <2>2. 1 \in Int /\ n \in Int /\ n >= 0
    BY <1>4
  <2> HIDE DEF n
  <2>3. /\ SubSeq(stack, 1, n) \in Seq(Call)
        /\ Len(SubSeq(stack, 1, n)) = IF 1 <= n THEN n - 1 + 1 ELSE 0
        /\ \A k \in 1 .. n - 1 + 1 : SubSeq(stack, 1, n)[k] = stack[1 + k - 1]
    BY <2>1, <2>2
  <2>4. Len(SubSeq(stack, 1, n)) = n /\ \A k \in 1 .. n : SubSeq(stack, 1, n)[k] = stack[k]
    BY <2>2, <2>3
  <2> QED BY <1>1, <2>3, <2>4, Zenon DEF n
<1>6. CallIds' = 1 .. (Len(stack) - 1) /\ CallIds = 1 .. Len(stack)
  BY <1>5, Zenon DEF CallIds
<1>7. Types'
  BY <1>2, <1>3, <1>5, Zenon DEF Inductive, Types, DeviceIds
<1>8. Calls'
  <2>1. Len(stack') <= 2
    BY <1>4, <1>5 DEF Inductive, Calls
  <2>2. CallIds' \subseteq CallIds /\ \A k \in CallIds' : stack'[k] = stack[k]
    BY <1>4, <1>5, <1>6
  <2> QED BY <1>2, <2>1, <2>2, Zenon DEF Inductive, Calls, DeviceIds, DriverIds
<1>9. ASSUME NEW i \in DeviceIds, NEW d \in DriverIds, devices[i].driver = 0, Fits(d, i)
      PROVE  Pending(i, d)'
  <2>1. PICK k \in CallIds :
           \/ stack[k].op = "device" /\ stack[k].node = i /\ stack[k].cursor <= d
           \/ stack[k].op = "driver" /\ stack[k].node = d /\ stack[k].cursor <= i
    BY <1>9, Zenon DEF Inductive, Bindings, Pending
  <2>2. i <= Len(devices) /\ d <= Len(drivers) /\ i \in Nat /\ d \in Nat
        /\ Len(devices) \in Nat /\ Len(drivers) \in Nat
    BY DEF DeviceIds, DriverIds, Inductive, Types
  <2>3. stack[k].cursor \in Nat
    BY CallIs, Zenon
  <2>4. k # Len(stack)
    <3> SUFFICES ASSUME k = Len(stack) PROVE FALSE
      BY Zenon
    <3>1. /\ Top.op = "device" => Top.cursor > Len(drivers)
          /\ Top.op = "driver" => Top.cursor > Len(devices)
      BY <1>1, <2>2, <2>3 DEF WalkGoesOn, TopIn, Top
    <3> QED BY <2>1, <2>2, <2>3, <3>1 DEF Top
  <2>5. k \in CallIds' /\ stack'[k] = stack[k]
    BY <1>4, <1>5, <1>6, <2>4
  <2> QED BY <2>1, <2>5, Zenon DEF Pending
<1>10. Bindings'
  BY <1>2, <1>9, Zenon DEF Inductive, Bindings, Fits, DeviceIds, DriverIds
<1>11. (bound_count = Cardinality(BoundIds))'
  BY <1>2, Zenon DEF Inductive, BoundIds, DeviceIds
<1> QED BY <1>7, <1>8, <1>10, <1>11, Zenon DEF Inductive

\* No driver before the one that binds fits: no walk was still to come to it.
LEMMA NoEarlierFits ==
    ASSUME Inductive, WalkGoesOn, Bindable(TopDevice, TopDriver),
           NEW d \in DriverIds, Fits(d, TopDevice)
    PROVE  TopDriver <= d
<1>1. TopDevice \in DeviceIds /\ TopDriver \in DriverIds /\ Top \in Call
      /\ Len(stack) \in CallIds /\ Len(stack) \in {1, 2}
  BY TopIs, Zenon
<1>2. PICK k \in CallIds :
         \/ stack[k].op = "device" /\ stack[k].node = TopDevice /\ stack[k].cursor <= d
         \/ stack[k].op = "driver" /\ stack[k].node = d /\ stack[k].cursor <= TopDevice
  BY <1>1, Zenon DEF Inductive, Bindings, Bindable, Pending
<1>3. d \in Nat /\ TopDriver \in Nat /\ TopDriver <= Len(drivers) /\ Len(drivers) \in Nat
  BY <1>1 DEF DriverIds, Inductive, Types
<1>4. CASE stack[k].op = "driver"
  <2>1. d = Len(drivers)
    BY <1>2, <1>4, Zenon DEF Inductive, Calls
  <2> QED BY <1>3, <2>1, Zenon
<1>5. CASE stack[k].op = "device"
  <2>1. devices[TopDevice].bus = IF k = 1 THEN "PCI" ELSE "VIRTIO"
    BY <1>2, <1>5, Zenon DEF Inductive, Calls
  <2>2. CASE Top.op = "device"
    <3>1. devices[TopDevice].bus = IF Len(stack) = 1 THEN "PCI" ELSE "VIRTIO"
      BY <1>1, <2>2, Zenon DEF Inductive, Calls, Top, TopDevice
    <3>2. k \in {1, 2}
      <4>1. \A n \in {1, 2} : 1 .. n \subseteq {1, 2}
        OBVIOUS
      <4> QED BY <1>1, <4>1, Zenon DEF CallIds
    <3>3. k = Len(stack)
      BY <1>1, <2>1, <3>1, <3>2, Zenon
    <3> QED BY <1>2, <1>5, <2>2, <3>3, Zenon DEF Top, TopDriver
  <2>3. CASE Top.op = "driver"
    <3>1. Len(stack) = 1
      BY <1>1, <2>3, Zenon DEF Inductive, Calls, Top
    <3>2. k = 1
      BY <3>1 DEF CallIds
    <3> QED BY <1>5, <2>3, <3>1, <3>2, Zenon DEF Top
  <2> QED BY <1>1, <2>2, <2>3, Zenon DEF Call
<1> QED BY <1>2, <1>4, <1>5, Zenon

\* virtio-pci binds to PCI devices only, so its probe runs in the outer walk.
LEMMA ProbeOuter ==
    ASSUME Inductive, WalkGoesOn, Bindable(TopDevice, TopDriver),
           drivers[TopDriver] = "virtio-pci"
    PROVE  Len(stack) = 1
<1>1. devices[TopDevice].bus = "PCI"
  BY Zenon DEF Bindable, Matches, Bus
<1>2. Len(stack) \in CallIds /\ Len(stack) \in {1, 2} /\ Top \in Call
  BY TopIs, Zenon
<1>3. CASE Top.op = "device"
  BY <1>1, <1>2, <1>3, Zenon DEF Inductive, Calls, Top, TopDevice
<1>4. CASE Top.op = "driver"
  BY <1>2, <1>4, Zenon DEF Inductive, Calls, Top
<1> QED BY <1>2, <1>3, <1>4, Zenon DEF Call

\* The probe registered a logical device.
Grown == Len(devices') = Len(devices) + 1

\* The device, the driver and the lists of a binding step.
LEMMA BindLists ==
    ASSUME Inductive, TryBind
    PROVE  /\ TopDevice \in DeviceIds /\ TopDriver \in DriverIds
           /\ Len(stack) \in CallIds /\ Len(stack) \in {1, 2} /\ Len(devices) \in Nat
           /\ TopDevice \in Nat /\ TopDriver \in Nat /\ TopDriver # 0
           /\ TopDriver <= Len(drivers)
           /\ devices[TopDevice].driver = 0 /\ Fits(TopDriver, TopDevice)
           /\ Child \in Device /\ Child.bus = "VIRTIO" /\ Child.driver = 0 /\ Child.probes = 0
           /\ Child.at = devices[TopDevice].at /\ Child.kind = devices[TopDevice].kind
           /\ devices' \in Seq(Device) /\ stack' \in Seq(Call)
           /\ \A i \in DeviceIds :
                 /\ devices'[i].kind = devices[i].kind
                 /\ devices'[i].bus = devices[i].bus
                 /\ devices'[i].at = devices[i].at
                 /\ devices'[i].driver = IF i = TopDevice THEN TopDriver ELSE devices[i].driver
                 /\ devices'[i].probes = IF i = TopDevice THEN devices[i].probes + 1
                                         ELSE devices[i].probes
           /\ \A k \in CallIds :
                 /\ stack'[k].op = stack[k].op
                 /\ stack'[k].node = stack[k].node
                 /\ stack'[k].cursor = IF k = Len(stack) THEN stack[k].cursor + 1
                                       ELSE stack[k].cursor
                 /\ stack[k].cursor \in Nat
           /\ DeviceIds \subseteq DeviceIds' /\ CallIds \subseteq CallIds'
           /\ \A i \in DeviceIds' : i \notin DeviceIds => Grown /\ i = Len(devices) + 1
           /\ \A k \in CallIds' : k \notin CallIds => Grown /\ k = 2 /\ Len(stack) = 1
           /\ DriverIds' = DriverIds
           /\ Grown => /\ devices'[Len(devices) + 1] = Child
                       /\ stack'[2] = Walk("device", Len(devices) + 1)
                       /\ Len(devices) + 1 \in DeviceIds' /\ 2 \in CallIds'
                       /\ Len(stack) = 1 /\ Len(stack') = 2
                       /\ drivers[TopDriver] = "virtio-pci"
           /\ ~Grown => Len(devices') = Len(devices) /\ Len(stack') = Len(stack)
           /\ Len(stack') <= 2
<1> DEFINE N == Len(devices)
           L == Len(stack)
<1>1. WalkGoesOn /\ Bindable(TopDevice, TopDriver)
  BY TryBindIs, Zenon
<1>2. /\ TopDevice \in DeviceIds /\ TopDriver \in DriverIds
      /\ L \in CallIds /\ L \in {1, 2} /\ N \in Nat
      /\ TopDevice \in Nat /\ TopDriver \in Nat /\ TopDriver # 0
      /\ TopDriver <= Len(drivers)
  BY SMTT(30), <1>1, TopIs DEF Inductive, Types, DeviceIds, DriverIds
<1>3. UNCHANGED <<config, ready, buses, drivers, pci_count, scan, missed>>
  BY TryBindIs, Zenon
<1>4. devices[TopDevice].driver = 0 /\ Fits(TopDriver, TopDevice)
  BY <1>1, Zenon DEF Bindable, Fits
<1>5. Child \in Device /\ Child.bus = "VIRTIO" /\ Child.driver = 0 /\ Child.probes = 0
      /\ Child.at = devices[TopDevice].at /\ Child.kind = devices[TopDevice].kind
  <2>1. devices[TopDevice] \in Device
    BY <1>2 DEF Inductive, Types, DeviceIds
  <2> QED BY <2>1, Zenon DEF Child, NewDevice, Device
<1>6. /\ devices' \in Seq(Device)
      /\ \/ Len(devices') = N /\ Len(stack') = L
         \/ /\ Grown /\ devices'[N + 1] = Child
            /\ L = 1 /\ Len(stack') = 2
            /\ stack'[2] = Walk("device", N + 1)
            /\ drivers[TopDriver] = "virtio-pci"
      /\ \A i \in DeviceIds : devices'[i] = BoundList[i]
      /\ \A k \in CallIds : stack'[k] = Advanced[k]
      /\ stack' \in Seq(Call)
  <2>1. BoundList \in Seq(Device) /\ Len(BoundList) = N
    BY <1>1, BoundListIs, Zenon
  <2>2. Advanced \in Seq(Call) /\ Len(Advanced) = L
    BY <1>1, AdvancedIs, Zenon
  <2>3. CASE devices' = BoundList /\ stack' = Advanced
    BY <2>1, <2>2, <2>3, Zenon
  <2>4. CASE /\ drivers[TopDriver] = "virtio-pci"
             /\ devices' = Append(BoundList, Child)
             /\ stack' = Append(Advanced, Walk("device", N + 1))
    <3>1. L = 1
      BY <1>1, <2>4, ProbeOuter, Zenon
    <3>2. Walk("device", N + 1) \in Call
      BY <1>2 DEF Walk, Call
    <3>3. /\ devices' \in Seq(Device) /\ Grown /\ devices'[N + 1] = Child
          /\ \A i \in DeviceIds : devices'[i] = BoundList[i]
      BY <1>5, <2>1, <2>4 DEF DeviceIds, Grown
    <3>4. /\ stack' \in Seq(Call) /\ Len(stack') = L + 1
          /\ stack'[L + 1] = Walk("device", N + 1)
          /\ \A k \in CallIds : stack'[k] = Advanced[k]
      BY <2>2, <2>4, <3>2 DEF CallIds
    <3>5. Len(stack') = 2 /\ stack'[2] = Walk("device", N + 1)
      BY <3>1, <3>4
    <3>6. drivers[TopDriver] = "virtio-pci"
      BY <2>4, Zenon
    <3> QED BY <3>1, <3>3, <3>4, <3>5, <3>6, Zenon
  <2> QED BY TryBindIs, <2>3, <2>4, Zenon
<1>7. \A i \in DeviceIds :
         /\ devices'[i].kind = devices[i].kind
         /\ devices'[i].bus = devices[i].bus
         /\ devices'[i].at = devices[i].at
         /\ devices'[i].driver = IF i = TopDevice THEN TopDriver ELSE devices[i].driver
         /\ devices'[i].probes = IF i = TopDevice THEN devices[i].probes + 1
                                 ELSE devices[i].probes
  BY SMTT(30), <1>1, <1>6, BoundListIs
<1>8. \A k \in CallIds :
         /\ stack'[k].op = stack[k].op
         /\ stack'[k].node = stack[k].node
         /\ stack'[k].cursor = IF k = L THEN stack[k].cursor + 1 ELSE stack[k].cursor
         /\ stack[k].cursor \in Nat
  BY <1>1, <1>6, AdvancedIs, CallIs, Zenon
<1>9. /\ DeviceIds \subseteq DeviceIds'
      /\ CallIds \subseteq CallIds'
      /\ \A i \in DeviceIds' : i \notin DeviceIds => Grown /\ i = N + 1
      /\ \A k \in CallIds' : k \notin CallIds => Grown /\ k = 2 /\ L = 1
      /\ DriverIds' = DriverIds
  <2>1. DriverIds' = DriverIds
    BY <1>3, Zenon DEF DriverIds
  <2>2. CASE Len(devices') = N /\ Len(stack') = L
    BY <2>1, <2>2, Zenon DEF DeviceIds, CallIds
  <2>3. CASE Grown /\ L = 1 /\ Len(stack') = 2
    <3>1. DeviceIds' = DeviceIds \cup {N + 1}
      BY <1>2, <2>3 DEF DeviceIds, Grown
    <3>2. CallIds' = CallIds \cup {2}
      BY <2>3 DEF CallIds
    <3> QED BY <2>1, <2>3, <3>1, <3>2, Zenon
  <2> QED BY <1>6, <2>2, <2>3, Zenon
<1>10. /\ Grown => /\ devices'[N + 1] = Child /\ stack'[2] = Walk("device", N + 1)
                   /\ N + 1 \in DeviceIds' /\ 2 \in CallIds'
                   /\ L = 1 /\ Len(stack') = 2
                   /\ drivers[TopDriver] = "virtio-pci"
       /\ ~Grown => Len(devices') = N /\ Len(stack') = L
       /\ Len(stack') <= 2
  <2>1. N # N + 1
    BY <1>2
  <2>2. CASE Len(devices') = N /\ Len(stack') = L
    <3>1. ~Grown
      BY <2>1, <2>2, Zenon DEF Grown
    <3>2. Len(stack') <= 2
      <4>1. L <= 2
        BY Zenon DEF Inductive, Calls
      <4> QED BY <2>2, <4>1, Zenon
    <3> QED BY <2>2, <3>1, <3>2, Zenon
  <2>3. CASE Grown /\ Len(stack') = 2
    <3>1. N + 1 \in DeviceIds' /\ 2 \in CallIds'
      BY <1>2, <2>3 DEF DeviceIds, CallIds, Grown
    <3> QED BY <1>6, <2>1, <2>3, <3>1 DEF Grown
  <2> QED BY <1>6, <2>2, <2>3, Zenon
<1> QED BY <1>2, <1>4, <1>5, <1>6, <1>7, <1>8, <1>9, <1>10, Zenon

\* A binding preserves the invariant.
LEMMA BindStep ==
    ASSUME Inductive, TryBind
    PROVE  Inductive'
<1> DEFINE N == Len(devices)
           L == Len(stack)
<1>1. WalkGoesOn /\ Bindable(TopDevice, TopDriver)
  BY TryBindIs, Zenon
<1>2. /\ TopDevice \in DeviceIds /\ TopDriver \in DriverIds
      /\ Len(stack) \in CallIds /\ Len(stack) \in {1, 2} /\ Len(devices) \in Nat
      /\ TopDevice \in Nat /\ TopDriver \in Nat /\ TopDriver # 0
      /\ TopDriver <= Len(drivers)
  BY BindLists, Zenon
<1>3. UNCHANGED <<config, ready, buses, drivers, pci_count, scan, missed>>
  BY TryBindIs, Zenon
<1>4. devices[TopDevice].driver = 0 /\ Fits(TopDriver, TopDevice)
  BY BindLists, Zenon
<1>5. Child \in Device /\ Child.bus = "VIRTIO" /\ Child.driver = 0 /\ Child.probes = 0
  BY BindLists, Zenon
<1>6. devices' \in Seq(Device) /\ stack' \in Seq(Call)
  BY BindLists, Zenon
<1>7. \A i \in DeviceIds :
         /\ devices'[i].kind = devices[i].kind
         /\ devices'[i].bus = devices[i].bus
         /\ devices'[i].driver = IF i = TopDevice THEN TopDriver ELSE devices[i].driver
         /\ devices'[i].probes = IF i = TopDevice THEN devices[i].probes + 1
                                 ELSE devices[i].probes
  BY BindLists, Zenon
<1>8. \A k \in CallIds :
         /\ stack'[k].op = stack[k].op
         /\ stack'[k].node = stack[k].node
         /\ stack'[k].cursor = IF k = Len(stack) THEN stack[k].cursor + 1
                               ELSE stack[k].cursor
         /\ stack[k].cursor \in Nat
  BY BindLists, Zenon
<1>9. /\ DeviceIds \subseteq DeviceIds' /\ CallIds \subseteq CallIds'
      /\ \A i \in DeviceIds' : i \notin DeviceIds => Grown /\ i = Len(devices) + 1
      /\ \A k \in CallIds' : k \notin CallIds => Grown /\ k = 2 /\ Len(stack) = 1
      /\ DriverIds' = DriverIds
  BY BindLists, Zenon
<1>10. /\ Grown => /\ devices'[N + 1] = Child /\ stack'[2] = Walk("device", N + 1)
                   /\ N + 1 \in DeviceIds' /\ 2 \in CallIds'
       /\ Len(stack') <= 2
  BY BindLists, Zenon
<1>11. Types'
  <2>1. \A i \in DeviceIds' : devices'[i].driver <= Len(drivers')
    <3> SUFFICES ASSUME NEW i \in DeviceIds' PROVE devices'[i].driver <= Len(drivers')
      BY Zenon
    <3>1. CASE i \in DeviceIds
      BY <1>2, <1>3, <1>7, <3>1, Zenon DEF Inductive, Types
    <3>2. CASE i \notin DeviceIds
      BY SMTT(30), <1>2, <1>3, <1>5, <1>9, <1>10, <3>2
    <3> QED BY <3>1, <3>2, Zenon
  <2>2. /\ block_list' \in Seq(Nat)
        /\ \A k \in 1 .. Len(block_list') : block_list'[k] \in DeviceIds'
    <3>1. /\ block_list \in Seq(Nat)
          /\ \A k \in 1 .. Len(block_list) : block_list[k] \in DeviceIds
      BY Zenon DEF Inductive, Types
    <3>2. CASE block_list' = block_list
      BY <1>9, <3>1, <3>2, Zenon
    <3>3. CASE block_list' = Append(block_list, TopDevice)
      BY <1>2, <1>9, <3>1, <3>3
    <3> QED BY TryBindIs, <3>2, <3>3, Zenon
  <2>3. /\ bound_count' \in Nat /\ transport_count' \in Nat /\ logical_count' \in Nat
        /\ blk_count' \in Nat /\ audio_count' \in Nat /\ ac97' \in Controller
    <3>1. bound_count \in Nat
      BY Zenon DEF Inductive, Types
    <3>2. bound_count' = bound_count + 1
      BY TryBindIs, Zenon
    <3>3. bound_count' \in Nat
      BY <3>1, <3>2
    <3> QED BY <3>3, TryBindIs, Zenon
  <2> QED BY <1>3, <1>6, <2>1, <2>2, <2>3, Zenon DEF Inductive, Types
<1>12. Calls'
  <2> SUFFICES ASSUME NEW k \in CallIds'
               PROVE  (/\ stack[k].cursor >= 1
                       /\ stack[k].op = "device" =>
                             /\ stack[k].node \in DeviceIds
                             /\ devices[stack[k].node].bus = IF k = 1 THEN "PCI" ELSE "VIRTIO"
                       /\ stack[k].op = "driver" =>
                             /\ k = 1
                             /\ stack[k].node \in DriverIds
                             /\ stack[k].node = Len(drivers))'
    BY <1>10, Zenon DEF Calls
  <2>1. CASE k \in CallIds
    BY SMTT(30), <1>3, <1>7, <1>8, <1>9, <2>1 DEF Inductive, Calls
  <2>2. CASE k \notin CallIds
    BY SMTT(30), <1>5, <1>9, <1>10, <2>2 DEF Walk
  <2> QED BY <2>1, <2>2, Zenon
<1>13. Bindings'
  <2> SUFFICES ASSUME NEW i \in DeviceIds'
               PROVE  (/\ devices[i].probes = IF devices[i].driver = 0 THEN 0 ELSE 1
                       /\ devices[i].driver = 0 =>
                             \A d \in DriverIds : Fits(d, i) => Pending(i, d)
                       /\ devices[i].driver # 0 =>
                             /\ Fits(devices[i].driver, i)
                             /\ \A d \in DriverIds : Fits(d, i) => devices[i].driver <= d)'
    BY Zenon DEF Bindings
  <2>1. ASSUME i \in DeviceIds, NEW d PROVE Fits(d, i)' <=> Fits(d, i)
    BY <1>3, <1>7, <2>1, Zenon DEF Fits, Matches
  <2>2. CASE i = TopDevice
    <3>1. PICK t \in Nat : t = TopDriver
      BY <1>2, Zenon
    <3>2. devices'[i].driver = t /\ devices'[i].probes = 1
      BY SMTT(30), <1>2, <1>4, <1>7, <2>2, <3>1 DEF Inductive, Bindings
    <3>3. Fits(t, i)'
      BY <1>2, <1>4, <2>1, <2>2, <3>1, Zenon
    <3>4. \A d \in DriverIds' : Fits(d, i)' => t <= d
      BY <1>1, <1>2, <1>9, <2>1, <2>2, <3>1, NoEarlierFits, Zenon
    <3>5. (Fits(devices[i].driver, i))'
      BY <3>2, <3>3, Zenon
    <3> QED BY <1>2, <3>1, <3>2, <3>4, <3>5, Zenon
  <2>3. CASE i \in DeviceIds /\ i # TopDevice
    <3>1. devices'[i].driver = devices[i].driver /\ devices'[i].probes = devices[i].probes
      BY <1>7, <2>3, Zenon
    <3>2. ASSUME devices[i].driver = 0, NEW d \in DriverIds, Fits(d, i)
          PROVE  Pending(i, d)'
      <4>1. PICK k \in CallIds :
               \/ stack[k].op = "device" /\ stack[k].node = i /\ stack[k].cursor <= d
               \/ stack[k].op = "driver" /\ stack[k].node = d /\ stack[k].cursor <= i
        BY <2>3, <3>2, Zenon DEF Inductive, Bindings, Pending
      <4>2. i \in Nat /\ d \in Nat /\ stack[k].cursor \in Nat
        BY <1>8, <2>3 DEF DeviceIds, DriverIds
      <4>3. CASE k # L
        BY <1>8, <1>9, <4>1, <4>3, Zenon DEF Pending
      <4>4. CASE k = L
        <5>1. \/ stack[k].op = "device" /\ FALSE
              \/ stack[k].op = "driver" /\ stack[k].node = d /\ stack[k].cursor + 1 <= i
          BY <2>3, <4>1, <4>2, <4>4 DEF Top, TopDevice
        <5> QED BY <1>8, <1>9, <4>4, <5>1 DEF Pending
      <4> QED BY <4>3, <4>4, Zenon
    <3> QED BY <1>9, <2>1, <2>3, <3>1, <3>2, Zenon DEF Inductive, Bindings
  <2>4. CASE i \notin DeviceIds
    <3>1. Grown /\ i = N + 1 /\ devices'[i].driver = 0 /\ devices'[i].probes = 0
      BY <1>5, <1>9, <1>10, <2>4, Zenon
    <3>2. \A d \in DriverIds' : Pending(i, d)'
      BY <1>10, <3>1 DEF Pending, Walk, DriverIds
    <3> QED BY <3>1, <3>2, Zenon
  <2> QED BY <2>2, <2>3, <2>4, Zenon
<1>14. (bound_count = Cardinality(BoundIds))'
  <2>1. BoundIds' = BoundIds \cup {TopDevice} /\ TopDevice \notin BoundIds
    <3>1. \A i \in DeviceIds' : i \notin DeviceIds => devices'[i].driver = 0
      BY <1>5, <1>9, <1>10, Zenon
    <3>2. TopDevice \in BoundIds' /\ TopDevice \notin BoundIds
      BY <1>2, <1>4, <1>7, <1>9, Zenon DEF BoundIds
    <3>3. \A i : i # TopDevice => (i \in BoundIds' <=> i \in BoundIds)
      BY <1>7, <1>9, <3>1, Zenon DEF BoundIds
    <3> QED BY <3>2, <3>3, Zenon
  <2>2. IsFiniteSet(BoundIds)
    <3>1. IsFiniteSet(DeviceIds)
      BY <1>2, FS_Interval DEF DeviceIds
    <3>2. BoundIds \in SUBSET DeviceIds
      BY Zenon DEF BoundIds
    <3> QED BY <3>1, <3>2, FS_Subset, Zenon
  <2> QED BY <2>1, <2>2, FS_AddElement, TryBindIs, Zenon DEF Inductive
<1> QED BY <1>11, <1>12, <1>13, <1>14, Zenon DEF Inductive

\* The walk of a new driver has still to come to every device.
LEMMA RegisterStep ==
    ASSUME Inductive, NEW name \in DriverNames, RegisterDriver(name)
    PROVE  Inductive'
<1> DEFINE D == Len(drivers)
<1>1. /\ stack = <<>> /\ drivers' = Append(drivers, name)
      /\ stack' = <<Walk("driver", D + 1)>>
  BY Zenon DEF RegisterDriver
<1>2. /\ UNCHANGED <<config, ready, buses, devices, bound_count>>
      /\ UNCHANGED <<block_list, transport_count, logical_count, blk_count,
                     audio_count, ac97, pci_count, scan, missed>>
  BY Zenon DEF RegisterDriver, counts
<1>3. drivers \in Seq(DriverNames) /\ D \in Nat /\ Len(devices) \in Nat
  BY DEF Inductive, Types
<1>4. /\ drivers' \in Seq(DriverNames) /\ Len(drivers') = D + 1
      /\ \A d \in DriverIds : drivers'[d] = drivers[d]
  BY <1>1, <1>3 DEF DriverIds
<1>5. DriverIds' = DriverIds \cup {D + 1} /\ DeviceIds' = DeviceIds
  BY <1>2, <1>3, <1>4 DEF DriverIds, DeviceIds
<1>6. Walk("driver", D + 1) \in Call
  BY <1>3 DEF Walk, Call
<1>7. stack' \in Seq(Call) /\ Len(stack') = 1 /\ stack'[1] = Walk("driver", D + 1)
      /\ CallIds' = {1}
  BY <1>1, <1>6 DEF CallIds
<1>8. \A i \in DeviceIds : devices[i] \in Device /\ devices[i].driver \in 0 .. D
  <2> SUFFICES ASSUME NEW i \in DeviceIds
               PROVE  devices[i] \in Device /\ devices[i].driver \in 0 .. D
    BY Zenon
  <2>1. devices[i] \in Device
    BY DEF Inductive, Types, DeviceIds
  <2>2. devices[i].driver \in Nat
    BY <2>1, Zenon DEF Device
  <2> QED BY <1>3, <2>1, <2>2 DEF Inductive, Types
<1>9. Types'
  <2>1. \A i \in DeviceIds' : devices'[i].driver <= Len(drivers')
    BY <1>2, <1>3, <1>4, <1>5, <1>8
  <2> QED BY <1>2, <1>4, <1>5, <1>7, <2>1, Zenon DEF Inductive, Types
<1>10. Calls'
  BY SMTT(30), <1>3, <1>4, <1>5, <1>7 DEF Calls, Walk
<1>11. Bindings'
  <2> SUFFICES ASSUME NEW i \in DeviceIds
               PROVE  (/\ devices[i].probes = IF devices[i].driver = 0 THEN 0 ELSE 1
                       /\ devices[i].driver = 0 =>
                             \A d \in DriverIds : Fits(d, i) => Pending(i, d)
                       /\ devices[i].driver # 0 =>
                             /\ Fits(devices[i].driver, i)
                             /\ \A d \in DriverIds : Fits(d, i) => devices[i].driver <= d)'
    BY <1>5, Zenon DEF Bindings
  <2>0. /\ devices[i].probes = IF devices[i].driver = 0 THEN 0 ELSE 1
        /\ devices[i].driver = 0 =>
              \A d \in DriverIds : Fits(d, i) => Pending(i, d)
        /\ devices[i].driver # 0 =>
              /\ Fits(devices[i].driver, i)
              /\ \A d \in DriverIds : Fits(d, i) => devices[i].driver <= d
    BY Zenon DEF Inductive, Bindings
  <2>1. ASSUME NEW d \in DriverIds PROVE Fits(d, i)' <=> Fits(d, i)
    BY <1>2, <1>4, Zenon DEF Fits
  <2>2. \A d \in DriverIds : ~Pending(i, d)
    BY <1>1 DEF Pending, CallIds
  <2>3. \A n : n = D + 1 => Pending(i, n)'
    <3>1. i \in Nat /\ 1 <= i
      BY <1>3 DEF DeviceIds
    <3> QED BY <1>7, <3>1 DEF Pending, Walk
  <2>4. CASE devices[i].driver = 0
    BY <1>2, <1>5, <2>0, <2>1, <2>2, <2>3, <2>4, Zenon
  <2>5. CASE devices[i].driver # 0
    <3>1. PICK t \in DriverIds : t = devices[i].driver /\ t <= D
      BY <1>3, <1>8, <2>5 DEF DriverIds
    <3>2. Fits(t, i)'
      BY <2>0, <2>1, <2>5, <3>1, Zenon
    <3>3. \A d \in DriverIds : Fits(d, i)' => t <= d
      BY <2>0, <2>1, <2>5, <3>1, Zenon
    <3>4. t <= D + 1
      BY <1>3, <3>1 DEF DriverIds
    <3> QED BY <1>2, <1>5, <2>0, <2>5, <3>1, <3>2, <3>3, <3>4, Zenon
  <2> QED BY <2>4, <2>5, Zenon
<1>12. (bound_count = Cardinality(BoundIds))'
  BY <1>2, Zenon DEF Inductive, BoundIds, DeviceIds
<1> QED BY <1>9, <1>10, <1>11, <1>12, Zenon DEF Inductive

\* Where the scan goes next
LEMMA ScanIs ==
    ASSUME Inductive, scan.slot < Slots
    PROVE  /\ NextSlot \in [slot : 0 .. Slots, function : 0 .. (Functions - 1)]
           /\ AfterFunction \in [slot : 0 .. Slots, function : 0 .. (Functions - 1)]
           /\ <<scan.slot, scan.function>> \in Places
           /\ Here \in Kinds
<1>1. /\ Slots \in Nat \ {0} /\ Functions \in Nat \ {0}
      /\ config.kind \in [Places -> Kinds]
      /\ scan \in [slot : 0 .. Slots, function : 0 .. (Functions - 1)]
  BY Machine, Zenon DEF Inductive, Types
<1>2. scan.slot \in 0 .. Slots - 1 /\ scan.function \in 0 .. (Functions - 1)
  BY <1>1
<1>3. NextSlot \in [slot : 0 .. Slots, function : 0 .. (Functions - 1)]
  BY <1>1, <1>2 DEF NextSlot
<1>4. scan.function + 1 < Functions =>
         [scan EXCEPT !.function = @ + 1] \in
             [slot : 0 .. Slots, function : 0 .. (Functions - 1)]
  BY <1>1, <1>2
<1>5. <<scan.slot, scan.function>> \in Places
  BY <1>2, Zenon DEF Places
<1> QED BY <1>1, <1>3, <1>4, <1>5, Zenon DEF AfterFunction, Here

\* A place of the bus where nothing answers preserves the invariant.
LEMMA AbsentStep ==
    ASSUME Inductive, ScanAbsent
    PROVE  Inductive'
<1>1. scan.slot < Slots /\ scan' \in {NextSlot, AfterFunction}
  BY Zenon DEF ScanAbsent
<1>2. scan' \in [slot : 0 .. Slots, function : 0 .. (Functions - 1)]
  BY <1>1, ScanIs, Zenon
<1>3. /\ UNCHANGED <<config, ready, buses, drivers, devices, bound_count, stack>>
      /\ UNCHANGED <<block_list, transport_count, logical_count, blk_count,
                     audio_count, ac97, pci_count, missed>>
  BY Zenon DEF ScanAbsent, registry, counts
<1>4. Types'
  BY <1>2, <1>3, Zenon DEF Inductive, Types, DeviceIds
<1> QED BY <1>3, <1>4, WalksKept, Zenon DEF Inductive

\* The walk for a new device has still to come to every driver.
LEMMA PresentStep ==
    ASSUME Inductive, NEW allocated \in BOOLEAN, ScanPresent(allocated)
    PROVE  Inductive'
<1> DEFINE N == Len(devices)
           place == <<scan.slot, scan.function>>
           new == NewDevice(Here, "PCI", place)
<1>1. stack = <<>> /\ scan.slot < Slots /\ Here # "none" /\ scan' = AfterFunction
  BY Zenon DEF ScanPresent
<1>2. /\ UNCHANGED <<config, ready, buses, drivers, bound_count>>
      /\ UNCHANGED <<block_list, transport_count, logical_count, blk_count,
                     audio_count, ac97, pci_count>>
  BY Zenon DEF ScanPresent, counts
<1>3. /\ scan' \in [slot : 0 .. Slots, function : 0 .. (Functions - 1)]
      /\ place \in Places /\ Here \in PciKinds
  BY <1>1, ScanIs, Zenon DEF Kinds
<1>4. devices \in Seq(Device) /\ N \in Nat /\ missed \subseteq Places
  BY DEF Inductive, Types
<1>5. new \in Device /\ new.driver = 0 /\ new.probes = 0 /\ new.bus = "PCI"
  BY <1>3, Zenon DEF NewDevice, Device
<1> HIDE DEF new, place
<1>6. CASE UNCHANGED <<devices, stack>> /\ missed' = missed \cup {place}
  <2>1. missed' \subseteq Places
    BY <1>3, <1>4, <1>6, Zenon
  <2>2. Types'
    BY <1>2, <1>3, <1>6, <2>1, Zenon DEF Inductive, Types, DeviceIds
  <2> QED BY <1>2, <1>6, <2>2, WalksKept, Zenon DEF Inductive
<1>7. CASE /\ devices' = Append(devices, new)
           /\ stack' = Append(stack, Walk("device", N + 1))
           /\ missed' = missed
  <2>1. /\ devices' \in Seq(Device) /\ Len(devices') = N + 1 /\ devices'[N + 1] = new
        /\ \A i \in DeviceIds : devices'[i] = devices[i]
    BY <1>4, <1>5, <1>7 DEF DeviceIds
  <2>2. DeviceIds' = DeviceIds \cup {N + 1} /\ DriverIds' = DriverIds
    <3>1. DeviceIds' = 1 .. (N + 1) /\ DeviceIds = 1 .. N
      BY <2>1, Zenon DEF DeviceIds
    <3>2. 1 .. (N + 1) = 1 .. N \cup {N + 1}
      BY <1>4
    <3>3. DriverIds' = DriverIds
      BY <1>2, Zenon DEF DriverIds
    <3> QED BY <3>1, <3>2, <3>3, Zenon
  <2>3. Walk("device", N + 1) \in Call
    BY <1>4 DEF Walk, Call
  <2>4. /\ stack' \in Seq(Call) /\ Len(stack') = 1 /\ CallIds' = {1}
        /\ stack'[1] = Walk("device", N + 1)
    BY <1>1, <1>7, <2>3 DEF CallIds
  <2>5. Types'
    <3>1. \A i \in DeviceIds' : devices'[i].driver <= Len(drivers')
      <4>1. Len(drivers) \in Nat
        BY DEF Inductive, Types
      <4>2. \A i \in DeviceIds : devices[i].driver <= Len(drivers)
        BY Zenon DEF Inductive, Types
      <4>3. new.driver <= Len(drivers)
        BY <1>5, <4>1
      <4> QED BY <1>2, <2>1, <2>2, <4>2, <4>3, Zenon
    <3> QED BY <1>2, <1>3, <1>7, <2>1, <2>2, <2>4, <3>1, Zenon DEF Inductive, Types
  <2>6. Calls'
    BY SMTT(30), <1>5, <2>1, <2>2, <2>4 DEF Calls, Walk
  <2>7. Bindings'
    <3>1. ASSUME NEW i \in DeviceIds, NEW d PROVE Fits(d, i)' <=> Fits(d, i)
      BY <1>2, <2>1, Zenon DEF Fits
    <3>2. \A i, d : ~Pending(i, d)
      BY <1>1 DEF Pending, CallIds
    <3>3. \A n : n = N + 1 => \A d \in DriverIds' : Pending(n, d)'
      BY <2>4 DEF Pending, Walk, DriverIds
    <3> SUFFICES ASSUME NEW i \in DeviceIds'
                 PROVE  (/\ devices[i].probes = IF devices[i].driver = 0 THEN 0 ELSE 1
                         /\ devices[i].driver = 0 =>
                               \A d \in DriverIds : Fits(d, i) => Pending(i, d)
                         /\ devices[i].driver # 0 =>
                               /\ Fits(devices[i].driver, i)
                               /\ \A d \in DriverIds : Fits(d, i) => devices[i].driver <= d)'
      BY Zenon DEF Bindings
    <3>4. CASE i \in DeviceIds
      BY <2>1, <2>2, <3>1, <3>2, <3>4, Zenon DEF Inductive, Bindings
    <3>5. CASE i = N + 1
      BY <1>5, <2>1, <3>3, <3>5, Zenon
    <3> QED BY <2>2, <3>4, <3>5, Zenon
  <2>8. (bound_count = Cardinality(BoundIds))'
    <3>1. BoundIds' = BoundIds
      <4>1. N + 1 \notin DeviceIds
        BY <1>4 DEF DeviceIds
      <4> QED BY <1>5, <2>1, <2>2, <4>1, Zenon DEF BoundIds
    <3> QED BY <1>2, <3>1, Zenon DEF Inductive
  <2> QED BY <2>5, <2>6, <2>7, <2>8, Zenon DEF Inductive
<1> QED BY <1>6, <1>7, Zenon DEF ScanPresent, StartDevice, new, place

\* Every step preserves the invariant.
LEMMA InductiveStep ==
    ASSUME Inductive, [Next]_vars
    PROVE  Inductive'
<1>1. CASE UNCHANGED vars
  <2>1. /\ UNCHANGED <<config, ready, buses, drivers, devices, bound_count, stack>>
        /\ UNCHANGED <<block_list, transport_count, logical_count, blk_count,
                       audio_count, ac97, pci_count, scan, missed>>
    BY <1>1, Zenon DEF vars, registry, counts
  <2>2. Types'
    BY <2>1, Zenon DEF Inductive, Types, DeviceIds
  <2> QED BY <2>1, <2>2, WalksKept, Zenon DEF Inductive
<1> QED BY <1>1, SkipsStep, BindStep, ReturnsStep, RegisterStep, AbsentStep, PresentStep, Zenon
        DEF Next

\* On every machine, whatever the order in which drivers and devices come and
\* wherever memory runs out: once no registration is under way, each device has
\* the first driver that fits it, each was probed at most once, the bound count is
\* exact, and registrations never nest deeper than two (driver_register_device,
\* driver_register_driver, driver_try_bind, virtio_pci_probe).
THEOREM FirstMatchWins == Spec => []BoundToFirstMatch
<1>1. Inductive /\ [Next]_vars => Inductive'
  BY InductiveStep, Zenon
<1> QED BY <1>1, InductiveInit, InductiveEnough, PTL DEF Spec

-----------------------------------------------------------------------------
(* What the kernel reports: the inductive invariant *)

\* The scan looks at a function other than 0 only in a slot that has a function 0
\* and the multi-function bit.
ScanPlace ==
    scan.function # 0 =>
        /\ scan.slot < Slots
        /\ config.kind[<<scan.slot, 0>>] # "none"
        /\ config.multi[scan.slot]

Logical == {i \in DeviceIds : devices[i].bus = "VIRTIO"}
Ac97s   == {i \in ByDriver("audio-pci") : devices[i].kind = "ac97"}

\* AC'97 controllers are bound in the order in which they are listed.
InOrder ==
    \A i \in DeviceIds, j \in Ac97s :
        i < j /\ devices[i].kind = "ac97" /\ devices[i].bus = "PCI" =>
            devices[i].driver # 0

Transports ==
    \A i \in Logical :
        /\ \E j \in ByDriver("virtio-pci") : devices[j].at = devices[i].at
        /\ \A j \in Logical \ {i} : devices[i].at # devices[j].at

Blocks ==
    /\ \A k \in 1 .. Len(block_list) :
          /\ block_list[k] \in ByDriver("virtio-blk")
          /\ \A l \in 1 .. (k - 1) : block_list[l] # block_list[k]
    /\ Len(block_list) <= blk_count

FirstAc97 ==
    IF Ac97s = {} THEN ac97 = NoController
    ELSE /\ ac97.detected
         /\ \E i \in Ac97s : ac97.at = devices[i].at /\ \A j \in Ac97s : i <= j

Probed ==
    /\ transport_count = Cardinality(ByDriver("virtio-pci"))
    /\ audio_count = Cardinality(ByDriver("audio-pci"))

\* The registrations under way, which are still to be counted
LogicalOpen == IF Len(stack) = 2 THEN 1 ELSE 0
PciOpen     == IF Len(stack) # 0 /\ stack[1].op = "device" THEN 1 ELSE 0

Tallies ==
    /\ Cardinality(Logical) = logical_count + LogicalOpen
    /\ Len(devices) = pci_count + PciOpen + Cardinality(Logical)

ScanInv  == ScanPlace /\ ScanFindsAll
Links    == InOrder /\ Transports /\ Blocks /\ FirstAc97 /\ Probed

Agreement == ScanInv /\ Links /\ Tallies

-----------------------------------------------------------------------------
(* The scan *)

\* The reachable functions that lie before a place of the scan
Before(s) == {p \in Reachable : \/ p[1] < s.slot
                                \/ p[1] = s.slot /\ p[2] < s.function}

PciIds == {i \in DeviceIds : devices[i].bus = "PCI"}

\* The types that the lemmas on the scan need.
LEMMA ScanTypes ==
    ASSUME Inductive
    PROVE  /\ Slots \in Nat \ {0} /\ Functions \in Nat \ {0}
           /\ config.kind \in [Places -> Kinds] /\ DOMAIN config.kind = Places
           /\ config.multi \in [0 .. Slots - 1 -> BOOLEAN]
           /\ scan \in [slot : 0 .. Slots, function : 0 .. (Functions - 1)]
           /\ scan.slot \in Nat /\ scan.slot <= Slots
           /\ scan.function \in Nat /\ scan.function < Functions
<1>1. config \in Configs
      /\ scan \in [slot : 0 .. Slots, function : 0 .. (Functions - 1)]
  BY Zenon DEF Inductive, Types
<1>2. /\ Slots \in Nat \ {0} /\ Functions \in Nat \ {0}
      /\ config.kind \in [Places -> Kinds] /\ DOMAIN config.kind = Places
      /\ config.multi \in [0 .. Slots - 1 -> BOOLEAN]
  BY <1>1, Machine, Zenon
<1>3. scan.slot \in 0 .. Slots /\ scan.function \in 0 .. (Functions - 1)
  BY <1>1, Zenon
<1> QED BY <1>1, <1>2, <1>3

\* A reachable function is a place of the machine.
LEMMA ReachableIs ==
    ASSUME Inductive, NEW p \in Reachable
    PROVE  /\ p[1] \in Nat /\ p[1] < Slots /\ p[2] \in Nat /\ p[2] < Functions
           /\ p = <<p[1], p[2]>>
           /\ config.kind[p] # "none" /\ config.kind[<<p[1], 0>>] # "none"
           /\ p[2] = 0 \/ config.multi[p[1]]
<1>1. p \in Places
  BY ScanTypes, Zenon DEF Reachable
<1>2. p[1] \in 0 .. Slots - 1 /\ p[2] \in 0 .. Functions - 1 /\ p = <<p[1], p[2]>>
  BY <1>1 DEF Places
<1> QED BY <1>2, ScanTypes DEF Reachable

\* A step of the scan leaves one function behind, if that one is there.
LEMMA ScanPasses ==
    ASSUME Inductive, ScanPlace, scan.slot < Slots,
           NEW s, \/ s = AfterFunction
                  \/ s = NextSlot /\ scan.function = 0 /\ Here = "none"
    PROVE  /\ <<scan.slot, scan.function>> \notin Before(scan)
           /\ Before(s) = Before(scan) \cup
                 (IF Here = "none" THEN {} ELSE {<<scan.slot, scan.function>>})
<1> DEFINE place == <<scan.slot, scan.function>>
<1>1. /\ Slots \in Nat /\ Functions \in Nat /\ scan.slot \in Nat
      /\ scan.function \in Nat /\ scan.function < Functions
      /\ config.multi \in [0 .. Slots - 1 -> BOOLEAN]
      /\ DOMAIN config.kind = Places
  BY ScanTypes, Zenon
<1>2. place[1] = scan.slot /\ place[2] = scan.function /\ place \in Places
  BY <1>1 DEF Places
<1>3. place \notin Before(scan)
  BY <1>1, <1>2 DEF Before
<1>4. Here # "none" => place \in Reachable
  <2>1. CASE scan.function = 0
    BY <1>1, <1>2, <2>1, Zenon DEF Reachable, Here
  <2>2. CASE scan.function # 0
    BY <1>1, <1>2, <2>2, Zenon DEF Reachable, Here, ScanPlace
  <2> QED BY <2>1, <2>2, Zenon
<1>5. Here = "none" => place \notin Reachable
  BY Zenon DEF Reachable, Here
<1>6. CASE s = [scan EXCEPT !.function = @ + 1]
  <2>1. s.slot = scan.slot /\ s.function = scan.function + 1
    BY <1>6, ScanTypes, Zenon
  <2>2. ASSUME NEW p \in Reachable
        PROVE  p \in Before(s) <=> p \in Before(scan) \/ p = place
    <3>1. /\ p[1] \in Nat /\ p[2] \in Nat /\ p = <<p[1], p[2]>>
      BY ReachableIs, Zenon
    <3>2. p = place <=> p[1] = scan.slot /\ p[2] = scan.function
      BY <1>2, <3>1, Zenon
    <3> QED BY <1>1, <2>1, <2>2, <3>1, <3>2 DEF Before
  <2> QED BY <1>3, <1>4, <1>5, <2>2, Zenon DEF Before
<1>7. CASE s = NextSlot
  <2>1. s.slot = scan.slot + 1 /\ s.function = 0
    BY <1>7, Zenon DEF NextSlot
  <2>2. ASSUME NEW p \in Reachable
        PROVE  p \in Before(s) <=> p \in Before(scan) \/ p = place
    <3>1. /\ p[1] \in Nat /\ p[2] \in Nat /\ p = <<p[1], p[2]>> /\ p[2] < Functions
          /\ p[1] < Slots
          /\ config.kind[<<p[1], 0>>] # "none" /\ (p[2] = 0 \/ config.multi[p[1]])
      BY ReachableIs, Zenon
    <3>2. p = place <=> p[1] = scan.slot /\ p[2] = scan.function
      BY <1>2, <3>1, Zenon
    <3>3. p[1] = scan.slot => p[2] <= scan.function
      <4> SUFFICES ASSUME p[1] = scan.slot, p[2] > scan.function PROVE FALSE
        BY <1>1, <3>1
      <4>1. config.multi[scan.slot] /\ p[2] # 0
        BY <1>1, <3>1
      <4>2. scan.function + 1 < Functions
        BY <1>1, <3>1
      <4>3. CASE scan.function = 0 /\ Here = "none"
        BY <3>1, <4>3, Zenon DEF Here
      <4>4. CASE s = AfterFunction
        <5>1. s = [scan EXCEPT !.function = @ + 1]
          BY <4>1, <4>2, <4>4, Zenon DEF AfterFunction
        <5>2. s.slot = scan.slot
          BY <5>1, ScanTypes, Zenon
        <5> QED BY <1>1, <2>1, <5>2
      <4> QED BY <4>3, <4>4, Zenon
    <3> QED BY <1>1, <2>1, <2>2, <3>1, <3>2, <3>3 DEF Before
  <2> QED BY <1>3, <1>4, <1>5, <2>2, Zenon DEF Before
<1> QED BY <1>6, <1>7, Zenon DEF AfterFunction

\* ScanPlace is kept by a step of the scan.
LEMMA ScanPlaceStep ==
    ASSUME Inductive, ScanPlace, scan.slot < Slots, config' = config,
           \/ scan' = AfterFunction /\ (Here # "none" \/ scan.function # 0)
           \/ scan' = NextSlot
    PROVE  ScanPlace'
<1>1. scan \in [slot : 0 .. Slots, function : 0 .. (Functions - 1)]
      /\ scan.slot \in Nat /\ scan.function \in Nat
  BY ScanTypes, Zenon
<1>2. CASE scan' = NextSlot
  BY <1>2, Zenon DEF NextSlot, ScanPlace
<1>3. CASE scan' = [scan EXCEPT !.function = @ + 1] /\ config.multi[scan.slot]
           /\ (Here # "none" \/ scan.function # 0)
  <2>1. scan'.slot = scan.slot
    BY <1>1, <1>3, Zenon
  <2>2. config.kind[<<scan.slot, 0>>] # "none"
    BY <1>3, Zenon DEF ScanPlace, Here
  <2> QED BY <1>3, <2>1, <2>2, Zenon DEF ScanPlace
<1> QED BY <1>2, <1>3, Zenon DEF AfterFunction

\* ScanFindsAll, in terms of PciIds.
LEMMA FindsAllIs ==
    ScanFindsAll <=>
        /\ \A i, j \in PciIds : devices[i].at = devices[j].at => i = j
        /\ {devices[i].at : i \in PciIds} \cup missed = Before(scan)
BY Zenon DEF ScanFindsAll, PciIds, Before

\* Only the scan adds PCI devices: other steps leave its result alone.
LEMMA ScanKept ==
    ASSUME ScanInv, UNCHANGED <<config, scan, missed>>,
           DeviceIds \subseteq DeviceIds',
           \A i \in DeviceIds :
              devices'[i].at = devices[i].at /\ devices'[i].bus = devices[i].bus,
           \A i \in DeviceIds' : i \notin DeviceIds => devices'[i].bus = "VIRTIO"
    PROVE  ScanInv'
<1>1. PciIds' = PciIds
  BY Zenon DEF PciIds
<1>2. \A i \in PciIds : devices'[i].at = devices[i].at
  BY Zenon DEF PciIds
<1>3. {devices'[i].at : i \in PciIds'} = {devices[i].at : i \in PciIds}
  BY <1>1, <1>2
<1>4. Before(scan)' = Before(scan)
  BY Zenon DEF Before, Reachable
<1>5. ScanFindsAll
  BY Zenon DEF ScanInv
<1>6. /\ \A i, j \in PciIds' : devices'[i].at = devices'[j].at => i = j
      /\ {devices'[i].at : i \in PciIds'} \cup missed' = Before(scan)'
  BY <1>1, <1>2, <1>3, <1>4, <1>5, FindsAllIs
<1>7. ScanFindsAll'
  BY <1>6, Zenon DEF ScanFindsAll, PciIds, Before
<1>8. ScanPlace'
  BY Zenon DEF ScanInv, ScanPlace
<1> QED BY <1>7, <1>8, Zenon DEF ScanInv

\* A place where nothing answers keeps the scan complete.
LEMMA AbsentScan ==
    ASSUME Inductive, ScanInv, ScanAbsent
    PROVE  ScanInv'
<1>1. /\ scan.slot < Slots /\ Here = "none"
      /\ scan' = IF scan.function = 0 THEN NextSlot ELSE AfterFunction
      /\ UNCHANGED <<config, devices, missed>>
  BY Zenon DEF ScanAbsent, registry
<1>2. ScanPlace /\ ScanFindsAll
  BY Zenon DEF ScanInv
<1>3. ScanPlace'
  BY <1>1, <1>2, ScanPlaceStep, Zenon
<1>4. PICK s : s = scan'
  BY Zenon
<1>5. Before(s) = Before(scan)
  BY <1>1, <1>2, <1>4, ScanPasses, Zenon
<1>6. Before(scan)' = Before(s)
  BY <1>1, <1>4, Zenon DEF Before, Reachable
<1>7. ScanFindsAll'
  BY <1>1, <1>2, <1>5, <1>6, FindsAllIs DEF ScanFindsAll, PciIds, DeviceIds, Before
<1> QED BY <1>3, <1>7, Zenon DEF ScanInv

\* A function that answers is registered, or is missed for want of memory.
LEMMA PresentScan ==
    ASSUME Inductive, ScanInv, NEW allocated \in BOOLEAN, ScanPresent(allocated)
    PROVE  ScanInv'
<1> DEFINE N == Len(devices)
           place == <<scan.slot, scan.function>>
<1>1. /\ scan.slot < Slots /\ Here # "none" /\ scan' = AfterFunction
      /\ config' = config
  BY Zenon DEF ScanPresent
<1>2. ScanPlace /\ ScanFindsAll
  BY Zenon DEF ScanInv
<1>3. ScanPlace'
  BY <1>1, <1>2, ScanPlaceStep, Zenon
<1>4. PICK s : s = scan'
  BY Zenon
<1>5. place \notin Before(scan) /\ Before(s) = Before(scan) \cup {place}
  BY <1>1, <1>2, <1>4, ScanPasses, Zenon
<1>6. Before(scan)' = Before(s)
  BY <1>1, <1>4, Zenon DEF Before, Reachable
<1>7. /\ \A i, j \in PciIds : devices[i].at = devices[j].at => i = j
      /\ {devices[i].at : i \in PciIds} \cup missed = Before(scan)
  BY <1>2, FindsAllIs, Zenon
<1>8. /\ \A i, j \in PciIds' : devices'[i].at = devices'[j].at => i = j
      /\ {devices'[i].at : i \in PciIds'} \cup missed' = Before(scan)'
  <2>1. CASE devices' = devices /\ missed' = missed \cup {place}
    <3>1. PciIds' = PciIds
      BY <2>1, Zenon DEF PciIds, DeviceIds
    <3> QED BY <1>5, <1>6, <1>7, <2>1, <3>1
  <2>2. CASE /\ devices' = Append(devices, NewDevice(Here, "PCI", place))
             /\ missed' = missed
    <3>1. devices \in Seq(Device) /\ N \in Nat
      BY DEF Inductive, Types
    <3>2. /\ Len(devices') = N + 1
          /\ devices'[N + 1] = NewDevice(Here, "PCI", place)
          /\ \A i \in DeviceIds : devices'[i] = devices[i]
      BY <2>2, <3>1 DEF DeviceIds
    <3>3. devices'[N + 1].bus = "PCI" /\ devices'[N + 1].at = place
      BY <3>2 DEF NewDevice
    <3>4. DeviceIds' = DeviceIds \cup {N + 1} /\ N + 1 \notin DeviceIds
      BY <3>1, <3>2 DEF DeviceIds
    <3>5. PciIds' = PciIds \cup {N + 1} /\ N + 1 \notin PciIds
      BY <3>2, <3>3, <3>4, Zenon DEF PciIds
    <3>6. \A i \in PciIds : devices'[i].at = devices[i].at /\ devices[i].at # place
      BY <1>5, <1>7, <3>2, Zenon DEF PciIds
    <3> HIDE DEF place
    <3>7. {devices'[i].at : i \in PciIds'} = {devices[i].at : i \in PciIds} \cup {place}
      BY <3>3, <3>5, <3>6, Zenon
    <3>8. \A i, j \in PciIds' : devices'[i].at = devices'[j].at => i = j
      BY <1>7, <3>3, <3>5, <3>6
    <3> QED BY <1>5, <1>6, <1>7, <2>2, <3>7, <3>8, Zenon
  <2> QED BY <2>1, <2>2, Zenon DEF ScanPresent, StartDevice
<1>9. ScanFindsAll'
  BY <1>8, Zenon DEF ScanFindsAll, PciIds, Before
<1> QED BY <1>3, <1>9, Zenon DEF ScanInv

-----------------------------------------------------------------------------
(* The lists and the counters of the drivers *)

\* What the invariant says of one device.
LEMMA DeviceIs ==
    ASSUME Inductive, NEW i \in DeviceIds
    PROVE  /\ devices[i] \in Device /\ i \in Nat /\ i <= Len(devices)
           /\ devices[i].driver # 0 =>
                 /\ devices[i].driver \in DriverIds
                 /\ Bus(drivers[devices[i].driver]) = devices[i].bus
                 /\ devices[i].kind \in Wanted(drivers[devices[i].driver])
<1>1. devices[i] \in Device
  BY DEF Inductive, Types, DeviceIds
<1>2. devices[i].driver \in Nat /\ devices[i].driver <= Len(drivers)
      /\ Len(drivers) \in Nat /\ Len(devices) \in Nat
  BY SMTT(30), <1>1 DEF Device, Inductive, Types
<1>3. devices[i].driver # 0 => devices[i].driver \in DriverIds
  BY <1>2 DEF DriverIds
<1>4. devices[i].driver # 0 => Fits(devices[i].driver, i)
  BY Zenon DEF Inductive, Bindings
<1>5. i \in Nat /\ i <= Len(devices)
  BY <1>2 DEF DeviceIds
<1> QED BY <1>1, <1>3, <1>4, <1>5, Zenon DEF Fits, Matches

\* Sets of devices are finite.
LEMMA FiniteIds ==
    ASSUME Inductive, NEW S \in SUBSET DeviceIds
    PROVE  IsFiniteSet(S) /\ Cardinality(S) \in Nat
<1>1. Len(devices) \in Nat
  BY DEF Inductive, Types
<1>2. IsFiniteSet(DeviceIds)
  BY <1>1, FS_Interval DEF DeviceIds
<1>3. IsFiniteSet(S)
  BY <1>2, FS_Subset, Zenon
<1> QED BY <1>3, FS_CardinalityType, Zenon

\* A step that binds nothing, and adds no logical device, leaves the links alone.
LEMMA LinksKept ==
    ASSUME Inductive, Links,
           UNCHANGED <<block_list, transport_count, blk_count, audio_count, ac97>>,
           \A d \in DriverIds : drivers'[d] = drivers[d],
           DeviceIds \subseteq DeviceIds',
           \A i \in DeviceIds : devices'[i] = devices[i],
           \A i \in DeviceIds' : i \notin DeviceIds =>
              devices'[i].driver = 0 /\ devices'[i].bus = "PCI" /\ i > Len(devices)
    PROVE  Links' /\ Logical' = Logical
<1>1. ASSUME NEW n PROVE ByDriver(n)' = ByDriver(n)
  <2>1. \A i \in DeviceIds : i \in ByDriver(n)' <=> i \in ByDriver(n)
    BY DeviceIs, Zenon DEF ByDriver
  <2>2. \A i \in DeviceIds' : i \notin DeviceIds => i \notin ByDriver(n)'
    BY Zenon DEF ByDriver
  <2>3. ByDriver(n) \subseteq DeviceIds /\ ByDriver(n)' \subseteq DeviceIds'
    BY Zenon DEF ByDriver
  <2> QED BY <2>1, <2>2, <2>3, Zenon
<1>2. Logical' = Logical
  BY Zenon DEF Logical
<1>3. Ac97s' = Ac97s /\ Ac97s \subseteq DeviceIds
  BY <1>1, Zenon DEF Ac97s, ByDriver
<1>4. InOrder'
  <2> SUFFICES ASSUME NEW i \in DeviceIds', NEW j \in Ac97s', i < j,
                      devices'[i].kind = "ac97", devices'[i].bus = "PCI"
               PROVE  devices'[i].driver # 0
    BY Zenon DEF InOrder
  <2>1. j \in Ac97s /\ j \in Nat /\ j <= Len(devices) /\ Len(devices) \in Nat
    <3>1. j \in Ac97s /\ j \in DeviceIds
      BY <1>3, Zenon
    <3>2. Len(devices) \in Nat
      BY DEF Inductive, Types
    <3> QED BY <3>1, <3>2 DEF DeviceIds
  <2>2. i \in DeviceIds
    <3> SUFFICES ASSUME i \notin DeviceIds PROVE FALSE
      BY Zenon
    <3>1. i > Len(devices) /\ i \in Int
      BY DEF DeviceIds
    <3> QED BY <2>1, <3>1
  <2> QED BY <2>1, <2>2, Zenon DEF Links, InOrder
<1>5. Transports'
  <2>1. Logical \subseteq DeviceIds /\ ByDriver("virtio-pci") \subseteq DeviceIds
    BY Zenon DEF Logical, ByDriver
  <2> QED BY <1>1, <1>2, <2>1 DEF Links, Transports
<1>6. Blocks'
  BY <1>1, Zenon DEF Links, Blocks
<1>7. FirstAc97'
  BY <1>3, Zenon DEF Links, FirstAc97
<1>8. Probed'
  BY <1>1, Zenon DEF Links, Probed
<1> QED BY <1>2, <1>4, <1>5, <1>6, <1>7, <1>8, Zenon DEF Links

\* What the probe of a binding does to the lists and the counters
LEMMA ProbeIs ==
    ASSUME Inductive, TryBind
    PROVE  LET name == drivers[TopDriver]
           IN  /\ logical_count' = logical_count
               /\ transport_count' = IF name = "virtio-pci" THEN transport_count + 1
                                     ELSE transport_count
               /\ audio_count' = IF name = "audio-pci" THEN audio_count + 1
                                 ELSE audio_count
               /\ \/ UNCHANGED <<blk_count, block_list>>
                  \/ name = "virtio-blk" /\ blk_count' = blk_count + 1
                     /\ block_list' \in {block_list, Append(block_list, TopDevice)}
               /\ IF name = "audio-pci" /\ devices[TopDevice].kind = "ac97"
                        /\ ~ac97.detected
                  THEN ac97'.detected /\ ac97'.at = devices[TopDevice].at
                  ELSE ac97' = ac97
<1> DEFINE name == drivers[TopDriver]
<1>1. Probe(name, TopDevice, BoundList, Advanced)
  BY Zenon DEF TryBind, BoundList
<1>2. /\ BoundList[TopDevice].kind = devices[TopDevice].kind
      /\ BoundList[TopDevice].at = devices[TopDevice].at
  BY TryBindIs, TopIs, BoundListIs, Zenon
<1> HIDE DEF name
<1>3. CASE name = "virtio-pci" /\ VirtioPciProbe(TopDevice, BoundList, Advanced)
  BY <1>3, ZenonT(30) DEF VirtioPciProbe, name
<1>4. CASE name = "virtio-blk" /\ VirtioBlkProbe(TopDevice, BoundList, Advanced)
  BY <1>4, Zenon DEF VirtioBlkProbe, BlockRegister, name
<1>5. CASE name = "audio-pci" /\ AudioPciProbe(TopDevice, BoundList, Advanced)
  <2>1. IF devices[TopDevice].kind = "ac97" /\ ~ac97.detected
        THEN ac97'.detected /\ ac97'.at = devices[TopDevice].at
        ELSE ac97' = ac97
    <3>1. Ac97TryInit(BoundList[TopDevice])
      BY <1>5, Zenon DEF AudioPciProbe
    <3> QED BY <1>2, <3>1 DEF Ac97TryInit
  <2> QED BY <1>5, <2>1, Zenon DEF AudioPciProbe, name
<1>6. CASE name = "dummy-pci" /\ DummyPciProbe(BoundList, Advanced)
  BY <1>6, Zenon DEF DummyPciProbe, counts, name
<1>7. \/ name = "virtio-pci" /\ VirtioPciProbe(TopDevice, BoundList, Advanced)
      \/ name = "virtio-blk" /\ VirtioBlkProbe(TopDevice, BoundList, Advanced)
      \/ name = "audio-pci" /\ AudioPciProbe(TopDevice, BoundList, Advanced)
      \/ name = "dummy-pci" /\ DummyPciProbe(BoundList, Advanced)
  BY <1>1, Zenon DEF Probe
<1> QED BY <1>3, <1>4, <1>5, <1>6, <1>7, Zenon

\* A device that is bound to a PCI driver leaves no earlier device to that driver.
LEMMA NoEarlierDevice ==
    ASSUME Inductive, WalkGoesOn, devices[TopDevice].bus = "PCI",
           NEW i \in DeviceIds, devices[i].driver = 0, Fits(TopDriver, i)
    PROVE  TopDevice <= i
<1>1. /\ TopDevice \in DeviceIds /\ TopDriver \in DriverIds /\ Top \in Call
      /\ Len(stack) \in CallIds /\ Len(stack) \in {1, 2}
  BY TopIs, Zenon
<1>2. PICK k \in CallIds :
         \/ stack[k].op = "device" /\ stack[k].node = i /\ stack[k].cursor <= TopDriver
         \/ stack[k].op = "driver" /\ stack[k].node = TopDriver /\ stack[k].cursor <= i
  BY <1>1 DEF Inductive, Bindings, Pending
<1>3. Len(stack) = 1
  <2>1. CASE Top.op = "device"
    BY <1>1, <2>1, Zenon DEF Inductive, Calls, Top, TopDevice
  <2>2. CASE Top.op = "driver"
    BY <1>1, <2>2, Zenon DEF Inductive, Calls, Top
  <2> QED BY <1>1, <2>1, <2>2, Zenon DEF Call
<1>4. stack[k] = Top
  BY <1>3 DEF CallIds, Top
<1>5. TopDevice \in Nat /\ i \in Nat
  BY <1>1 DEF DeviceIds
<1> QED BY <1>2, <1>4, <1>5 DEF TopDevice

\* What a binding does to the sets
LEMMA BindSets ==
    ASSUME Inductive, TryBind
    PROVE  /\ \A n : /\ TopDevice \notin ByDriver(n)
                     /\ ByDriver(n)' = IF drivers[TopDriver] = n
                                       THEN ByDriver(n) \cup {TopDevice} ELSE ByDriver(n)
           /\ Logical' = IF Grown THEN Logical \cup {Len(devices) + 1} ELSE Logical
           /\ Len(devices) + 1 \notin DeviceIds
<1>1. drivers' = drivers
  BY TryBindIs, Zenon
<1>2. /\ TopDevice \in DeviceIds /\ Len(devices) \in Nat /\ TopDriver # 0
      /\ devices[TopDevice].driver = 0
  BY BindLists, Zenon
<1>3. \A i \in DeviceIds :
         /\ devices'[i].bus = devices[i].bus
         /\ devices'[i].driver = IF i = TopDevice THEN TopDriver ELSE devices[i].driver
  BY BindLists, Zenon
<1>4. /\ DeviceIds \subseteq DeviceIds'
      /\ \A i \in DeviceIds' : i \notin DeviceIds =>
            /\ Grown /\ i = Len(devices) + 1
            /\ devices'[i].driver = 0 /\ devices'[i].bus = "VIRTIO"
      /\ Grown => Len(devices) + 1 \in DeviceIds'
  BY BindLists, Zenon
<1>5. Len(devices) + 1 \notin DeviceIds
  BY <1>2 DEF DeviceIds
<1>6. ASSUME NEW n
      PROVE  /\ TopDevice \notin ByDriver(n)
             /\ ByDriver(n)' = IF drivers[TopDriver] = n
                               THEN ByDriver(n) \cup {TopDevice} ELSE ByDriver(n)
  <2>1. TopDevice \notin ByDriver(n)
    BY <1>2, Zenon DEF ByDriver
  <2>2. TopDevice \in ByDriver(n)' <=> drivers[TopDriver] = n
    BY <1>1, <1>2, <1>3, <1>4, Zenon DEF ByDriver
  <2>3. \A i : i # TopDevice => (i \in ByDriver(n)' <=> i \in ByDriver(n))
    BY <1>1, <1>3, <1>4, Zenon DEF ByDriver
  <2> QED BY <2>1, <2>2, <2>3
<1>7. Logical' = IF Grown THEN Logical \cup {Len(devices) + 1} ELSE Logical
  <2>1. \A i \in DeviceIds : i \in Logical' <=> i \in Logical
    BY <1>3, <1>4, Zenon DEF Logical
  <2>2. Logical \subseteq DeviceIds /\ Logical' \subseteq DeviceIds'
    BY Zenon DEF Logical
  <2>3. \A i \in Logical' : i \notin DeviceIds => Grown /\ i = Len(devices) + 1
    BY <1>4, <2>2, Zenon
  <2>4. Grown => Len(devices) + 1 \in Logical'
    BY <1>4, <1>5, Zenon DEF Logical
  <2> QED BY <2>1, <2>2, <2>3, <2>4, Zenon
<1> QED BY <1>5, <1>6, <1>7, Zenon

\* A binding keeps transports and their block devices paired.
LEMMA BindTransports ==
    ASSUME Inductive, ScanInv, Transports, TryBind
    PROVE  Transports'
<1> DEFINE new == Len(devices) + 1
           virtio == ByDriver("virtio-pci")
<1>1. /\ Logical' = (IF Grown THEN Logical \cup {new} ELSE Logical)
      /\ new \notin DeviceIds
      /\ virtio' = (IF drivers[TopDriver] = "virtio-pci" THEN virtio \cup {TopDevice}
                    ELSE virtio)
      /\ TopDevice \notin virtio
  BY BindSets, Zenon
<1>2. /\ TopDevice \in DeviceIds
      /\ \A i \in DeviceIds : devices'[i].at = devices[i].at
      /\ Grown => drivers[TopDriver] = "virtio-pci"
      /\ Grown => devices'[new].at = devices[TopDevice].at
  BY BindLists, Zenon
<1>3. Logical \subseteq DeviceIds /\ virtio \subseteq DeviceIds
  BY Zenon DEF Logical, ByDriver
<1>4. virtio \subseteq PciIds
  <2> SUFFICES ASSUME NEW j \in virtio PROVE j \in PciIds
    BY Zenon
  <2>1. j \in DeviceIds /\ devices[j].driver # 0
        /\ drivers[devices[j].driver] = "virtio-pci"
    BY Zenon DEF ByDriver
  <2>2. devices[j].bus = Bus("virtio-pci")
    BY <2>1, DeviceIs, Zenon
  <2> QED BY <2>1, <2>2, Zenon DEF PciIds, Bus
<1>5. ASSUME Grown, NEW i \in Logical PROVE devices[i].at # devices[TopDevice].at
  <2>1. PICK j \in virtio : devices[j].at = devices[i].at
    BY Zenon DEF Transports
  <2>2. TopDevice \in PciIds
    <3>1. Matches(drivers[TopDriver], devices[TopDevice])
      BY TryBindIs, Zenon DEF Bindable
    <3> QED BY <1>2, <1>5, <3>1, Zenon DEF Matches, Bus, PciIds
  <2>3. j # TopDevice
    BY <1>1, Zenon
  <2>4. devices[j].at # devices[TopDevice].at
    BY <1>4, <2>2, <2>3, FindsAllIs, Zenon DEF ScanInv
  <2> QED BY <2>1, <2>4, Zenon
<1> HIDE DEF new
<1>6. ASSUME NEW i \in Logical'
      PROVE  \E j \in virtio' : devices'[j].at = devices'[i].at
  <2>1. CASE i \in Logical
    <3>1. PICK j \in virtio : devices[j].at = devices[i].at
      BY <2>1, Zenon DEF Transports
    <3>2. j \in virtio' /\ devices'[j].at = devices'[i].at
      BY <1>1, <1>2, <1>3, <2>1, <3>1, Zenon
    <3> QED BY <3>2, Zenon
  <2>2. CASE i = new /\ Grown
    <3>1. TopDevice \in virtio'
      BY <1>1, <1>2, <2>2, Zenon
    <3> QED BY <1>2, <2>2, <3>1, Zenon
  <2> QED BY <1>1, <1>6, <2>1, <2>2, Zenon
<1>7. ASSUME NEW i \in Logical', NEW j \in Logical', i # j
      PROVE  devices'[i].at # devices'[j].at
  <2>1. CASE i \in Logical /\ j \in Logical
    BY <1>2, <1>3, <1>7, <2>1, Zenon DEF Transports
  <2>2. CASE i \in Logical /\ j = new /\ Grown
    BY <1>2, <1>3, <1>5, <2>2, Zenon
  <2>3. CASE j \in Logical /\ i = new /\ Grown
    BY <1>2, <1>3, <1>5, <2>3, Zenon
  <2> QED BY <1>1, <1>7, <2>1, <2>2, <2>3, Zenon
<1> QED BY <1>6, <1>7, Zenon DEF Transports

\* A binding keeps every block device behind a bound transport.
LEMMA BindBlocks ==
    ASSUME Inductive, Blocks, TryBind
    PROVE  Blocks'
<1> DEFINE blk == ByDriver("virtio-blk")
<1>1. block_list \in Seq(Nat) /\ blk_count \in Nat
  BY Zenon DEF Inductive, Types
<1>2. /\ TopDevice \notin blk
      /\ blk' = IF drivers[TopDriver] = "virtio-blk" THEN blk \cup {TopDevice} ELSE blk
  BY BindSets, Zenon
<1>3. blk \subseteq blk'
  BY <1>2, Zenon
<1>4. /\ \A k \in 1 .. Len(block_list) :
            /\ block_list[k] \in blk
            /\ \A l \in 1 .. (k - 1) : block_list[l] # block_list[k]
      /\ Len(block_list) <= blk_count
  BY Zenon DEF Blocks
<1> DEFINE Result ==
              /\ \A k \in 1 .. Len(block_list') :
                    /\ block_list'[k] \in blk'
                    /\ \A l \in 1 .. (k - 1) : block_list'[l] # block_list'[k]
              /\ Len(block_list') <= blk_count'
<1>5. ASSUME block_list' = block_list, blk_count' \in {blk_count, blk_count + 1}
      PROVE  Result
  <2>1. Len(block_list') <= blk_count'
    BY <1>1, <1>4, <1>5
  <2> QED BY <1>3, <1>4, <1>5, <2>1, Zenon
<1>6. ASSUME drivers[TopDriver] = "virtio-blk", blk_count' = blk_count + 1,
             block_list' = Append(block_list, TopDevice)
      PROVE  Result
  <2> DEFINE n == Len(block_list)
  <2>1. /\ n \in Nat /\ Len(block_list') = n + 1 /\ block_list'[n + 1] = TopDevice
        /\ \A k \in 1 .. n : block_list'[k] = block_list[k]
    BY <1>1, <1>6
  <2>2. Len(block_list') <= blk_count'
    BY <1>1, <1>4, <1>6, <2>1
  <2>3. TopDevice \in blk'
    BY <1>2, <1>6, Zenon
  <2> HIDE DEF n, blk
  <2>4. ASSUME NEW k \in 1 .. (n + 1)
        PROVE  /\ block_list'[k] \in blk'
               /\ \A l \in 1 .. (k - 1) : block_list'[l] # block_list'[k]
    <3>1. CASE k \in 1 .. n
      <4>1. 1 .. (k - 1) \subseteq 1 .. n
        BY <2>1, <3>1
      <4> QED BY <1>3, <1>4, <2>1, <3>1, <4>1, Zenon DEF n
    <3>2. CASE k = n + 1
      <4>1. 1 .. (k - 1) = 1 .. n
        BY <2>1, <3>2
      <4>2. \A l \in 1 .. n : block_list'[l] \in blk
        BY <1>4, <2>1, Zenon DEF n
      <4> QED BY <1>2, <2>1, <2>3, <3>2, <4>1, <4>2, Zenon
    <3> QED BY <2>1, <3>1, <3>2
  <2> QED BY <2>1, <2>2, <2>4, Zenon
<1>7. Result
  BY <1>5, <1>6, ProbeIs, Zenon
<1> QED BY <1>7, Zenon DEF Blocks

\* A binding keeps the bound AC97 device the first one.
LEMMA BindAc97 ==
    ASSUME Inductive, InOrder, FirstAc97, TryBind
    PROVE  InOrder' /\ FirstAc97'
<1> DEFINE Taken == drivers[TopDriver] = "audio-pci" /\ devices[TopDevice].kind = "ac97"
<1>1. /\ TopDevice \in DeviceIds /\ TopDevice \in Nat
      /\ devices[TopDevice].driver = 0 /\ Fits(TopDriver, TopDevice)
      /\ \A i \in DeviceIds :
            /\ devices'[i].kind = devices[i].kind /\ devices'[i].bus = devices[i].bus
            /\ devices'[i].at = devices[i].at
            /\ i # TopDevice => devices'[i].driver = devices[i].driver
      /\ devices'[TopDevice].driver # 0
      /\ \A i \in DeviceIds' : i \notin DeviceIds => devices'[i].bus = "VIRTIO"
  BY BindLists, Zenon
<1>2. Ac97s \subseteq DeviceIds /\ TopDevice \notin Ac97s
  BY BindSets, Zenon DEF Ac97s, ByDriver
<1>3. Ac97s' = IF Taken THEN Ac97s \cup {TopDevice} ELSE Ac97s
  <2>1. ByDriver("audio-pci")' = IF drivers[TopDriver] = "audio-pci"
                                 THEN ByDriver("audio-pci") \cup {TopDevice}
                                 ELSE ByDriver("audio-pci")
    BY BindSets, Zenon
  <2>2. ByDriver("audio-pci") \subseteq DeviceIds
    BY Zenon DEF ByDriver
  <2> QED BY <1>1, <2>1, <2>2, ZenonT(60) DEF Ac97s
<1>4. Taken => devices[TopDevice].bus = "PCI"
  BY <1>1, Zenon DEF Fits, Matches, Bus
<1>5. InOrder'
  <2> SUFFICES ASSUME NEW i \in DeviceIds', NEW j \in Ac97s', i < j,
                      devices'[i].kind = "ac97", devices'[i].bus = "PCI",
                      devices'[i].driver = 0
               PROVE  FALSE
    BY Zenon DEF InOrder
  <2>1. i \in DeviceIds /\ i # TopDevice
    BY <1>1, Zenon
  <2>2. devices[i].kind = "ac97" /\ devices[i].bus = "PCI" /\ devices[i].driver = 0
    BY <1>1, <2>1, Zenon
  <2>3. CASE j \in Ac97s
    BY <2>1, <2>2, <2>3, Zenon DEF InOrder
  <2>4. CASE j = TopDevice /\ Taken
    <3>1. Fits(TopDriver, i)
      BY <2>2, <2>4, Zenon DEF Fits, Matches, Bus, Wanted, AudioPciWants
    <3>2. TopDevice <= i
      BY <1>4, <2>1, <2>2, <2>4, <3>1, TryBindIs, NoEarlierDevice, Zenon
    <3>3. i \in Nat
      BY <2>1 DEF DeviceIds
    <3> QED BY <1>1, <2>4, <3>2, <3>3
  <2> QED BY <1>3, <2>3, <2>4, Zenon
<1>6. FirstAc97'
  <2>1. CASE ~Taken
    <3>1. ac97' = ac97 /\ Ac97s' = Ac97s
      BY <1>3, <2>1, ProbeIs, Zenon
    <3>2. \A i \in Ac97s : devices'[i].at = devices[i].at
      BY <1>1, <1>2, Zenon
    <3> QED BY <3>1, <3>2, Zenon DEF FirstAc97
  <2>2. CASE Taken /\ Ac97s = {}
    <3>1. ~ac97.detected
      BY <2>2 DEF FirstAc97, NoController
    <3>2. ac97'.detected /\ ac97'.at = devices[TopDevice].at
      BY <2>2, <3>1, ProbeIs, Zenon
    <3>3. Ac97s' = {TopDevice}
      BY <1>3, <2>2, Zenon
    <3> QED BY <1>1, <3>2, <3>3 DEF FirstAc97
  <2>3. CASE Taken /\ Ac97s # {}
    <3>1. ac97.detected /\ \E i \in Ac97s : /\ ac97.at = devices[i].at
                                            /\ \A j \in Ac97s : i <= j
      BY <2>3, Zenon DEF FirstAc97
    <3>2. PICK i \in Ac97s : ac97.at = devices[i].at /\ \A j \in Ac97s : i <= j
      BY <3>1, Zenon
    <3>3. ac97' = ac97
      BY <3>1, ProbeIs, Zenon
    <3>4. i \in DeviceIds /\ i \in Nat
      BY <1>2 DEF DeviceIds
    <3>5. i <= TopDevice
      BY <1>1, <1>4, <2>3, <3>4 DEF InOrder
    <3>6. \A j \in Ac97s' : i <= j
      BY <1>3, <3>2, <3>5, Zenon
    <3>7. i \in Ac97s' /\ ac97'.detected /\ ac97'.at = devices'[i].at
      BY <1>1, <1>3, <3>1, <3>2, <3>3, <3>4, Zenon
    <3> QED BY <3>6, <3>7, Zenon DEF FirstAc97
  <2> QED BY <2>1, <2>2, <2>3, Zenon
<1> QED BY <1>5, <1>6, Zenon

\* A binding keeps every probe accounted for.
LEMMA BindProbed ==
    ASSUME Inductive, Probed, TryBind
    PROVE  Probed'
<1>1. ASSUME NEW n
      PROVE  Cardinality(ByDriver(n)') = IF drivers[TopDriver] = n
                                         THEN Cardinality(ByDriver(n)) + 1
                                         ELSE Cardinality(ByDriver(n))
  <2>1. ByDriver(n) \in SUBSET DeviceIds
    BY Zenon DEF ByDriver
  <2>2. IsFiniteSet(ByDriver(n))
    BY <2>1, FiniteIds, Zenon
  <2>3. /\ TopDevice \notin ByDriver(n)
        /\ ByDriver(n)' = IF drivers[TopDriver] = n
                          THEN ByDriver(n) \cup {TopDevice} ELSE ByDriver(n)
    BY BindSets, Zenon
  <2> QED BY <2>2, <2>3, FS_AddElement, Zenon
<1>2. /\ transport_count' = IF drivers[TopDriver] = "virtio-pci" THEN transport_count + 1
                            ELSE transport_count
      /\ audio_count' = IF drivers[TopDriver] = "audio-pci" THEN audio_count + 1
                        ELSE audio_count
  BY ProbeIs, Zenon
<1> QED BY <1>1, <1>2, Zenon DEF Probed

-----------------------------------------------------------------------------
(* The counters of devices *)

\* The types that the lemmas on the counters need.
LEMMA TallyTypes ==
    ASSUME Inductive
    PROVE  /\ logical_count \in Nat /\ pci_count \in Nat /\ Len(devices) \in Nat
           /\ Len(stack) \in Nat /\ Len(stack) <= 2
           /\ IsFiniteSet(Logical) /\ Cardinality(Logical) \in Nat
           /\ LogicalOpen \in Nat /\ PciOpen \in Nat
<1>1. /\ logical_count \in Nat /\ pci_count \in Nat /\ Len(devices) \in Nat
      /\ Len(stack) \in Nat /\ Len(stack) <= 2
  BY DEF Inductive, Types, Calls
<1>2. Logical \in SUBSET DeviceIds
  BY Zenon DEF Logical
<1> QED BY <1>1, <1>2, FiniteIds, Zenon DEF LogicalOpen, PciOpen

\* No device comes, and the walks stay open.
LEMMA TalliesKept ==
    ASSUME Tallies, UNCHANGED <<devices, logical_count, pci_count>>,
           LogicalOpen' = LogicalOpen, PciOpen' = PciOpen
    PROVE  Tallies'
<1>1. Logical' = Logical
  BY Zenon DEF Logical, DeviceIds
<1> QED BY <1>1, Zenon DEF Tallies

\* A binding keeps the counters equal to what they count.
LEMMA BindTallies ==
    ASSUME Inductive, Tallies, TryBind
    PROVE  Tallies'
<1>1. logical_count' = logical_count /\ pci_count' = pci_count
  BY ProbeIs, TryBindIs, Zenon
<1>2. /\ Len(stack) \in {1, 2} /\ Len(stack) \in CallIds
      /\ \A k \in CallIds : stack'[k].op = stack[k].op
      /\ Grown => Len(stack) = 1 /\ Len(stack') = 2
      /\ ~Grown => Len(devices') = Len(devices) /\ Len(stack') = Len(stack)
  <2>1. Len(stack) \in {1, 2} /\ Len(stack) \in CallIds
    BY BindLists, Zenon
  <2>2. \A k \in CallIds : stack'[k].op = stack[k].op
    BY BindLists, Zenon
  <2>3. Grown => Len(stack) = 1 /\ Len(stack') = 2
    BY BindLists, Zenon
  <2>4. ~Grown => Len(devices') = Len(devices) /\ Len(stack') = Len(stack)
    BY BindLists, Zenon
  <2> QED BY <2>1, <2>2, <2>3, <2>4, Zenon
<1>3. PciOpen' = PciOpen
  <2>1. 1 \in CallIds
    BY <1>2 DEF CallIds
  <2>2. Len(stack) # 0 /\ Len(stack') # 0
    BY <1>2
  <2> QED BY <1>2, <2>1, <2>2, Zenon DEF PciOpen
<1>4. /\ Logical' = (IF Grown THEN Logical \cup {Len(devices) + 1} ELSE Logical)
      /\ Len(devices) + 1 \notin Logical
  BY BindSets, Zenon DEF Logical
<1>5. CASE ~Grown
  <2>1. LogicalOpen' = LogicalOpen
    BY <1>2, <1>5, Zenon DEF LogicalOpen
  <2> QED BY <1>1, <1>2, <1>3, <1>4, <1>5, <2>1, Zenon DEF Tallies
<1>6. CASE Grown
  <2>1. LogicalOpen = 0 /\ LogicalOpen' = 1
    BY <1>2, <1>6 DEF LogicalOpen
  <2>2. Cardinality(Logical') = Cardinality(Logical) + 1
    BY <1>4, <1>6, TallyTypes, FS_AddElement, Zenon
  <2>3. Len(devices') = Len(devices) + 1
    BY <1>6, Zenon DEF Grown
  <2>4. /\ Cardinality(Logical) = logical_count + LogicalOpen
        /\ Len(devices) = pci_count + PciOpen + Cardinality(Logical)
    BY Zenon DEF Tallies
  <2>5. Cardinality(Logical') = logical_count' + LogicalOpen'
    BY <1>1, <2>1, <2>2, <2>4, TallyTypes
  <2>6. Len(devices') = pci_count' + PciOpen' + Cardinality(Logical')
    BY SMTT(30), <1>1, <1>3, <2>2, <2>3, <2>4, TallyTypes
  <2> QED BY <2>5, <2>6, Zenon DEF Tallies
<1> QED BY <1>5, <1>6, Zenon

\* A walk that is over is counted by its caller.
LEMMA ReturnsTallies ==
    ASSUME Inductive, Tallies, WalkReturns
    PROVE  Tallies'
<1> DEFINE child == Top.op = "device" /\ devices[Top.node].bus = "VIRTIO"
           outer == Top.op = "device" /\ devices[Top.node].bus # "VIRTIO"
<1>1. /\ stack # <<>> /\ stack' = SubSeq(stack, 1, Len(stack) - 1)
      /\ devices' = devices
      /\ logical_count' = (IF child THEN logical_count + 1 ELSE logical_count)
      /\ pci_count' = (IF outer THEN pci_count + 1 ELSE pci_count)
  BY Zenon DEF WalkReturns, registry
<1>2. stack \in Seq(Call) /\ Len(stack) \in Nat /\ Len(stack) <= 2
  BY TallyTypes, Zenon DEF Inductive, Types
<1>3. Len(stack) = 1 \/ Len(stack) = 2
  <2>1. Len(stack) # 0
    BY <1>1, <1>2
  <2>2. \A n \in Nat : n # 0 /\ n <= 2 => n = 1 \/ n = 2
    OBVIOUS
  <2> QED BY <1>2, <2>1, <2>2, Zenon
<1>4. Logical' = Logical
  BY <1>1, Zenon DEF Logical, DeviceIds
<1>5. /\ Cardinality(Logical) = logical_count + LogicalOpen
      /\ Len(devices) = pci_count + PciOpen + Cardinality(Logical)
  BY Zenon DEF Tallies
<1>6. ASSUME Len(stack) = 2
      PROVE  /\ child /\ Len(stack') = 1 /\ LogicalOpen = 1 /\ LogicalOpen' = 0
             /\ PciOpen' = PciOpen
  <2>1. 2 \in CallIds /\ Top = stack[2] /\ Top \in Call
    BY <1>6, CallIs DEF CallIds, Top
  <2>2. child
    <3>1. Top.op # "driver" /\ Top.op \in {"device", "driver"}
      BY <2>1 DEF Inductive, Calls, Call
    <3> QED BY <2>1, <3>1 DEF Inductive, Calls
  <2>3. stack' = SubSeq(stack, 1, 1) /\ stack[1] \in Call
    BY <1>1, <1>2, <1>6
  <2>4. Len(stack') = 1 /\ stack'[1] = stack[1]
    BY <1>2, <1>6, <2>3
  <2> QED BY <1>6, <2>2, <2>4 DEF LogicalOpen, PciOpen
<1>7. ASSUME Len(stack) = 1
      PROVE  /\ ~child /\ Len(stack') = 0 /\ LogicalOpen = 0 /\ LogicalOpen' = 0
             /\ PciOpen = (IF outer THEN 1 ELSE 0) /\ PciOpen' = 0
  <2>1. 1 \in CallIds /\ Top = stack[1]
    BY <1>7 DEF CallIds, Top
  <2>2. Top.op = "device" => devices[Top.node].bus = "PCI"
    BY <2>1, Zenon DEF Inductive, Calls
  <2>3. stack' = <<>>
    BY <1>1, <1>7
  <2> QED BY <1>7, <2>1, <2>2, <2>3 DEF LogicalOpen, PciOpen
<1>8. CASE Len(stack) = 2
  <2>1. logical_count' = logical_count + 1 /\ pci_count' = pci_count
    BY <1>1, <1>6, <1>8, Zenon
  <2>2. Cardinality(Logical') = logical_count' + LogicalOpen'
    BY <1>4, <1>5, <1>6, <1>8, <2>1, TallyTypes
  <2>3. Len(devices') = pci_count' + PciOpen' + Cardinality(Logical')
    BY <1>1, <1>4, <1>5, <1>6, <1>8, <2>1, Zenon
  <2> QED BY <2>2, <2>3, Zenon DEF Tallies
<1>9. CASE Len(stack) = 1
  <2>1. logical_count' = logical_count /\ pci_count' = pci_count + PciOpen
    BY <1>1, <1>7, <1>9, TallyTypes
  <2>2. Cardinality(Logical') = logical_count' + LogicalOpen'
    BY <1>4, <1>5, <1>7, <1>9, <2>1, Zenon
  <2>3. Len(devices') = pci_count' + PciOpen' + Cardinality(Logical')
    BY <1>1, <1>4, <1>5, <1>7, <1>9, <2>1, TallyTypes
  <2> QED BY <2>2, <2>3, Zenon DEF Tallies
<1> QED BY <1>3, <1>8, <1>9, Zenon

\* Registering a PCI function keeps the counters equal to what they count.
LEMMA PresentCounts ==
    ASSUME Inductive, Links, Tallies, NEW allocated \in BOOLEAN, ScanPresent(allocated)
    PROVE  Links' /\ Tallies'
<1> DEFINE N == Len(devices)
           new == NewDevice(Here, "PCI", <<scan.slot, scan.function>>)
<1>1. /\ stack = <<>> /\ drivers' = drivers
      /\ UNCHANGED <<block_list, transport_count, blk_count, audio_count, ac97>>
      /\ UNCHANGED <<logical_count, pci_count>>
  BY Zenon DEF ScanPresent, counts
<1>2. devices \in Seq(Device) /\ N \in Nat
  BY DEF Inductive, Types
<1>3. new.driver = 0 /\ new.bus = "PCI"
  BY Zenon DEF NewDevice
<1> HIDE DEF new
<1>4. LogicalOpen = 0 /\ PciOpen = 0
  BY <1>1 DEF LogicalOpen, PciOpen
<1>5. CASE devices' = devices /\ stack' = stack
  <2>1. DeviceIds' = DeviceIds
    BY <1>5, Zenon DEF DeviceIds
  <2>2. Links'
    BY <1>1, <1>5, <2>1, LinksKept, Zenon
  <2>3. Tallies'
    BY <1>1, <1>5, TalliesKept, Zenon DEF LogicalOpen, PciOpen
  <2> QED BY <2>2, <2>3, Zenon
<1>6. CASE /\ devices' = Append(devices, new)
           /\ stack' = Append(stack, Walk("device", N + 1))
  <2>1. /\ Len(devices') = N + 1 /\ devices'[N + 1] = new
        /\ \A i \in DeviceIds : devices'[i] = devices[i]
    BY <1>2, <1>6 DEF DeviceIds
  <2>2. DeviceIds' = DeviceIds \cup {N + 1} /\ N + 1 > N
    BY <1>2, <2>1 DEF DeviceIds
  <2>3. Links' /\ Logical' = Logical
    BY <1>1, <1>3, <2>1, <2>2, LinksKept, Zenon
  <2>4. Len(stack') = 1 /\ stack'[1].op = "device"
    BY <1>1, <1>6 DEF Walk
  <2>5. LogicalOpen' = 0 /\ PciOpen' = 1
    BY <2>4 DEF LogicalOpen, PciOpen
  <2>6. /\ Cardinality(Logical) = logical_count + LogicalOpen
        /\ N = pci_count + PciOpen + Cardinality(Logical)
    BY Zenon DEF Tallies
  <2>7. N + 1 = pci_count + 1 + Cardinality(Logical)
    BY <1>4, <2>6, TallyTypes
  <2>8. Tallies'
    BY <1>1, <1>4, <2>1, <2>3, <2>5, <2>6, <2>7, Zenon DEF Tallies
  <2> QED BY <2>3, <2>8, Zenon
<1> QED BY <1>5, <1>6, Zenon DEF ScanPresent, StartDevice, new

-----------------------------------------------------------------------------
\* The empty registry agrees with itself.
LEMMA AgreementInit == Init => Agreement
<1> SUFFICES ASSUME Init PROVE Agreement
  BY Zenon
<1>1. Inductive
  BY InductiveInit, Zenon
<1>2. DeviceIds = {} /\ scan.slot = 0 /\ scan.function = 0 /\ missed = {}
  BY DEF Init, DeviceIds
<1>3. PciIds = {} /\ Logical = {} /\ Ac97s = {} /\ \A n : ByDriver(n) = {}
  BY <1>2, Zenon DEF PciIds, Logical, Ac97s, ByDriver
<1>4. Before(scan) = {}
  <2> SUFFICES ASSUME NEW p \in Reachable PROVE p \notin Before(scan)
    BY Zenon DEF Before
  <2>1. p[1] \in Nat /\ p[2] \in Nat
    BY <1>1, ReachableIs, Zenon
  <2> QED BY <1>2, <2>1 DEF Before
<1>5. ScanInv
  BY <1>2, <1>3, <1>4, FindsAllIs, Zenon DEF ScanInv, ScanPlace
<1>6. Links
  <2>1. InOrder /\ Transports /\ FirstAc97
    BY <1>2, <1>3, Zenon DEF Init, InOrder, Transports, FirstAc97
  <2>2. Blocks
    BY DEF Init, Blocks
  <2>3. Probed
    BY <1>3, FS_EmptySet, Zenon DEF Init, Probed
  <2> QED BY <2>1, <2>2, <2>3, Zenon DEF Links
<1>7. Tallies
  BY <1>3, FS_EmptySet DEF Init, Tallies, LogicalOpen, PciOpen
<1> QED BY <1>5, <1>6, <1>7, Zenon DEF Agreement

\* Every step keeps the registry in agreement.
LEMMA AgreementStep ==
    ASSUME Inductive, Agreement, [Next]_vars
    PROVE  Agreement'
<1>1. ScanInv /\ Links /\ Tallies
  BY Zenon DEF Agreement
<1>2. ASSUME UNCHANGED <<config, devices, scan, missed>>,
             \A d \in DriverIds : drivers'[d] = drivers[d],
             UNCHANGED <<block_list, transport_count, blk_count, audio_count, ac97>>
      PROVE  ScanInv' /\ Links'
  <2>1. DeviceIds' = DeviceIds
    BY <1>2, Zenon DEF DeviceIds
  <2> QED BY <1>1, <1>2, <2>1, ScanKept, LinksKept, Zenon
<1>3. CASE UNCHANGED vars
  <2>1. UNCHANGED <<config, devices, scan, missed, drivers, stack, block_list,
                    transport_count, blk_count, audio_count, ac97, logical_count,
                    pci_count>>
    BY <1>3, Zenon DEF vars, registry, counts
  <2> QED BY <1>1, <1>2, <2>1, TalliesKept, Zenon DEF Agreement, LogicalOpen, PciOpen
<1>4. CASE TryBindSkips
  <2>1. /\ UNCHANGED <<config, devices, scan, missed, drivers, block_list,
                       transport_count, blk_count, audio_count, ac97, logical_count,
                       pci_count>>
        /\ WalkGoesOn /\ stack' = Advanced
    BY <1>4, Zenon DEF TryBindSkips, registry, counts
  <2>2. /\ Len(stack') = Len(stack) /\ 1 \in CallIds
        /\ \A k \in CallIds : stack'[k].op = stack[k].op
    BY <2>1, AdvancedIs, TopIs DEF CallIds
  <2>3. LogicalOpen' = LogicalOpen /\ PciOpen' = PciOpen
    BY <2>2, Zenon DEF LogicalOpen, PciOpen
  <2> QED BY <1>1, <1>2, <2>1, <2>3, TalliesKept, Zenon DEF Agreement
<1>5. CASE TryBind
  <2>1. ScanInv'
    <3>1. /\ DeviceIds \subseteq DeviceIds'
          /\ \A i \in DeviceIds :
                devices'[i].at = devices[i].at /\ devices'[i].bus = devices[i].bus
          /\ \A i \in DeviceIds' : i \notin DeviceIds => devices'[i].bus = "VIRTIO"
      BY <1>5, BindLists, Zenon
    <3> QED BY <1>1, <1>5, <3>1, ScanKept, TryBindIs, Zenon
  <2>2. Links'
    BY <1>1, <1>5, BindTransports, BindBlocks, BindAc97, BindProbed, Zenon DEF Links
  <2>3. Tallies'
    BY <1>1, <1>5, BindTallies, Zenon
  <2> QED BY <2>1, <2>2, <2>3, Zenon DEF Agreement
<1>6. CASE WalkReturns
  <2>1. UNCHANGED <<config, devices, scan, missed, drivers, block_list,
                    transport_count, blk_count, audio_count, ac97>>
    BY <1>6, Zenon DEF WalkReturns, registry
  <2> QED BY <1>1, <1>2, <1>6, <2>1, ReturnsTallies, Zenon DEF Agreement
<1>7. ASSUME NEW name \in DriverNames, RegisterDriver(name)
      PROVE  Agreement'
  <2>1. /\ UNCHANGED <<config, devices, scan, missed, block_list, transport_count,
                       blk_count, audio_count, ac97, logical_count, pci_count>>
        /\ stack = <<>> /\ stack' = <<Walk("driver", Len(drivers) + 1)>>
        /\ drivers' = Append(drivers, name)
    BY <1>7, Zenon DEF RegisterDriver, counts
  <2>2. drivers \in Seq(DriverNames)
    BY Zenon DEF Inductive, Types
  <2>3. \A d \in DriverIds : drivers'[d] = drivers[d]
    BY <2>1, <2>2 DEF DriverIds
  <2>4. LogicalOpen' = LogicalOpen /\ PciOpen' = PciOpen
    BY <2>1 DEF LogicalOpen, PciOpen, Walk
  <2> QED BY <1>1, <1>2, <2>1, <2>3, <2>4, TalliesKept, Zenon DEF Agreement
<1>8. CASE ScanAbsent
  <2>1. UNCHANGED <<devices, drivers, stack, block_list, transport_count, blk_count,
                    audio_count, ac97, logical_count, pci_count>>
    BY <1>8, Zenon DEF ScanAbsent, registry, counts
  <2>2. DeviceIds' = DeviceIds
    BY <2>1, Zenon DEF DeviceIds
  <2>3. Links'
    BY <1>1, <2>1, <2>2, LinksKept, Zenon
  <2>4. Tallies'
    BY <1>1, <2>1, TalliesKept, Zenon DEF LogicalOpen, PciOpen
  <2> QED BY <1>1, <1>8, <2>3, <2>4, AbsentScan, Zenon DEF Agreement
<1>9. ASSUME NEW allocated \in BOOLEAN, ScanPresent(allocated)
      PROVE  Agreement'
  BY <1>1, <1>9, PresentScan, PresentCounts, Zenon DEF Agreement
<1> QED BY <1>3, <1>4, <1>5, <1>6, <1>7, <1>8, <1>9, Zenon DEF Next

\* The invariants imply what the run checks.
LEMMA AgreementEnough == Inductive /\ Agreement => RegistryAgrees
<1> SUFFICES ASSUME Inductive, Agreement PROVE RegistryAgrees
  BY Zenon
<1>1. stack = <<>> => /\ logical_count = Cardinality(Logical)
                      /\ pci_count = Len(devices) - Cardinality(Logical)
  <2> SUFFICES ASSUME stack = <<>>
               PROVE  /\ logical_count = Cardinality(Logical)
                      /\ pci_count = Len(devices) - Cardinality(Logical)
    BY Zenon
  <2>1. LogicalOpen = 0 /\ PciOpen = 0
    BY DEF LogicalOpen, PciOpen
  <2>2. /\ Cardinality(Logical) = logical_count + LogicalOpen
        /\ Len(devices) = pci_count + PciOpen + Cardinality(Logical)
    BY Zenon DEF Agreement, Tallies
  <2> QED BY <2>1, <2>2, TallyTypes
<1>2. InOrder /\ Transports /\ Blocks /\ FirstAc97 /\ Probed
  BY Zenon DEF Agreement, Links
<1>3. CountersAgree
  BY <1>1, <1>2, Zenon
     DEF CountersAgree, Transports, Blocks, FirstAc97, Probed, Logical, Ac97s
<1> QED BY <1>3, Zenon DEF RegistryAgrees, Agreement, ScanInv

\* On every machine, what the kernel reports of its devices is true: the scan
\* registers each function that is there once and misses one only for want of
\* memory, each logical device has its own bound transport, the block devices are
\* distinct and bound, the AC'97 state is that of the first controller, and the
\* counters agree with the lists (pci_scan_slot, virtio_pci_probe,
\* virtio_blk_probe, audio_ac97_try_init).
THEOREM RegistryIsTrue == Spec => []RegistryAgrees
<1>1. Inductive /\ Agreement /\ [Next]_vars => Inductive' /\ Agreement'
  BY InductiveStep, AgreementStep, Zenon
<1>2. Init => Inductive /\ Agreement
  BY InductiveInit, AgreementInit, Zenon
<1> QED BY <1>1, <1>2, AgreementEnough, PTL DEF Spec

-----------------------------------------------------------------------------
(* The sounds: the inductive invariant *)

ToneAt == {"reset", "start", "play", "guard", "finish"}
NoteAt == {"note", "sounding", "gap"}

SoundTypes ==
    /\ mode \in {"boot", "prompt", "beep", "melody", "tone", "alert", "halted"}
    /\ interrupts \in BOOLEAN /\ speaker \in BOOLEAN
    /\ timer_ticks \in 0 .. (Word - 1) /\ quarter \in 0 .. 3
    /\ dma \in [running : BOOLEAN, left : Nat]
    /\ notes \in Seq(Notes)
    /\ \A i \in 1 .. Len(notes) : Counted(WaitTicks(notes[i].ms))
    /\ at \in {"idle"} \cup NoteAt \cup ToneAt
    /\ wait \in [clock : {"none", "ticks", "count"}, start : Nat, amount : Nat]
    /\ held \in Nat

\* Who is at work
AtWork ==
    /\ mode \in {"boot", "prompt", "halted"} <=> at = "idle"
    /\ mode = "tone" <=> at \in ToneAt
    /\ mode \in {"prompt", "beep", "melody", "tone"} => interrupts
    /\ at \in {"sounding", "gap"} => notes # <<>>

\* What may be on
On ==
    /\ speaker =>
          \/ at = "sounding"
          \/ at = "note" /\ mode = "alert" /\ notes = Alert
    /\ dma.running => mode \in {"alert", "halted"} \/ at \in {"play", "guard"}

\* A wait for n ticks is under way, and before held was reset or the wait before
\* this one ended, past quarters have been counted.
TicksRun(n, past) ==
    /\ wait.clock = "ticks" /\ wait.amount = n
    /\ Elapsed <= n
    /\ Elapsed = n => quarter = 0
    /\ past + 4 * Elapsed + quarter - held \in 0 .. 3

\* A wait for n reloads of channel 0
CountRun(n) ==
    /\ wait.clock = "count" /\ wait.amount <= n
    /\ wait.amount = 0 => quarter \in {0, 2}
    /\ 2 * (n - wait.amount) + (IF quarter \in {1, 3} THEN 1 ELSE 0) - held \in 0 .. 1

FirstWait == WaitTicks(ToneMs + MarginMs)
LastWait  == WaitTicks(GuardMs)

Clocks ==
    /\ at = "sounding" =>
          \E n \in {WaitTicks(Head(notes).ms)} :
              (interrupts /\ TicksRun(n, 0)) \/ CountRun(n)
    /\ at = "play" => TicksRun(FirstWait, 0)
    /\ at = "guard" => TicksRun(LastWait, 4 * FirstWait)

SoundInv == SoundTypes /\ AtWork /\ On /\ Clocks

-----------------------------------------------------------------------------
(* The waits *)

\* The constants of the sound drivers are numbers.
LEMMA SoundNumbers ==
    /\ Hz \in Nat \ {0} /\ Word \in Nat \ {0} /\ BeepMs \in Nat \ {0}
    /\ ToneMs \in Nat /\ MarginMs \in Nat /\ GuardMs \in Nat /\ MaxHeld \in Nat
BY SoundAssumption, Zenon

\* The waits round up to whole ticks, of which there is at least one.
LEMMA WaitTicksIs ==
    ASSUME NEW ms \in Nat
    PROVE  /\ WaitTicks(ms) \in Nat \ {0}
           /\ ms # 0 => 1000 * WaitTicks(ms) \in (Hz * ms) .. (Hz * ms + 999)
<1> DEFINE p == ms * Hz
           t == (p + 999) \div 1000
<1>1. p \in Nat /\ p = Hz * ms /\ (ms # 0 => p # 0)
  BY SoundNumbers, Z3
<1> HIDE DEF p
<1>2. p + 999 \in Nat
  BY <1>1
<1>3. t \in Nat /\ 1000 * t <= p + 999 /\ p + 999 < 1000 * t + 1000
  BY <1>2, SMT
<1> HIDE DEF t
<1>4. WaitTicks(ms) = IF t = 0 THEN 1 ELSE t
  BY Zenon DEF WaitTicks, t, p
<1>5. WaitTicks(ms) \in Nat \ {0}
  BY <1>3, <1>4
<1>6. ASSUME ms # 0 PROVE 1000 * WaitTicks(ms) \in p .. (p + 999)
  <2>1. t # 0 /\ 1000 * t >= p
    BY <1>1, <1>3, <1>6, SMT
  <2>2. WaitTicks(ms) = t
    BY <1>4, <2>1, Zenon
  <2> QED BY <1>1, <1>3, <2>1, <2>2, SMT
<1> QED BY <1>1, <1>5, <1>6

\* A wait on ticks has begun.
LEMMA TicksBegin ==
    ASSUME SoundTypes, NEW n \in Nat \ {0}, NEW past \in Nat,
           wait' = OnTicks(n), UNCHANGED <<timer_ticks, quarter>>,
           held' \in Nat, past + quarter - held' \in 0 .. 3
    PROVE  TicksRun(n, past)'
<1>1. /\ timer_ticks \in 0 .. (Word - 1) /\ quarter \in 0 .. 3
      /\ wait'.clock = "ticks" /\ wait'.amount = n /\ wait'.start = timer_ticks
  BY Zenon DEF SoundTypes, OnTicks
<1>2. timer_ticks' - wait'.start = 0
  BY <1>1, SoundNumbers
<1>3. Elapsed' = 0
  BY <1>2, SoundNumbers, ModSmall DEF Elapsed
<1>4. quarter' = quarter /\ quarter \in Nat
  BY <1>1
<1>5. past + 4 * 0 + quarter' - held' = past + quarter - held'
  BY <1>4
<1>6. Elapsed' <= n /\ (Elapsed' = n => quarter' = 0)
  BY <1>3
<1>7. past + 4 * Elapsed' + quarter' - held' \in 0 .. 3
  BY <1>3, <1>5, Zenon
<1> QED BY <1>1, <1>6, <1>7, Zenon DEF TicksRun

\* It goes on, and the counter may wrap meanwhile.
LEMMA TicksGoOn ==
    ASSUME SoundTypes, TimePasses, interrupts, NEW n \in Nat, NEW past \in Nat,
           TicksRun(n, past), n < Word, past + 4 * n <= MaxHeld
    PROVE  TicksRun(n, past)'
<1> DEFINE e == Elapsed
<1>1. /\ timer_ticks \in 0 .. (Word - 1) /\ quarter \in 0 .. 3 /\ held \in Nat
      /\ wait.start \in Nat
  BY Zenon DEF SoundTypes
<1>2. /\ wait.clock = "ticks" /\ wait.amount = n
      /\ past + 4 * e + quarter - held \in 0 .. 3
  BY Zenon DEF TicksRun
<1>3. timer_ticks - wait.start \in Int
  BY <1>1, SoundNumbers
<1>4. e \in 0 .. (Word - 1)
  BY <1>3, SoundNumbers, ModRange, Zenon DEF Elapsed
<1>5. ~(e >= n)
  BY <1>2, Zenon DEF TimePasses, Polling, WaitOver
<1>6. wait' = wait /\ quarter' = (quarter + 1) % 4
  BY <1>2, Zenon DEF TimePasses
<1>7. timer_ticks' = IF quarter = 3 THEN (timer_ticks + 1) % Word ELSE timer_ticks
  BY Zenon DEF TimePasses
<1>8. Elapsed' = IF quarter = 3 THEN e + 1 ELSE e
  <2>1. CASE quarter # 3
    BY <1>6, <1>7, <2>1, Zenon DEF Elapsed
  <2>2. CASE quarter = 3
    <3> DEFINE d == timer_ticks - wait.start
               c == -wait.start
    <3>1. c \in Int /\ timer_ticks + 1 \in Int /\ (timer_ticks + 1) + c = d + 1 /\ d \in Int
      BY <1>1, SoundNumbers
    <3>2. (timer_ticks + 1) % Word \in 0 .. (Word - 1)
      BY <3>1, SoundNumbers, ModRange, Zenon
    <3>3. Elapsed' = (((timer_ticks + 1) % Word) - wait.start) % Word
      BY <1>6, <1>7, <2>2, Zenon DEF Elapsed
    <3>4. ((timer_ticks + 1) % Word) - wait.start = ((timer_ticks + 1) % Word) + c
      BY <1>1, <3>2, SoundNumbers, Zenon
    <3> HIDE DEF d, c
    <3>5. Elapsed' = (d + 1) % Word
      BY <3>1, <3>3, <3>4, SoundNumbers, ModAdd
    <3>6. ((d % Word) + 1) % Word = (d + 1) % Word
      <4>1. 1 \in Int
        OBVIOUS
      <4> QED BY <3>1, <4>1, SoundNumbers, ModAdd, Zenon
    <3>7. d % Word = e
      BY Zenon DEF Elapsed, d
    <3> HIDE DEF e
    <3>8. e + 1 \in 0 .. (Word - 1)
      BY <1>4, <1>5, SoundNumbers
    <3>9. (e + 1) % Word = e + 1
      BY <3>8, SoundNumbers, ModSmall, Zenon
    <3> QED BY <2>2, <3>5, <3>6, <3>7, <3>9, Zenon
  <2> QED BY <2>1, <2>2, Zenon
<1>9. quarter' = IF quarter = 3 THEN 0 ELSE quarter + 1
  BY <1>1, <1>6, SMT
<1> HIDE DEF e
<1>10. held < MaxHeld
  BY <1>1, <1>2, <1>4, <1>5, SoundNumbers
<1>11. held' = held + 1
  BY <1>10, Zenon DEF TimePasses
<1>12. Elapsed' <= n /\ (Elapsed' = n => quarter' = 0)
  BY <1>1, <1>4, <1>5, <1>8, <1>9
<1>13. past + 4 * Elapsed' + quarter' - held' \in 0 .. 3
  BY <1>1, <1>2, <1>4, <1>8, <1>9, <1>11
<1> QED BY <1>2, <1>6, <1>12, <1>13, Zenon DEF TicksRun

\* So does a wait on the counter of channel 0, with two periods a tick.
LEMMA CountGoesOn ==
    ASSUME SoundTypes, TimePasses, NEW n \in Nat, CountRun(n), 4 * n <= MaxHeld
    PROVE  CountRun(n)'
<1> DEFINE a == wait.amount
<1>1. quarter \in 0 .. 3 /\ held \in Nat /\ a \in Nat
      /\ wait \in [clock : {"none", "ticks", "count"}, start : Nat, amount : Nat]
  BY Zenon DEF SoundTypes
<1>2. /\ wait.clock = "count" /\ a <= n
      /\ 2 * (n - a) + (IF quarter \in {1, 3} THEN 1 ELSE 0) - held \in 0 .. 1
  BY Zenon DEF CountRun
<1>3. a # 0
  BY <1>2, Zenon DEF TimePasses, Polling, WaitOver
<1>4. quarter' = IF quarter = 3 THEN 0 ELSE quarter + 1
  <2>1. quarter' = (quarter + 1) % 4
    BY Zenon DEF TimePasses
  <2> QED BY <1>1, <2>1, SMT
<1>5. wait' = IF quarter \in {1, 3} THEN [wait EXCEPT !.amount = a - 1] ELSE wait
  BY <1>2, Zenon DEF TimePasses
<1>6. /\ wait'.clock = "count"
      /\ wait'.amount = IF quarter \in {1, 3} THEN a - 1 ELSE a
  BY <1>1, <1>2, <1>5, Zenon
<1> HIDE DEF a
<1>7. held < MaxHeld
  BY <1>1, <1>2, <1>3, SoundNumbers
<1>8. held' = held + 1
  BY <1>7, Zenon DEF TimePasses
<1>9. wait'.amount <= n /\ (wait'.amount = 0 => quarter' \in {0, 2})
  BY <1>1, <1>2, <1>3, <1>4, <1>6
<1>10. 2 * (n - wait'.amount) + (IF quarter' \in {1, 3} THEN 1 ELSE 0) - held' \in 0 .. 1
  BY <1>1, <1>2, <1>4, <1>6, <1>8
<1> QED BY <1>6, <1>9, <1>10, Zenon DEF CountRun

-----------------------------------------------------------------------------
(* The steps *)

\* Silence satisfies the invariant.
LEMMA SoundInitInv == SInit => SoundInv
<1> SUFFICES ASSUME SInit PROVE SoundInv
  BY Zenon
<1>1. SoundTypes
  <2>1. /\ dma \in [running : BOOLEAN, left : Nat]
        /\ wait \in [clock : {"none", "ticks", "count"}, start : Nat, amount : Nat]
    BY Zenon DEF SInit, Silent, NoWait
  <2>2. notes \in Seq(Notes) /\ 1 .. Len(notes) = {}
    BY DEF SInit
  <2>3. timer_ticks \in 0 .. (Word - 1) /\ quarter \in 0 .. 3 /\ held \in Nat
    BY SoundNumbers DEF SInit
  <2>4. /\ mode = "boot" /\ interrupts \in BOOLEAN /\ speaker \in BOOLEAN
        /\ at \in {"idle"} \cup NoteAt \cup ToneAt
    BY Zenon DEF SInit
  <2> QED BY <2>1, <2>2, <2>3, <2>4, Zenon DEF SoundTypes
<1>2. AtWork /\ On /\ Clocks
  BY Zenon DEF SInit, AtWork, On, Clocks, Silent, ToneAt
<1> QED BY <1>1, <1>2, Zenon DEF SoundInv

\* The notes that are left when one is done
LEMMA NotesLeft ==
    ASSUME SoundTypes, notes # <<>>, notes' = Tail(notes)
    PROVE  /\ notes' \in Seq(Notes)
           /\ \A i \in 1 .. Len(notes') : Counted(WaitTicks(notes'[i].ms))
<1>1. notes \in Seq(Notes) /\ \A i \in 1 .. Len(notes) : Counted(WaitTicks(notes[i].ms))
  BY Zenon DEF SoundTypes
<1>2. notes' \in Seq(Notes) /\ Len(notes') = Len(notes) - 1 /\ Len(notes) \in Nat
  BY <1>1
<1>3. ASSUME NEW i \in 1 .. Len(notes')
      PROVE  notes'[i] = notes[i + 1] /\ i + 1 \in 1 .. Len(notes)
  BY <1>1, <1>2
<1> QED BY <1>1, <1>2, <1>3, Zenon

\* The first note left to play is a note whose wait the tick counter can count.
LEMMA FirstNote ==
    ASSUME SoundTypes, notes # <<>>
    PROVE  Head(notes) \in Notes /\ Counted(WaitTicks(Head(notes).ms))
<1>1. notes \in Seq(Notes) /\ \A i \in 1 .. Len(notes) : Counted(WaitTicks(notes[i].ms))
  BY Zenon DEF SoundTypes
<1>2. 1 \in 1 .. Len(notes) /\ Head(notes) = notes[1]
  BY <1>1
<1> QED BY <1>1, <1>2

\* The waits of a note
LEMMA NoteWaitIs ==
    ASSUME SoundTypes, NEW ms \in Nat
    PROVE  NoteWait(ms) \in [clock : {"none", "ticks", "count"}, start : Nat, amount : Nat]
<1>1. WaitTicks(ms) \in Nat
  BY WaitTicksIs
<1>2. timer_ticks \in Nat
  BY SoundNumbers DEF SoundTypes
<1> QED BY <1>1, <1>2, Zenon DEF NoteWait, OnTicks, OnCount

\* Steps of the driver model leave the sound alone.
LEMMA BootSound ==
    ASSUME SoundInv, UNCHANGED soundVars
    PROVE  SoundInv'
<1>1. UNCHANGED <<mode, interrupts, timer_ticks, quarter, speaker, dma, notes, at, wait, held>>
  BY Zenon DEF soundVars
<1> QED
  BY <1>1, ZenonT(30)
  DEF SoundInv, SoundTypes, AtWork, On, Clocks, TicksRun, CountRun, Elapsed

\* The shell starts in silence.
LEMMA EnterSound ==
    ASSUME SoundInv, EnterShell
    PROVE  SoundInv'
<1>1. SoundTypes'
  BY Zenon DEF SoundInv, SoundTypes, EnterShell
<1>2. AtWork' /\ On' /\ Clocks'
  BY Zenon DEF SoundInv, AtWork, On, Clocks, EnterShell, ToneAt
<1> QED BY <1>1, <1>2, Zenon DEF SoundInv

\* A command of the speaker starts a list of notes.
LEMMA PlaySound ==
    ASSUME SoundInv, NEW command \in {"beep", "melody", "alert"}, NEW ns \in Seq(Notes),
           PlayNotes(command, ns), \A i \in 1 .. Len(ns) : Counted(WaitTicks(ns[i].ms))
    PROVE  SoundInv'
<1>1. SoundTypes'
  <2>1. timer_ticks' \in 0 .. (Word - 1) /\ quarter' \in 0 .. 3 /\ held' \in Nat
    BY SoundAssumption, Zenon DEF PlayNotes, Typed
  <2> QED BY <2>1, ZenonT(30) DEF SoundInv, SoundTypes, PlayNotes, Typed, NoWait, NoteAt
<1>2. AtWork' /\ On' /\ Clocks'
  BY Zenon DEF SoundInv, AtWork, On, Clocks, PlayNotes, Typed, ToneAt
<1> QED BY <1>1, <1>2, Zenon DEF SoundInv

\* The tone command starts the AC97.
LEMMA ToneSound ==
    ASSUME SoundInv, Ac97Tone
    PROVE  SoundInv'
<1>1. SoundTypes'
  <2>1. timer_ticks' \in 0 .. (Word - 1) /\ quarter' \in 0 .. 3 /\ held' \in Nat
    BY SoundAssumption, Zenon DEF Ac97Tone, Typed
  <2> QED BY <2>1, Zenon DEF SoundInv, SoundTypes, Ac97Tone, Typed, ToneAt
<1>2. AtWork' /\ On' /\ Clocks'
  BY Zenon DEF SoundInv, AtWork, On, Clocks, Ac97Tone, Typed, ToneAt
<1> QED BY <1>1, <1>2, Zenon DEF SoundInv

\* A device that stops answering preserves the invariant.
LEMMA FaultSound ==
    ASSUME SoundInv, Fault
    PROVE  SoundInv'
<1>1. SoundTypes'
  BY SoundAssumption, Zenon DEF SoundInv, SoundTypes, Fault, NoWait, NoteAt
<1>2. AtWork' /\ On' /\ Clocks'
  BY Zenon DEF SoundInv, AtWork, On, Clocks, Fault, ToneAt
<1> QED BY <1>1, <1>2, Zenon DEF SoundInv

\* A tick preserves the invariant.
LEMMA TimeSound ==
    ASSUME SoundInv, TimePasses
    PROVE  SoundInv'
<1>1. SoundTypes /\ AtWork /\ On /\ Clocks
  BY Zenon DEF SoundInv
<1>2. UNCHANGED <<mode, interrupts, speaker, notes, at>>
  BY Zenon DEF TimePasses
<1>3. dma' \in [running : BOOLEAN, left : Nat] /\ dma'.running = dma.running
  BY <1>1 DEF TimePasses, SoundTypes
<1>4. wait' \in [clock : {"none", "ticks", "count"}, start : Nat, amount : Nat]
  <2>1. wait.clock = "count" => wait.amount # 0
    BY Zenon DEF TimePasses, Polling, WaitOver
  <2> DEFINE a == wait.amount - 1
  <2>2. wait.clock = "count" => a \in Nat
    BY <1>1, <2>1 DEF SoundTypes
  <2>3. wait' = wait \/ (wait.clock = "count" /\ wait' = [wait EXCEPT !.amount = a])
    BY Zenon DEF TimePasses
  <2> HIDE DEF a
  <2> QED BY <1>1, <2>2, <2>3, Zenon DEF SoundTypes
<1>5. timer_ticks' \in 0 .. (Word - 1) /\ quarter' \in 0 .. 3 /\ held' \in Nat
  <2>1. timer_ticks + 1 \in Int /\ quarter + 1 \in Int /\ held \in Nat
    BY <1>1, SoundNumbers DEF SoundTypes
  <2>2. (timer_ticks + 1) % Word \in 0 .. (Word - 1)
    BY <2>1, SoundNumbers, ModRange, Zenon
  <2>3. (quarter + 1) % 4 \in 0 .. 3
    BY <2>1, SMT
  <2>4. timer_ticks' = (timer_ticks + 1) % Word \/ timer_ticks' = timer_ticks
    BY Zenon DEF TimePasses
  <2>5. quarter' = (quarter + 1) % 4 /\ (held' = held + 1 \/ held' = held)
    BY Zenon DEF TimePasses
  <2> QED BY <1>1, <2>1, <2>2, <2>3, <2>4, <2>5 DEF SoundTypes
<1>6. SoundTypes'
  BY <1>1, <1>2, <1>3, <1>4, <1>5, Zenon DEF SoundTypes
<1>7. AtWork' /\ On'
  BY <1>1, <1>2, <1>3, Zenon DEF AtWork, On
<1>8. Clocks'
  <2>1. ASSUME at' = "sounding"
        PROVE  \E n \in {WaitTicks(Head(notes').ms)} :
                   (interrupts' /\ TicksRun(n, 0)') \/ CountRun(n)'
    <3>1. at = "sounding" /\ notes # <<>> /\ notes' = notes
      BY <1>1, <1>2, <2>1, Zenon DEF AtWork
    <3>2. PICK n \in {WaitTicks(Head(notes).ms)} :
             (interrupts /\ TicksRun(n, 0)) \/ CountRun(n)
      BY <1>1, <3>1, Zenon DEF Clocks
    <3>3. Head(notes).ms \in Nat /\ Counted(WaitTicks(Head(notes).ms))
      BY <1>1, <3>1, FirstNote, Zenon DEF Notes
    <3>4. n \in Nat /\ n < Word /\ 4 * n <= MaxHeld /\ 0 + 4 * n <= MaxHeld /\ 0 \in Nat
      BY <3>3, WaitTicksIs DEF Counted
    <3>5. CASE interrupts /\ TicksRun(n, 0)
      <4>1. TicksRun(n, 0)'
        BY <1>1, <3>4, <3>5, TicksGoOn, Zenon
      <4> QED BY <1>2, <3>1, <3>5, <4>1, Zenon
    <3>6. CASE CountRun(n)
      <4>1. CountRun(n)'
        BY <1>1, <3>4, <3>6, CountGoesOn, Zenon
      <4> QED BY <3>1, <4>1, Zenon
    <3> QED BY <3>2, <3>5, <3>6, Zenon
  <2>2. /\ FirstWait \in Nat /\ LastWait \in Nat /\ FirstWait < Word /\ LastWait < Word
        /\ 0 + 4 * FirstWait <= MaxHeld /\ 4 * FirstWait + 4 * LastWait <= MaxHeld
    <3>1. FirstWait \in Nat /\ LastWait \in Nat
      BY SoundNumbers, WaitTicksIs DEF FirstWait, LastWait
    <3>2. Counted(FirstWait + LastWait)
      BY SoundAssumption, Zenon DEF FirstWait, LastWait
    <3> QED BY <3>1, <3>2, SoundNumbers DEF Counted
  <2>3. at \in {"play", "guard"} => interrupts
    BY <1>1, Zenon DEF AtWork, ToneAt
  <2>4. at' = "play" => TicksRun(FirstWait, 0)'
    BY <1>1, <1>2, <2>2, <2>3, TicksGoOn, Zenon DEF Clocks
  <2>5. at' = "guard" => TicksRun(LastWait, 4 * FirstWait)'
    <3>1. 4 * FirstWait \in Nat
      BY <2>2
    <3>2. ASSUME at = "guard" PROVE TicksRun(LastWait, 4 * FirstWait)'
      <4>1. TicksRun(LastWait, 4 * FirstWait) /\ interrupts
        BY <1>1, <2>3, <3>2, Zenon DEF Clocks
      <4> QED BY <1>1, <2>2, <3>1, <4>1, TicksGoOn, Zenon
    <3> QED BY <1>2, <3>2, Zenon
  <2> QED BY <2>1, <2>4, <2>5, Zenon DEF Clocks
<1> QED BY <1>6, <1>7, <1>8, Zenon DEF SoundInv

\* A note begins: the speaker is on and the wait starts at this tick.
LEMMA BeginsSound ==
    ASSUME SoundInv, NoteBegins
    PROVE  SoundInv'
<1>1. SoundTypes /\ AtWork /\ On /\ Clocks
  BY Zenon DEF SoundInv
<1>2. /\ at = "note" /\ notes # <<>> /\ at' = "sounding" /\ held' = 0
      /\ UNCHANGED <<mode, interrupts, timer_ticks, quarter, dma, notes>>
      /\ speaker' \in BOOLEAN /\ wait' = NoteWait(Head(notes).ms)
  BY Zenon DEF NoteBegins
<1>3. Head(notes).ms \in Nat \ {0}
  BY <1>1, <1>2, FirstNote, Zenon DEF Notes
<1>4. SoundTypes'
  <2>1. wait' \in [clock : {"none", "ticks", "count"}, start : Nat, amount : Nat]
    BY <1>1, <1>2, <1>3, NoteWaitIs, Zenon
  <2> QED BY <1>1, <1>2, <2>1, Zenon DEF SoundTypes, NoteAt
<1>5. AtWork' /\ On'
  BY <1>1, <1>2, Zenon DEF AtWork, On, ToneAt
<1>6. PICK n \in {WaitTicks(Head(notes).ms)} : TRUE
  BY Zenon
<1>7. n \in Nat \ {0}
  BY <1>3, <1>6, WaitTicksIs
<1>8. (interrupts' /\ TicksRun(n, 0)') \/ CountRun(n)'
  <2>1. CASE mode = "alert" /\ ~interrupts
    <3>1. wait' = OnCount(n)
      BY <1>2, <1>3, <1>6, <2>1, Zenon DEF NoteWait
    <3>2. wait'.clock = "count" /\ wait'.amount = n
      BY <3>1, Zenon DEF OnCount
    <3>3. /\ 2 * (n - n) + (IF quarter \in {1, 3} THEN 1 ELSE 0) - 0 \in 0 .. 1
          /\ n <= n /\ n # 0
      BY <1>7
    <3> QED BY <1>2, <3>2, <3>3, Zenon DEF CountRun
  <2>2. CASE ~(mode = "alert" /\ ~interrupts)
    <3>1. wait' = OnTicks(n)
      BY <1>2, <1>6, <2>2, Zenon DEF NoteWait
    <3>2. interrupts
      BY <1>1, <1>2, <2>2, Zenon DEF AtWork, SoundTypes, ToneAt
    <3>3. held' \in Nat /\ 0 + quarter - held' \in 0 .. 3 /\ 0 \in Nat
      BY <1>1, <1>2 DEF SoundTypes
    <3>4. TicksRun(n, 0)'
      BY <1>1, <1>2, <1>7, <3>1, <3>3, TicksBegin, Zenon
    <3> QED BY <1>2, <3>2, <3>4, Zenon
  <2> QED BY <2>1, <2>2, Zenon
<1>9. Clocks'
  BY <1>2, <1>6, <1>8, Zenon DEF Clocks
<1> QED BY <1>4, <1>5, <1>9, Zenon DEF SoundInv

\* A note or a gap ends.
LEMMA EndsSound ==
    ASSUME SoundInv, NoteEnds \/ GapEnds
    PROVE  SoundInv'
<1>1. SoundTypes /\ AtWork /\ On /\ Clocks
  BY Zenon DEF SoundInv
<1>2. /\ at \in {"sounding", "gap"} /\ held' = 0 /\ speaker' = FALSE
      /\ UNCHANGED <<mode, interrupts, timer_ticks, quarter, dma>>
      /\ \/ /\ wait' = NoteWait(Head(notes).gap) /\ at' = "gap" /\ UNCHANGED notes
         \/ wait' = NoWait /\ at' = "note" /\ notes' = Tail(notes)
  BY <1>1, Zenon DEF NoteEnds, GapEnds, On, SoundTypes
<1>3. notes # <<>>
  BY <1>1, <1>2, Zenon DEF AtWork
<1>4. wait' \in [clock : {"none", "ticks", "count"}, start : Nat, amount : Nat]
  <2>1. Head(notes).gap \in Nat
    BY <1>1, <1>3, FirstNote, Zenon DEF Notes
  <2>2. NoteWait(Head(notes).gap) \in [clock : {"none", "ticks", "count"}, start : Nat,
                                       amount : Nat]
    BY <1>1, <2>1, NoteWaitIs, Zenon
  <2>3. NoWait \in [clock : {"none", "ticks", "count"}, start : Nat, amount : Nat]
    BY Zenon DEF NoWait
  <2> QED BY <1>2, <2>2, <2>3, Zenon
<1>5. notes' \in Seq(Notes) /\ \A i \in 1 .. Len(notes') : Counted(WaitTicks(notes'[i].ms))
  BY <1>1, <1>2, <1>3, NotesLeft, Zenon DEF SoundTypes
<1>6. SoundTypes'
  BY <1>1, <1>2, <1>4, <1>5, Zenon DEF SoundTypes, NoteAt
<1>7. AtWork' /\ On' /\ Clocks'
  BY <1>1, <1>2, <1>3, Zenon DEF AtWork, On, Clocks, ToneAt
<1> QED BY <1>6, <1>7, Zenon DEF SoundInv

\* A command returns with its device off.
LEMMA OverSound ==
    ASSUME SoundInv, NotesOver \/ ToneReturns
    PROVE  SoundInv'
<1>1. SoundTypes /\ AtWork /\ On /\ Clocks
  BY Zenon DEF SoundInv
<1>2. /\ UNCHANGED <<timer_ticks, quarter, speaker, dma, notes, held>> /\ at' = "idle"
      /\ wait' \in {wait, NoWait}
  BY Zenon DEF NotesOver, ToneReturns
<1>3. \/ mode = "alert" /\ mode' = "halted" /\ interrupts' = FALSE
      \/ mode # "alert" /\ mode' = "prompt" /\ UNCHANGED interrupts
  BY <1>1, Zenon DEF NotesOver, ToneReturns, AtWork, ToneAt
<1>4. at \in {"note", "finish"}
  BY Zenon DEF NotesOver, ToneReturns
<1>5. SoundTypes'
  <2>1. wait' \in [clock : {"none", "ticks", "count"}, start : Nat, amount : Nat]
    BY <1>1, <1>2 DEF SoundTypes, NoWait
  <2>2. interrupts' \in BOOLEAN
    BY <1>1, <1>3, ZenonT(30) DEF SoundTypes
  <2> QED BY <1>1, <1>2, <1>3, <2>1, <2>2, Zenon DEF SoundTypes
<1>6. ~speaker
  BY <1>1, SoundAssumption, Zenon DEF NotesOver, ToneReturns, On
<1>7. AtWork'
  BY <1>1, <1>2, <1>3, <1>4, Zenon DEF AtWork, SoundTypes, ToneAt
<1>8. On'
  <2>1. dma.running => mode' \in {"alert", "halted"}
    BY <1>1, <1>3, <1>4, Zenon DEF On, AtWork, ToneAt
  <2> QED BY <1>2, <1>6, <2>1, Zenon DEF On
<1>9. Clocks'
  BY <1>2, Zenon DEF Clocks
<1> QED BY <1>5, <1>7, <1>8, <1>9, Zenon DEF SoundInv

\* The reset before the tone and the stop after it.
LEMMA ResetSound ==
    ASSUME SoundInv, ToneResets \/ ToneStops
    PROVE  SoundInv'
<1>1. SoundTypes /\ AtWork /\ On /\ Clocks
  BY Zenon DEF SoundInv
<1>2. /\ at \in {"reset", "guard"} /\ at' \in {"start", "finish"} /\ held' = 0
      /\ dma' = Silent /\ wait' = [clock |-> "ticks", start |-> timer_ticks, amount |-> 1]
      /\ UNCHANGED <<mode, interrupts, timer_ticks, quarter, speaker, notes>>
  BY Zenon DEF ToneResets, ToneStops, Reset
<1>3. wait' \in [clock : {"none", "ticks", "count"}, start : Nat, amount : Nat]
  <2>1. timer_ticks \in Nat
    BY <1>1, SoundNumbers DEF SoundTypes
  <2> QED BY <1>2, <2>1, Zenon
<1>4. SoundTypes'
  BY <1>1, <1>2, <1>3, Zenon DEF SoundTypes, Silent, ToneAt
<1>5. AtWork' /\ On' /\ Clocks'
  BY <1>1, <1>2, Zenon DEF AtWork, On, Clocks, ToneAt, Silent
<1> QED BY <1>4, <1>5, Zenon DEF SoundInv

\* The waits of the tone
LEMMA ToneWaits ==
    /\ FirstWait \in Nat \ {0} /\ LastWait \in Nat \ {0}
    /\ FirstWait < Word /\ LastWait < Word
    /\ 4 * FirstWait <= MaxHeld /\ 4 * FirstWait + 4 * LastWait <= MaxHeld
<1>1. ToneMs + MarginMs \in Nat /\ GuardMs \in Nat
  BY SoundNumbers
<1>2. FirstWait \in Nat \ {0} /\ LastWait \in Nat \ {0}
  BY <1>1, WaitTicksIs DEF FirstWait, LastWait
<1>3. Counted(FirstWait + LastWait)
  BY SoundAssumption, Zenon DEF FirstWait, LastWait
<1> QED BY <1>2, <1>3, SoundNumbers DEF Counted

\* A wait for ticks that is over has just had its last one.
LEMMA TicksOver ==
    ASSUME SoundTypes, NEW n \in Nat, NEW past \in Nat, TicksRun(n, past), WaitOver
    PROVE  quarter = 0 /\ past + 4 * n - held \in 0 .. 3
<1>1. Elapsed >= n /\ Elapsed <= n
  BY Zenon DEF WaitOver, TicksRun
<1>2. Elapsed \in Int
  <2>1. timer_ticks - wait.start \in Int
    BY SoundNumbers DEF SoundTypes
  <2> QED BY <2>1, SoundNumbers, ModRange DEF Elapsed
<1>3. Elapsed = n
  BY <1>1, <1>2
<1>4. quarter = 0 /\ past + 4 * n + 0 - held \in 0 .. 3
  BY <1>3, Zenon DEF TicksRun
<1> QED BY <1>4 DEF SoundTypes

\* The tone starts, and its guard time runs.
LEMMA StartsSound ==
    ASSUME SoundInv, ToneStarts \/ ToneGuards
    PROVE  SoundInv'
<1>1. SoundTypes /\ AtWork /\ On /\ Clocks
  BY Zenon DEF SoundInv
<1>2. /\ at \in {"start", "play"} /\ at' \in {"play", "guard"}
      /\ UNCHANGED <<mode, interrupts, timer_ticks, quarter, speaker, notes>>
  BY Zenon DEF ToneStarts, ToneGuards
<1>3. wait' \in {OnTicks(FirstWait), OnTicks(LastWait)}
  BY Zenon DEF ToneStarts, ToneGuards, FirstWait, LastWait
<1>4. wait' \in [clock : {"none", "ticks", "count"}, start : Nat, amount : Nat]
  <2>1. timer_ticks \in Nat
    BY <1>1, SoundNumbers DEF SoundTypes
  <2> QED BY <1>3, <2>1, ToneWaits DEF OnTicks
<1>5. dma' \in [running : BOOLEAN, left : Nat] /\ held' \in Nat
  <2>1. CASE ToneGuards
    BY <1>1, <2>1, Zenon DEF ToneGuards, SoundTypes
  <2>2. CASE ToneStarts
    <3>1. PICK t \in PlayTimes : dma' = [running |-> TRUE, left |-> t]
      BY <2>2, ZenonT(30) DEF ToneStarts
    <3>2. t \in Nat /\ held' = 0
      BY <2>2, SoundAssumption, Zenon DEF ToneStarts
    <3> QED BY <3>1, <3>2, Zenon
  <2> QED BY <2>1, <2>2, Zenon
<1>6. SoundTypes'
  BY <1>1, <1>2, <1>4, <1>5, Zenon DEF SoundTypes, ToneAt
<1>7. AtWork' /\ On'
  BY <1>1, <1>2, Zenon DEF AtWork, On, ToneAt
<1>8. CASE ToneStarts
  <2>1. at' = "play" /\ wait' = OnTicks(FirstWait) /\ held' = 0
    BY <1>8, Zenon DEF ToneStarts, FirstWait
  <2>2. 0 + quarter - held' \in 0 .. 3 /\ 0 \in Nat
    BY <1>1, <2>1 DEF SoundTypes
  <2>3. TicksRun(FirstWait, 0)'
    BY <1>1, <1>2, <1>5, <2>1, <2>2, ToneWaits, TicksBegin, Zenon
  <2>4. Clocks'
    BY <2>1, <2>3, Zenon DEF Clocks
  <2> QED BY <1>6, <1>7, <2>4, Zenon DEF SoundInv
<1>9. CASE ToneGuards
  <2>1. /\ at = "play" /\ WaitOver /\ at' = "guard" /\ wait' = OnTicks(LastWait)
        /\ held' = held
    BY <1>9, Zenon DEF ToneGuards, LastWait
  <2>2. TicksRun(FirstWait, 0) /\ 0 \in Nat /\ FirstWait \in Nat
    BY <1>1, <2>1, ToneWaits, Zenon DEF Clocks
  <2>3. quarter = 0 /\ 0 + 4 * FirstWait - held \in 0 .. 3
    BY <1>1, <2>1, <2>2, TicksOver, Zenon
  <2>4. 4 * FirstWait \in Nat /\ 4 * FirstWait + quarter - held' \in 0 .. 3
    BY <1>1, <2>1, <2>2, <2>3 DEF SoundTypes
  <2>5. TicksRun(LastWait, 4 * FirstWait)'
    BY <1>1, <1>2, <1>5, <2>1, <2>4, ToneWaits, TicksBegin, Zenon
  <2>6. Clocks'
    BY <2>1, <2>5, Zenon DEF Clocks
  <2> QED BY <1>6, <1>7, <2>6, Zenon DEF SoundInv
<1> QED BY <1>8, <1>9, Zenon

\* Every step preserves the invariant of the sound.
LEMMA SoundStep == SoundInv /\ [SNext]_allVars => SoundInv'
<1> SUFFICES ASSUME SoundInv, [SNext]_allVars PROVE SoundInv'
  BY Zenon
<1>1. CASE UNCHANGED allVars \/ (mode = "boot" /\ Next /\ UNCHANGED soundVars)
  BY <1>1, BootSound, Zenon DEF allVars
<1>2. CASE Typing
  <2> DEFINE beep == <<[hz |-> 880, ms |-> BeepMs, gap |-> 0]>>
  <2>1. beep \in Seq(Notes) /\ \A i \in 1 .. Len(beep) : Counted(WaitTicks(beep[i].ms))
    <3>1. [hz |-> 880, ms |-> BeepMs, gap |-> 0] \in Notes
      BY SoundNumbers, SMT DEF Notes
    <3>2. Len(beep) = 1 /\ beep[1].ms = BeepMs
      BY Zenon
    <3>3. Counted(WaitTicks(BeepMs))
      BY SoundAssumption, Zenon
    <3>4. beep \in Seq(Notes)
      BY <3>1
    <3> HIDE DEF beep
    <3> QED BY <3>2, <3>3, <3>4
  <2>2. PlayNotes("beep", beep) => SoundInv'
    <3> HIDE DEF beep
    <3> QED BY <2>1, PlaySound, Zenon
  <2>3. PlayNotes("melody", Melody) \/ PlayNotes("alert", Alert) => SoundInv'
    BY SoundAssumption, PlaySound, Zenon
  <2> QED BY <1>2, <2>2, <2>3, ToneSound, Zenon DEF Typing
<1>3. CASE Playing
  BY <1>3, TimeSound, BeginsSound, EndsSound, OverSound, ResetSound, StartsSound, Zenon
  DEF Playing
<1> QED BY <1>1, <1>2, <1>3, EnterSound, FaultSound, Zenon DEF SNext

\* The invariant of the sound holds in every reachable state.
LEMMA SoundAlways == SSpec => []SoundInv
BY SoundInitInv, SoundStep, PTL DEF SSpec

\* No command leaves its sound behind (sound_play_note,
\* audio_ac97_play_test_tone), and the alert of panic ends a note that a fault has
\* cut in two, for every melody, tick rate and width of the tick counter.
THEOREM AlwaysQuiet == SSpec => []Quiet
<1>1. SoundInv => Quiet
  BY Zenon DEF SoundInv, AtWork, On, Quiet, ToneAt
<1> QED BY <1>1, SoundAlways, PTL

\* A note that ends has sounded for its time.
LEMMA NoteInTime ==
    ASSUME SoundInv, at = "sounding", WaitOver
    PROVE  InTime(Head(notes).ms)
<1>1. SoundTypes /\ AtWork /\ Clocks /\ notes # <<>>
  BY Zenon DEF SoundInv, AtWork
<1>2. PICK n \in {WaitTicks(Head(notes).ms)} :
         (interrupts /\ TicksRun(n, 0)) \/ CountRun(n)
  BY <1>1, Zenon DEF Clocks
<1> DEFINE ms == Head(notes).ms
           p == Hz * ms
<1>3. ms \in Nat \ {0}
  BY <1>1, FirstNote, Zenon DEF Notes
<1>4. n \in Nat \ {0} /\ 1000 * n \in p .. (p + 999)
  BY <1>2, <1>3, WaitTicksIs
<1>5. p \in Nat /\ 4 * Hz * ms = 4 * p /\ held \in Nat
  BY <1>1, <1>3, SoundNumbers, Z3 DEF SoundTypes
<1>6. CASE TicksRun(n, 0)
  <2>1. 0 + 4 * n - held \in 0 .. 3 /\ wait.clock # "count"
    <3>1. n \in Nat /\ 0 \in Nat
      BY <1>4
    <3> QED BY <1>1, <1>6, <3>1, TicksOver, Zenon DEF TicksRun
  <2> HIDE DEF p
  <2>2. -4000 < 1000 * 1 * held - 4 * p /\ 1000 * 1 * held - 4 * p < 4000
    BY <1>4, <1>5, <2>1, SMT
  <2> QED BY <1>5, <2>1, <2>2, SMT DEF InTime, ms
<1>7. CASE CountRun(n)
  <2>1. wait.clock = "count" /\ wait.amount = 0
    BY <1>7, Zenon DEF CountRun, WaitOver
  <2>2. 2 * (n - 0) + 0 - held \in 0 .. 1
    BY <1>7, <2>1, SMT DEF CountRun
  <2> HIDE DEF p
  <2>3. -4000 < 1000 * 2 * held - 4 * p /\ 1000 * 2 * held - 4 * p < 4000
    BY <1>4, <1>5, <2>2, SMT
  <2> QED BY <1>5, <2>1, <2>3, SMT DEF InTime, ms
<1> QED BY <1>2, <1>6, <1>7, Zenon

\* A note sounds as long as it should to within a period of the clock that sound_wait_ms
\* or sound_wait_noirq_ms reads, wherever the tick counter wraps, and
\* audio_ac97_play_test_tone stops the controller only after the tone or the time allowed.
THEOREM AlwaysWhole == SSpec => SoundsAreWhole
<1> DEFINE Whole ==
      /\ speaker /\ ~speaker' => InTime(Head(notes).ms)
      /\ dma.running /\ ~dma'.running /\ mode = "tone" =>
            \/ Played
            \/ held > 4 * (WaitTicks(ToneMs + MarginMs) + WaitTicks(GuardMs) - 1)
<1>1. ASSUME SoundInv, [SNext]_allVars PROVE [Whole]_allVars
  <2> SUFFICES ASSUME SNext PROVE Whole
    BY <1>1, Zenon
  <2>1. SoundTypes /\ AtWork /\ On /\ Clocks
    BY <1>1, Zenon DEF SoundInv
  <2>2. ASSUME speaker, ~speaker' PROVE InTime(Head(notes).ms)
    <3>1. at \in {"sounding", "note"} /\ (at = "note" => notes = Alert)
      BY <2>1, <2>2, Zenon DEF On
    <3>2. NoteBegins \/ NoteEnds
      <4>1. mode # "boot" /\ mode # "prompt"
        BY <2>1, <3>1, Zenon DEF AtWork
      <4>2. ~EnterShell /\ ~Typing
        BY <4>1, Zenon DEF EnterShell, Typing, PlayNotes, Ac97Tone, Typed
      <4> QED BY <2>2, <4>1, <4>2, Zenon
              DEF SNext, Playing, Fault, TimePasses, GapEnds, NotesOver, ToneResets, ToneStarts,
                  ToneGuards, ToneStops, ToneReturns, Reset
    <3>3. ~NoteBegins
      BY <2>2, <3>1, SoundAssumption, ZenonT(30) DEF NoteBegins
    <3> QED BY <1>1, <3>2, <3>3, NoteInTime, Zenon DEF NoteEnds
  <2>3. ASSUME dma.running, ~dma'.running, mode = "tone"
        PROVE  Played \/ held > 4 * (FirstWait + LastWait - 1)
    <3>1. at \in {"play", "guard"}
      BY <2>1, <2>3, Zenon DEF On
    <3>2. ToneStops
      <4>1. ~EnterShell /\ ~Typing
        BY <2>3, Zenon DEF EnterShell, Typing, PlayNotes, Ac97Tone, Typed
      <4>2. TimePasses => dma'.running = dma.running
        BY <2>1, Zenon DEF TimePasses, SoundTypes
      <4>3. ~ToneStarts /\ ~ToneResets
        BY <3>1, Zenon DEF ToneStarts, ToneResets
      <4> QED BY <2>3, <4>1, <4>2, <4>3, Zenon
              DEF SNext, Playing, Fault, NoteBegins, NoteEnds, GapEnds, NotesOver,
                  ToneGuards, ToneReturns
    <3>3. CASE Played
      BY <3>3, Zenon
    <3>4. CASE WaitOver
      <4>1. /\ TicksRun(LastWait, 4 * FirstWait) /\ LastWait \in Nat /\ FirstWait \in Nat
            /\ 4 * FirstWait \in Nat /\ held \in Nat
        <5>1. at = "guard"
          BY <3>2, Zenon DEF ToneStops
        <5>2. TicksRun(LastWait, 4 * FirstWait) /\ held \in Nat
          BY <2>1, <5>1, Zenon DEF Clocks, SoundTypes
        <5> QED BY <5>2, ToneWaits
      <4>2. 4 * FirstWait + 4 * LastWait - held \in 0 .. 3
        BY <2>1, <3>4, <4>1, TicksOver, Zenon
      <4> QED BY <4>1, <4>2
    <3> QED BY <3>2, <3>3, <3>4, Zenon DEF ToneStops
  <2> QED BY <2>2, <2>3, Zenon DEF FirstWait, LastWait
<1>2. SSpec => [][Whole]_allVars
  BY <1>1, SoundAlways, PTL DEF SSpec
<1> QED BY <1>2, Zenon DEF SoundsAreWhole

-----------------------------------------------------------------------------
(* The registry, while the shell runs *)

\* The tone command touches the registry's variables only where it notes that the
\* buffers of the controller are there.
LEMMA ToneKeepsRegistry ==
    ASSUME Inductive, Agreement, Ac97Tone
    PROVE  Inductive' /\ Agreement'
<1>1. /\ UNCHANGED <<config, ready, buses, drivers, devices, bound_count, stack>>
      /\ UNCHANGED <<block_list, transport_count, logical_count, blk_count,
                     audio_count, pci_count, scan, missed>>
  BY Zenon DEF Ac97Tone, registry
<1>2. /\ ac97 \in Controller /\ ac97.controller_ready
      /\ ac97' \in Controller /\ ac97'.detected = ac97.detected /\ ac97'.at = ac97.at
  <2>1. ac97 \in Controller /\ ac97.controller_ready
    BY Zenon DEF Inductive, Types, Ac97Tone
  <2>2. PICK memory \in BOOLEAN : ac97' = [ac97 EXCEPT !.pcm_ready = ac97.pcm_ready \/ memory]
    BY Zenon DEF Ac97Tone
  <2> DEFINE b == ac97.pcm_ready \/ memory
  <2>3. b \in BOOLEAN
    BY <2>2, Zenon
  <2> HIDE DEF b
  <2>4. ac97' = [ac97 EXCEPT !.pcm_ready = b]
    BY <2>2, Zenon DEF b
  <2> QED BY <2>1, <2>3, <2>4, Zenon DEF Controller
<1>3. Types'
  BY <1>1, <1>2, Zenon DEF Inductive, Types, DeviceIds
<1>6. Inductive'
  BY <1>1, <1>3, WalksKept, Zenon DEF Inductive
<1>7. DeviceIds' = DeviceIds /\ \A n : ByDriver(n)' = ByDriver(n)
  BY <1>1, Zenon DEF DeviceIds, ByDriver
<1>8. Logical' = Logical /\ Ac97s' = Ac97s
  BY <1>1, <1>7, Zenon DEF Logical, Ac97s
<1>9. ScanInv'
  BY <1>1, <1>7, ScanKept, ZenonT(30) DEF Agreement
<1>10. InOrder' /\ Transports' /\ Blocks'
  BY <1>1, <1>7, <1>8, ZenonT(30) DEF Agreement, Links, InOrder, Transports, Blocks
<1>11. Probed'
  BY <1>1, <1>7, Zenon DEF Agreement, Links, Probed
<1>12. FirstAc97'
  <2>1. FirstAc97 /\ ac97 # NoController
    BY <1>2 DEF Agreement, Links, NoController
  <2>2. /\ Ac97s # {} /\ ac97.detected
        /\ \E i \in Ac97s : ac97.at = devices[i].at /\ \A j \in Ac97s : i <= j
    BY <2>1, Zenon DEF FirstAc97
  <2> QED BY <1>1, <1>2, <1>8, <2>2, Zenon DEF FirstAc97
<1>13. Tallies'
  BY <1>1, <1>8, Zenon DEF Agreement, Tallies, LogicalOpen, PciOpen
<1> QED BY <1>6, <1>9, <1>10, <1>11, <1>12, <1>13, Zenon DEF Agreement, Links

\* What driver_register_device and the probes have built stays right after the boot,
\* when the shell runs its commands and faults come.
THEOREM RegistryStaysTrue == SSpec => [](BoundToFirstMatch /\ RegistryAgrees)
<1>1. SInit => Inductive /\ Agreement
  BY InductiveInit, AgreementInit, Zenon DEF SInit
<1>2. [SNext]_allVars => [Next]_vars \/ Ac97Tone
  BY Zenon DEF SNext, allVars, EnterShell, Typing, PlayNotes, Playing, TimePasses, NoteBegins,
         NoteEnds, GapEnds, NotesOver, ToneResets, ToneStarts, ToneGuards, ToneStops,
         ToneReturns, Reset, Fault
<1>3. Inductive /\ Agreement /\ [SNext]_allVars => Inductive' /\ Agreement'
  BY <1>2, InductiveStep, AgreementStep, ToneKeepsRegistry, Zenon
<1> QED BY <1>1, <1>3, InductiveEnough, AgreementEnough, PTL DEF SSpec
=============================================================================
