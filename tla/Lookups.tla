------------------------------ MODULE Lookups ------------------------------
(***************************************************************************)
(* How a VM and what belongs to it is found: Hyper-V refuses a WQL filter, *)
(* so every instance of a class is enumerated and filtered by the client   *)
(* (hyperv/client.go, host_filter.go, vm.go, checkpoint.go, storage.go,    *)
(* network.go, vm_resources.go, firmware.go, gpu.go, integration.go).      *)
(*                                                                         *)
(* A GUID or a name is [id, spelling]; the host spells a GUID always in    *)
(* one way.  The host has [systems, settings, devices], each a sequence in *)
(* the order of the enumeration:                                           *)
(*   a system   [name, guid, element]: guid says that name is one;         *)
(*   a setting  [vm, type]: VirtualSystemIdentifier, VirtualSystemType;    *)
(*   a device   [id, owner, class, sub]: owner is what follows             *)
(*              "Microsoft:" in its InstanceID, id the rest of it.         *)
(***************************************************************************)
EXTENDS Naturals, Sequences, SequencesExt

\* strings.EqualFold
EqualFold(a, b) == a.id = b.id

\* The elements of a sequence that are in S, in their order.
Among(seq, S) == FlattenSeq([i \in DOMAIN seq |-> IF seq[i] \in S THEN <<seq[i]>> ELSE <<>>])

----------------------------------------------------------------------------
Named(systems, name) ==
  Among(systems, {s \in ToSet(systems) : EqualFold(s.element, name)})

FirstNamed(systems, name) ==          \* faulty: the first of several
  IF Named(systems, name) = <<>> THEN [err |-> "notFound"]
  ELSE [err |-> "nil", system |-> Named(systems, name)[1]]

\* FindComputerSystemByElementName: among all systems, the host's included.
FindComputerSystemByElementName(systems, name) ==
  LET found == Named(systems, name)
  IN IF found = <<>> THEN [err |-> "notFound"]
     ELSE IF Len(found) > 1 THEN [err |-> "ambiguous"]
     ELSE [err |-> "nil", system |-> found[1]]

\* IsHostComputerSystem: a VM's name is a GUID, the host's is not.
IsHostComputerSystem(s) == ~s.guid

\* ListComputerSystems through filterOutHostComputerSystems.
ListComputerSystems(systems) ==
  Among(systems, {s \in ToSet(systems) : ~IsHostComputerSystem(s)})

\* pickHostComputerSystem: the only one, or an error.
PickHostComputerSystem(systems) ==
  LET hosts == Among(systems, {s \in ToSet(systems) : IsHostComputerSystem(s)})
  IN IF Len(hosts) = 1 THEN [err |-> "nil", system |-> hosts[1]] ELSE [err |-> "host"]

----------------------------------------------------------------------------

\* matchRealizedSettingDataForVM
Realized(settings, vm) ==
  Among(settings, {s \in ToSet(settings) : EqualFold(s.vm, vm) /\ s.type = "Realized"})

\* GetSystemSettingData: the first.
GetSystemSettingData(settings, vm) ==
  IF Realized(settings, vm) = <<>> THEN [err |-> "notFound"]
  ELSE [err |-> "nil", setting |-> Realized(settings, vm)[1]]

\* ListSystemSettingData: the realised ones of all VMs.
ListSystemSettingData(settings) ==
  Among(settings, {s \in ToSet(settings) : s.type = "Realized"})

\* ListVmCheckpoints through matchSnapshotSettingDataForVM.
ListVmCheckpoints(settings, vm) ==
  Among(settings, {s \in ToSet(settings) : EqualFold(s.vm, vm) /\ s.type = "Snapshot:Realized"})

----------------------------------------------------------------------------
\* matchSettingDataVM: the prefix of an InstanceID, with case.
MatchSettingDataVM(d, vm) == d.owner = vm

Devices(devices, vm, class) ==
  Among(devices, {d \in ToSet(devices) : d.class = class /\ MatchSettingDataVM(d, vm)})

OfSub(devices, vm, sub) ==
  LET rasds == Devices(devices, vm, "ResourceAllocation")
  IN Among(rasds, {d \in ToSet(rasds) : d.sub = sub})

ListIDEControllers(devices, vm) == OfSub(devices, vm, "IDE")

ListSCSIControllers(devices, vm) == OfSub(devices, vm, "SCSI")

ListDiskDrives(devices, vm) == OfSub(devices, vm, "Disk")

ListDvdDrives(devices, vm) == OfSub(devices, vm, "DVD")

ListAttachedStorage(devices, vm) == Devices(devices, vm, "StorageAllocation")

ListNetworkAdapters(devices, vm) == Devices(devices, vm, "SyntheticEthernetPort")

ListEthernetPortAllocations(devices, vm) == Devices(devices, vm, "EthernetPortAllocation")

ListBootSources(devices, vm) == Devices(devices, vm, "BootSource")

ListGpuAdapters(devices, vm) == Devices(devices, vm, "GpuPartition")

\* GetMemorySettings and GetProcessorSettings: the first.
GetFirst(devices, vm, class) ==
  LET found == Devices(devices, vm, class)
  IN IF found = <<>> THEN [err |-> "notFound"] ELSE [err |-> "nil", device |-> found[1]]

----------------------------------------------------------------------------
\* sortRASDByInstanceID: the order of an enumeration is not to be relied on.
\* A stable sort puts an element behind those that come before it.
SortRASDByInstanceID(controllers) ==
  LET upto(i) == {j \in DOMAIN controllers :
                    \/ controllers[j].id < controllers[i].id
                    \/ controllers[j].id = controllers[i].id /\ j <= i}
  IN [k \in DOMAIN controllers |->
        controllers[CHOOSE i \in DOMAIN controllers : Cardinality(upto(i)) = k]]

MaxLocation(type) == IF type = "IDE" THEN 1 ELSE 63

\* attachStorage: the controller of a number, counted from 0, and a location
\* on it that is not looked up but bounded.
ControllerOf(devices, vm, type, number, location) ==
  LET list == IF type = "IDE" THEN ListIDEControllers(devices, vm)
                              ELSE ListSCSIControllers(devices, vm)
  IN IF type \notin {"IDE", "SCSI"} THEN [err |-> "type"]
     ELSE IF location \notin 0 .. MaxLocation(type) THEN [err |-> "location"]
     ELSE IF number \notin 0 .. Len(list) - 1 THEN [err |-> "number"]
     ELSE [err |-> "nil", controller |-> SortRASDByInstanceID(list)[number + 1]]

----------------------------------------------------------------------------
AlwaysInternal(opts) == opts.type \in {"Internal", "External"}  \* faulty: for every external switch

\* buildSwitchResourceSettings: which settings a kind of switch is made with.
WantsInternalPort(opts) ==
  opts.type = "Internal" \/ (opts.type = "External" /\ opts.allowManagementOS)

\* buildExternalAdapterBinding: the first adapter of the name, with the keys
\* of its path.
Binding(opts, ports) ==
  LET first == SelectInSeq(ports, LAMBDA p : p.element = opts.externalAdapter)
  IN IF first = 0 THEN [err |-> "adapter"]
     ELSE IF ~ports[first].keys THEN [err |-> "keys"]
     ELSE [err |-> "nil", settings |-> <<[kind |-> "external", to |-> ports[first].id]>>]

\* buildInternalPortAllocation: a port that names the host.
InternalPort(systems) ==
  LET host == PickHostComputerSystem(systems)
  IN IF host.err # "nil" THEN host
     ELSE [err |-> "nil", settings |-> <<[kind |-> "internal", to |-> host.system.name.id]>>]

BuildSwitchResourceSettings(opts, ports, systems) ==
  LET none == [err |-> "nil", settings |-> <<>>]
      binding == IF opts.type = "External" THEN Binding(opts, ports) ELSE none
      internal == IF WantsInternalPort(opts) THEN InternalPort(systems) ELSE none
  IN IF opts.type \notin {"Private", "Internal", "External"} THEN [err |-> "type"]
     ELSE IF binding.err # "nil" THEN binding
     ELSE IF internal.err # "nil" THEN internal
     ELSE [err |-> "nil", settings |-> binding.settings \o internal.settings]
=============================================================================
