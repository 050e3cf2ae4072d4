-------------------------- MODULE TransportProofs ---------------------------
(***************************************************************************)
(* What travels between the programs arrives: a VMConfig through the steps *)
(* its settings go through, whatever they are, and a call through the      *)
(* bindings.  A field that is read where it is set, inside its struct and  *)
(* apart from the others, arrives, and a call reaches the handler of its   *)
(* method.                                                                 *)
(***************************************************************************)
EXTENDS Config, Schema, TLAPS

(* A key is looked up on the first list, and then on the second. *)
LEMMA GetMerge ==
  ASSUME NEW args, NEW more, NEW key, NEW default
  PROVE  /\ key \in DOMAIN args => Get(Merge(args, more), key, default) = args[key]
         /\ key \notin DOMAIN args => Get(Merge(args, more), key, default) = Get(more, key, default)
  BY DEF Get, Merge

(* A key of the second of three lists, which has only the values that are  *)
(* set.                                                                    *)
LEMMA OnOptions ==
  ASSUME NEW first, NEW opts, NEW rest, NEW key \in DOMAIN opts,
         key \notin DOMAIN first, key \notin DOMAIN rest
  PROVE  Get(Merge(first, Merge(Given(opts), rest)), key, "") = opts[key]
  <1> DEFINE more == Merge(Given(opts), rest)
  <1>1. Get(Merge(first, more), key, "") = Get(more, key, "")
    BY DEF Get, Merge
  <1>2. CASE key \in DOMAIN Given(opts)
    <2>1. Get(more, key, "") = Given(opts)[key]
      BY <1>2 DEF Get, Merge
    <2> QED BY <1>1, <1>2, <2>1 DEF Given
  <1>3. CASE key \notin DOMAIN Given(opts)
    <2>1. Get(more, key, "") = Get(rest, key, "")
      BY <1>3 DEF Get, Merge
    <2>2. Get(rest, key, "") = ""
      BY DEF Get
    <2>3. opts[key] = ""
      BY <1>3 DEF Given
    <2> QED BY <1>1, <2>1, <2>2, <2>3
  <1> QED BY <1>2, <1>3

(* There is no key on an empty list. *)
LEMMA NoKeys == DOMAIN <<>> = {}
  OBVIOUS

(* The names of a VMConfig's fields. *)
Names == DOMAIN DirectConfig

(* The settings are these. *)
LEMMA NamesAre ==
  Names = {"BootMode", "KernelPath", "RootImage", "ExtraDisk", "MemoryMiB", "AgentVsockPort",
           "ProxyVsockPorts", "ReadySocket", "EnableNetwork", "NetworkMode", "CIDR", "Gateway",
           "IfName", "EnableVirtioFS", "HostDir", "Tag", "MountPoint", "OverlayDevice",
           "OverlayMount", "RootfsBase"}
  BY DEF Names, DirectConfig

(* The boot mode is filled in and nothing else changed. *)
LEMMA BootModeFilledIn ==
  ASSUME NEW c, DOMAIN c = Names
  PROVE  /\ WithBootMode(c).BootMode = IF c.BootMode = "" THEN "linux" ELSE c.BootMode
         /\ \A f \in Names \ {"BootMode"} : WithBootMode(c)[f] = c[f]
  <1>1. CASE c.BootMode = ""
    <2>1. WithBootMode(c) = [c EXCEPT !.BootMode = "linux"]
      BY <1>1 DEF WithBootMode
    <2>2. \A f \in Names \ {"BootMode"} : [c EXCEPT !.BootMode = "linux"][f] = c[f]
      OBVIOUS
    <2>3. [c EXCEPT !.BootMode = "linux"].BootMode = "linux"
      BY NamesAre
    <2> QED BY <1>1, <2>1, <2>2, <2>3
  <1>2. CASE c.BootMode # ""
    BY <1>2 DEF WithBootMode
  <1> QED BY <1>1, <1>2

(* vmmanager's settings, for every VMConfig it is started with: each is    *)
(* the caller's, with the boot mode and the network mode filled in, and    *)
(* the kernel only where Linux is booted.                                  *)
LEMMA ManagerReads ==
  ASSUME NEW cfg
  PROVE  LET m == ParseArgs(ManagerArgs(cfg))
             c == WithBootMode(cfg)
         IN /\ m.BootMode = c.BootMode /\ m.RootImage = c.RootImage
            /\ m.MemoryMiB = c.MemoryMiB /\ m.AgentVsockPort = c.AgentVsockPort
            /\ m.ReadySocket = c.ReadySocket /\ m.EnableNetwork = c.EnableNetwork
            /\ m.NetworkMode = EffectiveNetworkMode(c)
            /\ m.EnableVirtioFS = c.EnableVirtioFS /\ m.ProxyVsockPorts = c.ProxyVsockPorts
            /\ m.HostDir = c.HostDir /\ m.Tag = c.Tag /\ m.MountPoint = c.MountPoint
            /\ m.OverlayDevice = c.OverlayDevice /\ m.OverlayMount = c.OverlayMount
            /\ m.ExtraDisk = c.ExtraDisk /\ m.CIDR = c.CIDR /\ m.Gateway = c.Gateway
            /\ m.IfName = c.IfName
            /\ m.KernelPath = IF c.BootMode = "linux" THEN c.KernelPath ELSE ""
  <1> DEFINE c == WithBootMode(cfg)
             always == [boot_mode |-> c.BootMode, root_image |-> c.RootImage,
                        memory_mib |-> c.MemoryMiB, agent_vsock_port |-> c.AgentVsockPort,
                        agent_ready_socket |-> c.ReadySocket,
                        enable_network |-> c.EnableNetwork,
                        network_mode |-> EffectiveNetworkMode(c),
                        enable_virtiofs |-> c.EnableVirtioFS,
                        proxy_vsock_port |-> c.ProxyVsockPorts]
             options == [virtiofs_host_dir |-> c.HostDir, virtiofs_tag |-> c.Tag,
                         virtiofs_mount_point |-> c.MountPoint,
                         overlay_state_device |-> c.OverlayDevice,
                         overlay_state_mount |-> c.OverlayMount, extra_disk |-> c.ExtraDisk,
                         vm_network_cidr |-> c.CIDR, vm_network_gateway |-> c.Gateway,
                         vm_network_ifname |-> c.IfName]
             boot == IF c.BootMode = "linux" THEN [kernel |-> c.KernelPath] ELSE <<>>
             args == ManagerArgs(cfg)
  <1>1. args = Merge(always, Merge(Given(options), boot))
    BY DEF ManagerArgs
  <1>2. DOMAIN boot \subseteq {"kernel"}
    OBVIOUS
  <1>3. /\ DOMAIN always = {"boot_mode", "root_image", "memory_mib", "agent_vsock_port",
                            "agent_ready_socket", "enable_network", "network_mode",
                            "enable_virtiofs", "proxy_vsock_port"}
        /\ DOMAIN options = {"virtiofs_host_dir", "virtiofs_tag", "virtiofs_mount_point",
                             "overlay_state_device", "overlay_state_mount", "extra_disk",
                             "vm_network_cidr", "vm_network_gateway", "vm_network_ifname"}
    OBVIOUS
  <1> HIDE DEF always, options, boot, args
  <1>4. ASSUME NEW key \in DOMAIN always, NEW default
        PROVE  Get(args, key, default) = always[key]
    <2>1. Get(Merge(always, Merge(Given(options), boot)), key, default) = always[key]
      BY GetMerge
    <2> QED BY <1>1, <2>1
  <1>5. \A key \in DOMAIN options : Get(args, key, "") = options[key]
    <2>1. \A key \in DOMAIN options : key \notin DOMAIN always /\ key \notin DOMAIN boot
      BY <1>2, <1>3
    <2> QED BY <1>1, <2>1, OnOptions
  <1>6. Get(args, "kernel", "") = IF c.BootMode = "linux" THEN c.KernelPath ELSE ""
    <2>1. "kernel" \notin DOMAIN always /\ "kernel" \notin DOMAIN options
      BY <1>3
    <2>2. ASSUME NEW key, key \notin DOMAIN always, key \notin DOMAIN options
          PROVE  Get(args, key, "") = Get(boot, key, "")
      <3>1. Get(Merge(always, Merge(Given(options), boot)), key, "") = Get(boot, key, "")
        BY <2>2 DEF Get, Merge, Given
      <3> QED BY <1>1, <3>1
    <2>3. Get(args, "kernel", "") = Get(boot, "kernel", "")
      BY <2>1, <2>2, Zenon
    <2>4. CASE c.BootMode = "linux"
      BY <2>3, <2>4 DEF Get, boot
    <2>5. CASE c.BootMode # "linux"
      <3>1. "kernel" \notin DOMAIN boot
        BY <2>5 DEF boot
      <3> QED BY <2>3, <2>5, <3>1 DEF Get
    <2> QED BY <2>4, <2>5
  <1> HIDE DEF c
  <1>7. /\ Get(args, "boot_mode", "linux") = c.BootMode
        /\ Get(args, "root_image", "") = c.RootImage
        /\ Get(args, "memory_mib", 512) = c.MemoryMiB
        /\ Get(args, "agent_vsock_port", DefaultAgentPort) = c.AgentVsockPort
        /\ Get(args, "proxy_vsock_port", {}) = c.ProxyVsockPorts
        /\ Get(args, "agent_ready_socket", "") = c.ReadySocket
        /\ Get(args, "enable_network", TRUE) = c.EnableNetwork
        /\ Get(args, "network_mode", "nat") = EffectiveNetworkMode(c)
        /\ Get(args, "enable_virtiofs", FALSE) = c.EnableVirtioFS
    BY <1>3, <1>4, Zenon DEF always
  <1>8. /\ Get(args, "virtiofs_host_dir", "") = c.HostDir
        /\ Get(args, "virtiofs_tag", "") = c.Tag
        /\ Get(args, "virtiofs_mount_point", "") = c.MountPoint
        /\ Get(args, "overlay_state_device", "") = c.OverlayDevice
        /\ Get(args, "overlay_state_mount", "") = c.OverlayMount
        /\ Get(args, "extra_disk", "") = c.ExtraDisk
        /\ Get(args, "vm_network_cidr", "") = c.CIDR
        /\ Get(args, "vm_network_gateway", "") = c.Gateway
        /\ Get(args, "vm_network_ifname", "") = c.IfName
    BY <1>3, <1>5 DEF options
  <1> QED BY <1>6, <1>7, <1>8 DEF ParseArgs, c, args

(* A VMConfig and what vmmanager makes of it, whatever the fields hold, as *)
(* long as the boot mode is one the runner lets through: vmmanager's own   *)
(* defaults take effect nowhere.                                           *)
THEOREM ManagerCarries ==
  ASSUME NEW cfg, DOMAIN cfg = Names, WithBootMode(cfg).BootMode \in {"linux", "efi"}
  PROVE  LET m == ParseArgs(ManagerArgs(cfg))
         IN \A f \in DOMAIN m :
              \/ m[f] = cfg[f]
              \/ f = "BootMode" /\ cfg[f] = "" /\ m[f] = "linux"
              \/ f = "NetworkMode" /\ cfg[f] = "" /\ m[f] = "hostonly"
              \/ f = "KernelPath" /\ cfg.BootMode = "efi"
  <1> DEFINE m == ParseArgs(ManagerArgs(cfg))
             c == WithBootMode(cfg)
  <1>1. DOMAIN m = Names \ {"RootfsBase"}
    BY NamesAre DEF ParseArgs
  <1>2. /\ c.BootMode = IF cfg.BootMode = "" THEN "linux" ELSE cfg.BootMode
        /\ \A f \in Names \ {"BootMode"} : c[f] = cfg[f]
    BY BootModeFilledIn
  <1>3. /\ m.BootMode = c.BootMode /\ m.RootImage = c.RootImage
        /\ m.MemoryMiB = c.MemoryMiB /\ m.AgentVsockPort = c.AgentVsockPort
        /\ m.ReadySocket = c.ReadySocket /\ m.EnableNetwork = c.EnableNetwork
        /\ m.NetworkMode = EffectiveNetworkMode(c)
        /\ m.EnableVirtioFS = c.EnableVirtioFS /\ m.ProxyVsockPorts = c.ProxyVsockPorts
        /\ m.HostDir = c.HostDir /\ m.Tag = c.Tag /\ m.MountPoint = c.MountPoint
        /\ m.OverlayDevice = c.OverlayDevice /\ m.OverlayMount = c.OverlayMount
        /\ m.ExtraDisk = c.ExtraDisk /\ m.CIDR = c.CIDR /\ m.Gateway = c.Gateway
        /\ m.IfName = c.IfName
        /\ m.KernelPath = IF c.BootMode = "linux" THEN c.KernelPath ELSE ""
    BY ManagerReads
  <1> HIDE DEF m, c
  <1>4. m.NetworkMode = IF cfg.NetworkMode = "" THEN "hostonly" ELSE cfg.NetworkMode
    BY <1>2, <1>3, NamesAre DEF EffectiveNetworkMode
  <1>5. m.BootMode = cfg.BootMode \/ (cfg.BootMode = "" /\ m.BootMode = "linux")
    BY <1>2, <1>3
  <1>6. m.KernelPath = cfg.KernelPath \/ cfg.BootMode = "efi"
    BY <1>2, <1>3, NamesAre DEF c
  <1>7. ASSUME NEW f \in Names \ {"RootfsBase", "BootMode", "NetworkMode", "KernelPath"}
        PROVE  m[f] = cfg[f]
    <2>1. m[f] = c[f]
      BY <1>3, NamesAre
    <2> QED BY <2>1, <1>2
  <1> QED BY <1>1, <1>4, <1>5, <1>6, <1>7 DEF m
-----------------------------------------------------------------------------
(* The kernel command line of a Linux VM that shares a directory says so,  *)
(* with the tag, the mount point and the device vmmanager was given.       *)
LEMMA LineReads ==
  ASSUME NEW m, m.BootMode # "efi", m.EnableVirtioFS = TRUE, m.Tag # ""
  PROVE  /\ Get(BootArgs(m), "virtiofs", "") = "1"
         /\ Get(BootArgs(m), "virtiofs_tag", "") = m.Tag
         /\ Get(BootArgs(m), "virtiofs_mount", "") = m.MountPoint
         /\ Get(BootArgs(m), "overlay_device", "") = m.OverlayDevice
  <1> DEFINE agent == [vsock_port |-> m.AgentVsockPort]
             nic == [network_cidr |-> m.CIDR, network_gateway |-> m.Gateway,
                     network_ifname |-> m.IfName]
             network == IF m.EnableNetwork THEN Given(nic) ELSE <<>>
             fs == [virtiofs |-> IF m.Tag = "" THEN "" ELSE "1", virtiofs_tag |-> m.Tag,
                    virtiofs_mount |-> m.MountPoint, overlay_device |-> m.OverlayDevice,
                    overlay_mount |-> m.OverlayMount]
             line == BootArgs(m)
  <1>1. line = Merge(agent, Merge(network, Given(fs)))
    BY DEF BootArgs
  <1>2. /\ DOMAIN agent = {"vsock_port"}
        /\ DOMAIN fs = {"virtiofs", "virtiofs_tag", "virtiofs_mount", "overlay_device",
                        "overlay_mount"}
    OBVIOUS
  <1>3. DOMAIN network \subseteq {"network_cidr", "network_gateway", "network_ifname"}
    <2>1. DOMAIN Given(nic) \subseteq DOMAIN nic
      BY DEF Given
    <2>2. DOMAIN nic = {"network_cidr", "network_gateway", "network_ifname"}
      OBVIOUS
    <2>3. CASE m.EnableNetwork
      BY <2>1, <2>2, <2>3, Zenon
    <2>4. CASE ~m.EnableNetwork
      <3>1. network = <<>>
        BY <2>4
      <3> HIDE DEF network
      <3> QED BY <3>1, NoKeys, Zenon
    <2> QED BY <2>3, <2>4
  <1> HIDE DEF agent, network, fs, line
  <1>4. ASSUME NEW key \in DOMAIN fs PROVE Get(line, key, "") = fs[key]
    <2>1. key \notin DOMAIN agent /\ key \notin DOMAIN network
      BY <1>2, <1>3
    <2>2. Get(Merge(agent, Merge(network, Given(fs))), key, "") = Get(Given(fs), key, "")
      BY <2>1 DEF Get, Merge
    <2>3. Get(Given(fs), key, "") = fs[key]
      BY DEF Get, Given
    <2> QED BY <1>1, <2>2, <2>3
  <1>5. /\ fs["virtiofs"] = "1" /\ fs["virtiofs_tag"] = m.Tag
        /\ fs["virtiofs_mount"] = m.MountPoint /\ fs["overlay_device"] = m.OverlayDevice
    BY DEF fs
  <1> QED BY <1>2, <1>4, <1>5, Zenon DEF line

(* What the launcher makes of its flags has a VMConfig's fields; when it   *)
(* shares a directory, the rootfs is looked for where that is mounted.     *)
LEMMA LauncherConfig ==
  ASSUME NEW f
  PROVE  /\ DOMAIN FromFlags(f) = Names
         /\ FromFlags(f).EnableVirtioFS \in BOOLEAN
         /\ FromFlags(f).EnableVirtioFS =>
              /\ FromFlags(f).RootfsBase = FromFlags(f).MountPoint
              /\ FromFlags(f).OverlayDevice = "/dev/vdb"
  <1> DEFINE base == [DirectConfig EXCEPT
                 !.BootMode = ParseBootMode(f.boot), !.NetworkMode = ParseNetworkMode(f.network),
                 !.EnableNetwork = f.enableNetwork, !.AgentVsockPort = f.port,
                 !.KernelPath = IF f.kernel = "" THEN "kernels/default" ELSE f.kernel]
  <1>1. DOMAIN base = Names /\ base.EnableVirtioFS = FALSE
    BY DEF Names, DirectConfig
  <1>2. CASE f.image = ""
    BY <1>1, <1>2 DEF FromFlags
  <1>3. CASE f.image # ""
    <2>1. FromFlags(f) =
            [base EXCEPT !.EnableVirtioFS = TRUE, !.HostDir = "images", !.Tag = f.tag,
                         !.MountPoint = f.mount, !.OverlayDevice = "/dev/vdb",
                         !.OverlayMount = f.stateMount, !.ExtraDisk = "container-state.raw",
                         !.RootfsBase = f.mount]
      BY <1>3 DEF FromFlags
    <2> HIDE DEF base
    <2> QED BY <1>1, <2>1, NamesAre
  <1> QED BY <1>2, <1>3
-----------------------------------------------------------------------------
(* The fields of a struct of this size have places of their own in it. *)
WellPlaced(fields, size) ==
  \A f \in DOMAIN fields :
    /\ fields[f].get = fields[f].set
    /\ <<fields[f].set.kind, fields[f].set.from>> \in Cells(fields[f].set)
    /\ Cells(fields[f].set) \subseteq Struct(size)
    /\ \A g \in DOMAIN fields \ {f} : Cells(fields[g].set) \cap Cells(fields[f].set) = {}

(* What is set in such a struct is read from it. *)
LEMMA RoundTrip ==
  ASSUME NEW fields, NEW size, NEW values, WellPlaced(fields, size), NEW f \in DOMAIN fields
  PROVE  Unpack(fields, Pack(size, fields, values), f) = values[f]
  <1> DEFINE place == fields[f].set
             msg == Pack(size, fields, values)
             at == <<place.kind, place.from>>
  <1>1. /\ fields[f].get = place /\ at \in Cells(place) /\ Cells(place) \subseteq Struct(size)
        /\ \A g \in DOMAIN fields \ {f} : Cells(fields[g].set) \cap Cells(place) = {}
    BY DEF WellPlaced
  <1>2. DOMAIN msg = Struct(size) \cap UNION {Cells(fields[g].set) : g \in DOMAIN fields}
    BY DEF Pack
  <1>3. Cells(place) \subseteq DOMAIN msg
    BY <1>1, <1>2
  <1>4. ASSUME NEW c \in Cells(place)
        PROVE  msg[c] = <<values[f], c[2] - place.from>>
    <2>1. f = CHOOSE g \in DOMAIN fields : c \in Cells(fields[g].set)
      BY <1>1
    <2>2. c \in Struct(size) \cap UNION {Cells(fields[g].set) : g \in DOMAIN fields}
      BY <1>2, <1>3
    <2> QED BY <2>1, <2>2 DEF Pack
  <1> HIDE DEF msg
  <1>5. msg[at][1] = values[f]
    BY <1>1, <1>4
  <1> QED BY <1>1, <1>3, <1>4, <1>5 DEF Unpack, msg, at

(* A pointer fills the one cell of its slot. *)
LEMMA CellsOfPtr ==
  ASSUME NEW i \in Nat
  PROVE  Cells(Ptr(i)) = {<<"ptr", i>>}
  BY DEF Cells, Ptr

(* A number fills the bytes of its width, from its offset. *)
LEMMA CellsOfUInt ==
  ASSUME NEW o \in Nat, NEW w \in Nat
  PROVE  Cells(UInt(o, w)) = {<<"data", o + k>> : k \in 0..(w - 1)}
  BY DEF Cells, UInt

(* Structs of pointers, one after the other. *)
LEMMA PtrsPlaced ==
  ASSUME NEW fields, NEW n \in Nat, NEW place \in [DOMAIN fields -> 0..(n - 1)],
         \A f \in DOMAIN fields : fields[f] = Both(Ptr(place[f])),
         \A f, g \in DOMAIN fields : place[f] = place[g] => f = g
  PROVE  WellPlaced(fields, <<0, n>>)
  <1>1. ASSUME NEW f \in DOMAIN fields
        PROVE  /\ fields[f].get = fields[f].set
               /\ Cells(fields[f].set) = {<<"ptr", place[f]>>}
               /\ fields[f].set.kind = "ptr" /\ fields[f].set.from = place[f]
    BY CellsOfPtr DEF Both, Field, Ptr
  <1>2. \A i \in 0..(n - 1) : <<"ptr", i>> \in Struct(<<0, n>>)
    BY DEF Struct
  <1> QED BY <1>1, <1>2 DEF WellPlaced

(* A struct of one pointer is well placed. *)
LEMMA OnePtr ==
  ASSUME NEW fields, NEW name, DOMAIN fields = {name}, fields[name] = Both(Ptr(0))
  PROVE  WellPlaced(fields, <<0, 1>>)
  <1>1. fields[name].get = fields[name].set /\ Cells(fields[name].set) = {<<"ptr", 0>>}
    BY CellsOfPtr DEF Both, Field
  <1>2. fields[name].set.kind = "ptr" /\ fields[name].set.from = 0
    BY DEF Both, Field, Ptr
  <1>3. <<"ptr", 0>> \in Struct(<<0, 1>>)
    BY DEF Struct
  <1> QED BY <1>1, <1>2, <1>3 DEF WellPlaced

(* Every struct of the schema whose fields are all pointers. *)
LEMMA PointerStructs ==
  /\ WellPlaced(ByteStream_write_Params, <<0, 1>>)
  /\ WellPlaced(Debug_ping_Results, <<0, 1>>)
  /\ WellPlaced(Debug_openByteStream_Results, <<0, 1>>)
  /\ WellPlaced(Container_start_Results, <<0, 1>>)
  /\ WellPlaced(ContainerService_create_Results, <<0, 1>>)
  /\ WellPlaced(Agent_debug_Results, <<0, 1>>)
  /\ WellPlaced(Agent_network_Results, <<0, 1>>)
  /\ WellPlaced(Agent_containerService_Results, <<0, 1>>)
  /\ WellPlaced(Network_configureInterface_Params, <<0, 3>>)
  /\ WellPlaced(Container_start_Params, <<0, 2>>)
  /\ WellPlaced(ContainerService_create_Params, <<0, 5>>)
  <1>1. WellPlaced(ByteStream_write_Params, <<0, 1>>)
    <2> DEFINE fields == ByteStream_write_Params
    <2>1. DOMAIN fields = {"chunk"} /\ fields["chunk"] = Both(Ptr(0))
      BY DEF ByteStream_write_Params
    <2> HIDE DEF fields
    <2> QED BY <2>1, OnePtr DEF fields
  <1>2. WellPlaced(Debug_ping_Results, <<0, 1>>)
    <2> DEFINE fields == Debug_ping_Results
    <2>1. DOMAIN fields = {"message"} /\ fields["message"] = Both(Ptr(0))
      BY DEF Debug_ping_Results
    <2> HIDE DEF fields
    <2> QED BY <2>1, OnePtr DEF fields
  <1>3. WellPlaced(Debug_openByteStream_Results, <<0, 1>>)
    <2> DEFINE fields == Debug_openByteStream_Results
    <2>1. DOMAIN fields = {"stream"} /\ fields["stream"] = Both(Ptr(0))
      BY DEF Debug_openByteStream_Results
    <2> HIDE DEF fields
    <2> QED BY <2>1, OnePtr DEF fields
  <1>4. WellPlaced(Container_start_Results, <<0, 1>>)
    <2> DEFINE fields == Container_start_Results
    <2>1. DOMAIN fields = {"task"} /\ fields["task"] = Both(Ptr(0))
      BY DEF Container_start_Results
    <2> HIDE DEF fields
    <2> QED BY <2>1, OnePtr DEF fields
  <1>5. WellPlaced(ContainerService_create_Results, <<0, 1>>)
    <2> DEFINE fields == ContainerService_create_Results
    <2>1. DOMAIN fields = {"container"} /\ fields["container"] = Both(Ptr(0))
      BY DEF ContainerService_create_Results
    <2> HIDE DEF fields
    <2> QED BY <2>1, OnePtr DEF fields
  <1>6. WellPlaced(Agent_debug_Results, <<0, 1>>)
    <2> DEFINE fields == Agent_debug_Results
    <2>1. DOMAIN fields = {"debug"} /\ fields["debug"] = Both(Ptr(0))
      BY DEF Agent_debug_Results
    <2> HIDE DEF fields
    <2> QED BY <2>1, OnePtr DEF fields
  <1>7. WellPlaced(Agent_network_Results, <<0, 1>>)
    <2> DEFINE fields == Agent_network_Results
    <2>1. DOMAIN fields = {"network"} /\ fields["network"] = Both(Ptr(0))
      BY DEF Agent_network_Results
    <2> HIDE DEF fields
    <2> QED BY <2>1, OnePtr DEF fields
  <1>8. WellPlaced(Agent_containerService_Results, <<0, 1>>)
    <2> DEFINE fields == Agent_containerService_Results
    <2>1. DOMAIN fields = {"service"} /\ fields["service"] = Both(Ptr(0))
      BY DEF Agent_containerService_Results
    <2> HIDE DEF fields
    <2> QED BY <2>1, OnePtr DEF fields
  <1>9. WellPlaced(Network_configureInterface_Params, <<0, 3>>)
    <2> DEFINE fields == Network_configureInterface_Params
               place == [ifName |-> 0, cidr |-> 1, gateway |-> 2]
    <2>1. /\ place \in [DOMAIN fields -> 0..(3 - 1)]
          /\ \A f \in DOMAIN fields : fields[f] = Both(Ptr(place[f]))
          /\ \A f, g \in DOMAIN fields : place[f] = place[g] => f = g
      BY DEF Network_configureInterface_Params
    <2> HIDE DEF fields, place
    <2>2. WellPlaced(fields, <<0, 3>>)
      BY <2>1, PtrsPlaced
    <2> QED BY <2>2 DEF fields
  <1>10. WellPlaced(Container_start_Params, <<0, 2>>)
    <2> DEFINE fields == Container_start_Params
               place == [stdout |-> 0, stderr |-> 1]
    <2>1. /\ place \in [DOMAIN fields -> 0..(2 - 1)]
          /\ \A f \in DOMAIN fields : fields[f] = Both(Ptr(place[f]))
          /\ \A f, g \in DOMAIN fields : place[f] = place[g] => f = g
      BY DEF Container_start_Params
    <2> HIDE DEF fields, place
    <2>2. WellPlaced(fields, <<0, 2>>)
      BY <2>1, PtrsPlaced
    <2> QED BY <2>2 DEF fields
  <1>11. WellPlaced(ContainerService_create_Params, <<0, 5>>)
    <2> DEFINE fields == ContainerService_create_Params
               place == [oci |-> 0, image |-> 1, id |-> 2, rootfsPath |-> 3, containerStateDisk |-> 4]
    <2>1. /\ place \in [DOMAIN fields -> 0..(5 - 1)]
          /\ \A f \in DOMAIN fields : fields[f] = Both(Ptr(place[f]))
          /\ \A f, g \in DOMAIN fields : place[f] = place[g] => f = g
      BY DEF ContainerService_create_Params
    <2> HIDE DEF fields, place
    <2>2. WellPlaced(fields, <<0, 5>>)
      BY <2>1, PtrsPlaced
    <2> QED BY <2>2 DEF fields
  <1> QED BY <1>1, <1>2, <1>3, <1>4, <1>5, <1>6, <1>7, <1>8, <1>9, <1>10, <1>11

(* Structs of data, whose fields share no byte and end inside the struct. *)
LEMMA DataPlaced ==
  ASSUME NEW fields, NEW n \in Nat,
         NEW off \in [DOMAIN fields -> Nat], NEW wid \in [DOMAIN fields -> Nat \ {0}],
         \A f \in DOMAIN fields : /\ fields[f] = Both(UInt(off[f], wid[f]))
                                  /\ off[f] + wid[f] <= n,
         \A f, g \in DOMAIN fields :
           f # g => off[f] + wid[f] <= off[g] \/ off[g] + wid[g] <= off[f]
  PROVE  WellPlaced(fields, <<n, 0>>)
  <1>1. ASSUME NEW f \in DOMAIN fields
        PROVE  /\ fields[f].get = fields[f].set
               /\ fields[f].set.kind = "data" /\ fields[f].set.from = off[f]
               /\ Cells(fields[f].set) = {<<"data", off[f] + k>> : k \in 0..(wid[f] - 1)}
    <2>1. fields[f] = Both(UInt(off[f], wid[f])) /\ off[f] \in Nat /\ wid[f] \in Nat \ {0}
      OBVIOUS
    <2>2. Cells(UInt(off[f], wid[f])) = {<<"data", off[f] + k>> : k \in 0..(wid[f] - 1)}
      BY <2>1, CellsOfUInt
    <2>3. fields[f].set = UInt(off[f], wid[f]) /\ fields[f].get = UInt(off[f], wid[f])
      BY <2>1 DEF Both, Field
    <2>4. UInt(off[f], wid[f]).kind = "data" /\ UInt(off[f], wid[f]).from = off[f]
      BY DEF UInt
    <2> QED BY <2>2, <2>3, <2>4
  <1>2. ASSUME NEW f \in DOMAIN fields
        PROVE  Cells(fields[f].set) = {"data"} \X (off[f]..(off[f] + wid[f] - 1))
    <2>1. ASSUME NEW k \in 0..(wid[f] - 1) PROVE off[f] + k \in off[f]..(off[f] + wid[f] - 1)
      OBVIOUS
    <2>2. ASSUME NEW j \in off[f]..(off[f] + wid[f] - 1)
          PROVE  j - off[f] \in 0..(wid[f] - 1) /\ off[f] + (j - off[f]) = j
      OBVIOUS
    <2> QED BY <1>1, <2>1, <2>2
  <1>3. ASSUME NEW f \in DOMAIN fields
        PROVE  /\ <<"data", off[f]>> \in Cells(fields[f].set)
               /\ Cells(fields[f].set) \subseteq Struct(<<n, 0>>)
    BY <1>2 DEF Struct
  <1>4. ASSUME NEW f \in DOMAIN fields, NEW g \in DOMAIN fields \ {f}
        PROVE  Cells(fields[g].set) \cap Cells(fields[f].set) = {}
    BY <1>2
  <1> QED BY <1>1, <1>3, <1>4 DEF WellPlaced

(* Every struct of the schema with data. *)
LEMMA DataStructs ==
  /\ WellPlaced(Task_exitCode_Results, <<8, 0>>)
  /\ WellPlaced(Debug_startBenchmarkVsock_Params, <<16, 0>>)
  /\ WellPlaced(Debug_startBenchmarkVsock_Results, <<16, 0>>)
  <1>1. WellPlaced(Task_exitCode_Results, <<8, 0>>)
    <2> DEFINE fields == Task_exitCode_Results
               off == [code |-> 0]
               wid == [code |-> 4]
    <2>1. /\ off \in [DOMAIN fields -> Nat] /\ wid \in [DOMAIN fields -> Nat \ {0}]
          /\ \A f \in DOMAIN fields : /\ fields[f] = Both(UInt(off[f], wid[f]))
                                      /\ off[f] + wid[f] <= 8
          /\ \A f, g \in DOMAIN fields :
               f # g => off[f] + wid[f] <= off[g] \/ off[g] + wid[g] <= off[f]
      BY DEF Task_exitCode_Results
    <2> HIDE DEF fields, off, wid
    <2>2. WellPlaced(fields, <<8, 0>>)
      BY <2>1, DataPlaced
    <2> QED BY <2>2 DEF fields
  <1>2. WellPlaced(Debug_startBenchmarkVsock_Params, <<16, 0>>)
    <2> DEFINE fields == Debug_startBenchmarkVsock_Params
               off == [port |-> 0, totalBytes |-> 8, chunkBytes |-> 4]
               wid == [port |-> 4, totalBytes |-> 8, chunkBytes |-> 4]
    <2>1. /\ off \in [DOMAIN fields -> Nat] /\ wid \in [DOMAIN fields -> Nat \ {0}]
          /\ \A f \in DOMAIN fields : /\ fields[f] = Both(UInt(off[f], wid[f]))
                                      /\ off[f] + wid[f] <= 16
          /\ \A f, g \in DOMAIN fields :
               f # g => off[f] + wid[f] <= off[g] \/ off[g] + wid[g] <= off[f]
      BY DEF Debug_startBenchmarkVsock_Params
    <2> HIDE DEF fields, off, wid
    <2>2. WellPlaced(fields, <<16, 0>>)
      BY <2>1, DataPlaced
    <2> QED BY <2>2 DEF fields
  <1>3. WellPlaced(Debug_startBenchmarkVsock_Results, <<16, 0>>)
    <2> DEFINE fields == Debug_startBenchmarkVsock_Results
               off == [bytesPerSec |-> 0, durationNanos |-> 8]
               wid == [bytesPerSec |-> 8, durationNanos |-> 8]
    <2>1. /\ off \in [DOMAIN fields -> Nat] /\ wid \in [DOMAIN fields -> Nat \ {0}]
          /\ \A f \in DOMAIN fields : /\ fields[f] = Both(UInt(off[f], wid[f]))
                                      /\ off[f] + wid[f] <= 16
          /\ \A f, g \in DOMAIN fields :
               f # g => off[f] + wid[f] <= off[g] \/ off[g] + wid[g] <= off[f]
      BY DEF Debug_startBenchmarkVsock_Results
    <2> HIDE DEF fields, off, wid
    <2>2. WellPlaced(fields, <<16, 0>>)
      BY <2>1, DataPlaced
    <2> QED BY <2>2 DEF fields
  <1> QED BY <1>1, <1>2, <1>3
-----------------------------------------------------------------------------
(* The stub of a method allocates arguments of a size; a call with its id  *)
(* is served by the handler of the same name, with results of a size.      *)
Reaches(iface, method, args, results) ==
  /\ Stub(iface)[method].size = args
  /\ \A c : c.iface = iface /\ c.id = Stub(iface)[method].id
           => Handler(c) = method /\ ImplOf(c).size = results

(* A method is found by its id. *)
LEMMA ImplFound ==
  ASSUME NEW iface, NEW method, NEW args, NEW results,
         NEW m \in Methods(iface), m.id = Stub(iface)[method].id,
         m.handler = method, m.size = results, Stub(iface)[method].size = args,
         \A x \in Methods(iface) : x.id = m.id => x = m
  PROVE  Reaches(iface, method, args, results)
  BY DEF Reaches, ImplOf, Handler

(* Every method of every interface. *)
LEMMA MethodTable ==
  /\ Reaches("ByteStream", "write", <<0, 1>>, <<0, 0>>)
  /\ Reaches("ByteStream", "done", <<0, 0>>, <<0, 0>>)
  /\ Reaches("Debug", "ping", <<0, 0>>, <<0, 1>>)
  /\ Reaches("Debug", "openByteStream", <<0, 0>>, <<0, 1>>)
  /\ Reaches("Debug", "startBenchmarkVsock", <<16, 0>>, <<16, 0>>)
  /\ Reaches("Network", "configureInterface", <<0, 3>>, <<0, 0>>)
  /\ Reaches("Network", "setupVsockProxy", <<8, 0>>, <<0, 0>>)
  /\ Reaches("Task", "stdin", <<0, 0>>, <<0, 1>>)
  /\ Reaches("Task", "exitCode", <<0, 0>>, <<8, 0>>)
  /\ Reaches("Container", "start", <<0, 2>>, <<0, 1>>)
  /\ Reaches("ContainerService", "create", <<0, 5>>, <<0, 1>>)
  /\ Reaches("Agent", "debug", <<0, 0>>, <<0, 1>>)
  /\ Reaches("Agent", "network", <<0, 0>>, <<0, 1>>)
  /\ Reaches("Agent", "containerService", <<0, 0>>, <<0, 1>>)
  <1>1. /\ Reaches("ByteStream", "write", <<0, 1>>, <<0, 0>>)
        /\ Reaches("ByteStream", "done", <<0, 0>>, <<0, 0>>)
    <2>1. Stub("ByteStream") = ByteStream /\ Methods("ByteStream") = ByteStream_Methods
      BY DEF Stub, Methods
    <2>2. Reaches("ByteStream", "write", <<0, 1>>, <<0, 0>>)
      <3> DEFINE m == Impl(0, "write", 0, 0)
      <3>1. /\ m \in Methods("ByteStream") /\ m.id = Stub("ByteStream")["write"].id
            /\ m.handler = "write" /\ m.size = <<0, 0>>
            /\ Stub("ByteStream")["write"].size = <<0, 1>>
            /\ \A x \in Methods("ByteStream") : x.id = m.id => x = m
        BY <2>1 DEF ByteStream, ByteStream_Methods, Send, Impl
      <3> HIDE DEF m
      <3> QED BY <3>1, ImplFound
    <2>3. Reaches("ByteStream", "done", <<0, 0>>, <<0, 0>>)
      <3> DEFINE m == Impl(1, "done", 0, 0)
      <3>1. /\ m \in Methods("ByteStream") /\ m.id = Stub("ByteStream")["done"].id
            /\ m.handler = "done" /\ m.size = <<0, 0>>
            /\ Stub("ByteStream")["done"].size = <<0, 0>>
            /\ \A x \in Methods("ByteStream") : x.id = m.id => x = m
        BY <2>1 DEF ByteStream, ByteStream_Methods, Send, Impl
      <3> HIDE DEF m
      <3> QED BY <3>1, ImplFound
    <2> QED BY <2>2, <2>3
  <1>2. /\ Reaches("Debug", "ping", <<0, 0>>, <<0, 1>>)
        /\ Reaches("Debug", "openByteStream", <<0, 0>>, <<0, 1>>)
        /\ Reaches("Debug", "startBenchmarkVsock", <<16, 0>>, <<16, 0>>)
    <2>1. Stub("Debug") = Debug /\ Methods("Debug") = Debug_Methods
      BY DEF Stub, Methods
    <2>2. Reaches("Debug", "ping", <<0, 0>>, <<0, 1>>)
      <3> DEFINE m == Impl(0, "ping", 0, 1)
      <3>1. /\ m \in Methods("Debug") /\ m.id = Stub("Debug")["ping"].id
            /\ m.handler = "ping" /\ m.size = <<0, 1>>
            /\ Stub("Debug")["ping"].size = <<0, 0>>
            /\ \A x \in Methods("Debug") : x.id = m.id => x = m
        BY <2>1 DEF Debug, Debug_Methods, Send, Impl
      <3> HIDE DEF m
      <3> QED BY <3>1, ImplFound
    <2>3. Reaches("Debug", "openByteStream", <<0, 0>>, <<0, 1>>)
      <3> DEFINE m == Impl(1, "openByteStream", 0, 1)
      <3>1. /\ m \in Methods("Debug") /\ m.id = Stub("Debug")["openByteStream"].id
            /\ m.handler = "openByteStream" /\ m.size = <<0, 1>>
            /\ Stub("Debug")["openByteStream"].size = <<0, 0>>
            /\ \A x \in Methods("Debug") : x.id = m.id => x = m
        BY <2>1 DEF Debug, Debug_Methods, Send, Impl
      <3> HIDE DEF m
      <3> QED BY <3>1, ImplFound
    <2>4. Reaches("Debug", "startBenchmarkVsock", <<16, 0>>, <<16, 0>>)
      <3> DEFINE m == Impl(2, "startBenchmarkVsock", 16, 0)
      <3>1. /\ m \in Methods("Debug") /\ m.id = Stub("Debug")["startBenchmarkVsock"].id
            /\ m.handler = "startBenchmarkVsock" /\ m.size = <<16, 0>>
            /\ Stub("Debug")["startBenchmarkVsock"].size = <<16, 0>>
            /\ \A x \in Methods("Debug") : x.id = m.id => x = m
        BY <2>1 DEF Debug, Debug_Methods, Send, Impl
      <3> HIDE DEF m
      <3> QED BY <3>1, ImplFound
    <2> QED BY <2>2, <2>3, <2>4
  <1>3. /\ Reaches("Network", "configureInterface", <<0, 3>>, <<0, 0>>)
        /\ Reaches("Network", "setupVsockProxy", <<8, 0>>, <<0, 0>>)
    <2>1. Stub("Network") = Network /\ Methods("Network") = Network_Methods
      BY DEF Stub, Methods
    <2>2. Reaches("Network", "configureInterface", <<0, 3>>, <<0, 0>>)
      <3> DEFINE m == Impl(0, "configureInterface", 0, 0)
      <3>1. /\ m \in Methods("Network") /\ m.id = Stub("Network")["configureInterface"].id
            /\ m.handler = "configureInterface" /\ m.size = <<0, 0>>
            /\ Stub("Network")["configureInterface"].size = <<0, 3>>
            /\ \A x \in Methods("Network") : x.id = m.id => x = m
        BY <2>1 DEF Network, Network_Methods, Send, Impl
      <3> HIDE DEF m
      <3> QED BY <3>1, ImplFound
    <2>3. Reaches("Network", "setupVsockProxy", <<8, 0>>, <<0, 0>>)
      <3> DEFINE m == Impl(1, "setupVsockProxy", 0, 0)
      <3>1. /\ m \in Methods("Network") /\ m.id = Stub("Network")["setupVsockProxy"].id
            /\ m.handler = "setupVsockProxy" /\ m.size = <<0, 0>>
            /\ Stub("Network")["setupVsockProxy"].size = <<8, 0>>
            /\ \A x \in Methods("Network") : x.id = m.id => x = m
        BY <2>1 DEF Network, Network_Methods, Send, Impl
      <3> HIDE DEF m
      <3> QED BY <3>1, ImplFound
    <2> QED BY <2>2, <2>3
  <1>4. /\ Reaches("Task", "stdin", <<0, 0>>, <<0, 1>>)
        /\ Reaches("Task", "exitCode", <<0, 0>>, <<8, 0>>)
    <2>1. Stub("Task") = Task /\ Methods("Task") = Task_Methods
      BY DEF Stub, Methods
    <2>2. Reaches("Task", "stdin", <<0, 0>>, <<0, 1>>)
      <3> DEFINE m == Impl(0, "stdin", 0, 1)
      <3>1. /\ m \in Methods("Task") /\ m.id = Stub("Task")["stdin"].id
            /\ m.handler = "stdin" /\ m.size = <<0, 1>>
            /\ Stub("Task")["stdin"].size = <<0, 0>>
            /\ \A x \in Methods("Task") : x.id = m.id => x = m
        BY <2>1 DEF Task, Task_Methods, Send, Impl
      <3> HIDE DEF m
      <3> QED BY <3>1, ImplFound
    <2>3. Reaches("Task", "exitCode", <<0, 0>>, <<8, 0>>)
      <3> DEFINE m == Impl(1, "exitCode", 8, 0)
      <3>1. /\ m \in Methods("Task") /\ m.id = Stub("Task")["exitCode"].id
            /\ m.handler = "exitCode" /\ m.size = <<8, 0>>
            /\ Stub("Task")["exitCode"].size = <<0, 0>>
            /\ \A x \in Methods("Task") : x.id = m.id => x = m
        BY <2>1 DEF Task, Task_Methods, Send, Impl
      <3> HIDE DEF m
      <3> QED BY <3>1, ImplFound
    <2> QED BY <2>2, <2>3
  <1>5. Reaches("Container", "start", <<0, 2>>, <<0, 1>>)
    <2>1. Stub("Container") = Container /\ Methods("Container") = Container_Methods
      BY DEF Stub, Methods
    <2>2. Reaches("Container", "start", <<0, 2>>, <<0, 1>>)
      <3> DEFINE m == Impl(0, "start", 0, 1)
      <3>1. /\ m \in Methods("Container") /\ m.id = Stub("Container")["start"].id
            /\ m.handler = "start" /\ m.size = <<0, 1>>
            /\ Stub("Container")["start"].size = <<0, 2>>
            /\ \A x \in Methods("Container") : x.id = m.id => x = m
        BY <2>1 DEF Container, Container_Methods, Send, Impl
      <3> HIDE DEF m
      <3> QED BY <3>1, ImplFound
    <2> QED BY <2>2
  <1>6. Reaches("ContainerService", "create", <<0, 5>>, <<0, 1>>)
    <2>1. Stub("ContainerService") = ContainerService /\ Methods("ContainerService") = ContainerService_Methods
      BY DEF Stub, Methods
    <2>2. Reaches("ContainerService", "create", <<0, 5>>, <<0, 1>>)
      <3> DEFINE m == Impl(0, "create", 0, 1)
      <3>1. /\ m \in Methods("ContainerService") /\ m.id = Stub("ContainerService")["create"].id
            /\ m.handler = "create" /\ m.size = <<0, 1>>
            /\ Stub("ContainerService")["create"].size = <<0, 5>>
            /\ \A x \in Methods("ContainerService") : x.id = m.id => x = m
        BY <2>1 DEF ContainerService, ContainerService_Methods, Send, Impl
      <3> HIDE DEF m
      <3> QED BY <3>1, ImplFound
    <2> QED BY <2>2
  <1>7. /\ Reaches("Agent", "debug", <<0, 0>>, <<0, 1>>)
        /\ Reaches("Agent", "network", <<0, 0>>, <<0, 1>>)
        /\ Reaches("Agent", "containerService", <<0, 0>>, <<0, 1>>)
    <2>1. Stub("Agent") = Agent /\ Methods("Agent") = Agent_Methods
      BY DEF Stub, Methods
    <2>2. Reaches("Agent", "debug", <<0, 0>>, <<0, 1>>)
      <3> DEFINE m == Impl(0, "debug", 0, 1)
      <3>1. /\ m \in Methods("Agent") /\ m.id = Stub("Agent")["debug"].id
            /\ m.handler = "debug" /\ m.size = <<0, 1>>
            /\ Stub("Agent")["debug"].size = <<0, 0>>
            /\ \A x \in Methods("Agent") : x.id = m.id => x = m
        BY <2>1 DEF Agent, Agent_Methods, Send, Impl
      <3> HIDE DEF m
      <3> QED BY <3>1, ImplFound
    <2>3. Reaches("Agent", "network", <<0, 0>>, <<0, 1>>)
      <3> DEFINE m == Impl(1, "network", 0, 1)
      <3>1. /\ m \in Methods("Agent") /\ m.id = Stub("Agent")["network"].id
            /\ m.handler = "network" /\ m.size = <<0, 1>>
            /\ Stub("Agent")["network"].size = <<0, 0>>
            /\ \A x \in Methods("Agent") : x.id = m.id => x = m
        BY <2>1 DEF Agent, Agent_Methods, Send, Impl
      <3> HIDE DEF m
      <3> QED BY <3>1, ImplFound
    <2>4. Reaches("Agent", "containerService", <<0, 0>>, <<0, 1>>)
      <3> DEFINE m == Impl(2, "containerService", 0, 1)
      <3>1. /\ m \in Methods("Agent") /\ m.id = Stub("Agent")["containerService"].id
            /\ m.handler = "containerService" /\ m.size = <<0, 1>>
            /\ Stub("Agent")["containerService"].size = <<0, 0>>
            /\ \A x \in Methods("Agent") : x.id = m.id => x = m
        BY <2>1 DEF Agent, Agent_Methods, Send, Impl
      <3> HIDE DEF m
      <3> QED BY <3>1, ImplFound
    <2> QED BY <2>2, <2>3, <2>4
  <1> QED BY <1>1, <1>2, <1>3, <1>4, <1>5, <1>6, <1>7

(* A call, with arguments that have their places in the struct its stub    *)
(* allocates: the handler of the method gets it, and reads each argument   *)
(* as it was given, whatever the values are.                               *)
LEMMA ArgumentsTravel ==
  ASSUME NEW iface, NEW method, NEW args, NEW results, Reaches(iface, method, args, results),
         NEW fields, WellPlaced(fields, args), NEW values
  PROVE  LET c == Call(iface, method, fields, values)
         IN /\ Handler(c) = method
            /\ \A f \in DOMAIN fields : Unpack(fields, c.msg, f) = values[f]
  <1> DEFINE c == Call(iface, method, fields, values)
  <1>1. /\ c.iface = iface /\ c.id = Stub(iface)[method].id
        /\ c.msg = Pack(Stub(iface)[method].size, fields, values)
    BY DEF Call
  <1> HIDE DEF c
  <1>2. Handler(c) = method /\ Stub(iface)[method].size = args
    BY <1>1 DEF Reaches
  <1>3. \A f \in DOMAIN fields : Unpack(fields, c.msg, f) = values[f]
    BY <1>1, <1>2, RoundTrip
  <1> QED BY <1>2, <1>3 DEF c

(* The same for the results a handler puts into the answer to a call.      *)
LEMMA ResultsTravel ==
  ASSUME NEW iface, NEW method, NEW args, NEW results, Reaches(iface, method, args, results),
         NEW c, c.iface = iface, c.id = Stub(iface)[method].id,
         NEW fields, WellPlaced(fields, results), NEW values, NEW f \in DOMAIN fields
  PROVE  Unpack(fields, Answer(c, fields, values), f) = values[f]
  <1>1. ImplOf(c).size = results
    BY DEF Reaches
  <1> QED BY <1>1, RoundTrip DEF Answer

(* Stub and server of a method agree: a call of it reaches its handler,    *)
(* whatever is put into a field of the arguments is read there, and so for *)
(* the results of a call with its id.                                      *)
Agree(iface, method, params, results) ==
  /\ \A values :
       LET c == Call(iface, method, params, values)
       IN /\ Handler(c) = method
          /\ \A f \in DOMAIN params : Unpack(params, c.msg, f) = values[f]
  /\ \A c, values :
       c.iface = iface /\ c.id = Stub(iface)[method].id =>
         \A f \in DOMAIN results : Unpack(results, Answer(c, results, values), f) = values[f]

(* It takes a method table and fields that fit the structs. *)
LEMMA TheyAgree ==
  ASSUME NEW iface, NEW method, NEW args, NEW answer, Reaches(iface, method, args, answer),
         NEW params, WellPlaced(params, args), NEW results, WellPlaced(results, answer)
  PROVE  Agree(iface, method, params, results)
  <1>1. ASSUME NEW values
        PROVE  LET c == Call(iface, method, params, values)
               IN /\ Handler(c) = method
                  /\ \A f \in DOMAIN params : Unpack(params, c.msg, f) = values[f]
    BY ArgumentsTravel
  <1>2. ASSUME NEW c, NEW values, c.iface = iface, c.id = Stub(iface)[method].id,
               NEW f \in DOMAIN results
        PROVE  Unpack(results, Answer(c, results, values), f) = values[f]
    BY <1>2, ResultsTravel
  <1> QED BY <1>1, <1>2, Zenon DEF Agree

(* A struct without fields. *)
LEMMA NoFields ==
  ASSUME NEW size PROVE WellPlaced(<<>>, size)
  <1>1. DOMAIN <<>> = {}
    OBVIOUS
  <1> QED BY <1>1, Zenon DEF WellPlaced

(* The generated stubs and servers of every method that host and agent     *)
(* call on each other agree (agent.capnp.go): each id leads to its own     *)
(* handler, and no field of theirs is lost, garbled or mistaken for        *)
(* another, whatever its value.                                            *)
THEOREM BindingsAgree ==
  /\ Agree("Agent", "containerService", <<>>, Agent_containerService_Results)
  /\ Agree("Agent", "network", <<>>, Agent_network_Results)
  /\ Agree("Agent", "debug", <<>>, Agent_debug_Results)
  /\ Agree("ContainerService", "create", ContainerService_create_Params,
           ContainerService_create_Results)
  /\ Agree("Container", "start", Container_start_Params, Container_start_Results)
  /\ Agree("Task", "exitCode", <<>>, Task_exitCode_Results)
  /\ Agree("Network", "configureInterface", Network_configureInterface_Params, <<>>)
  /\ Agree("Debug", "ping", <<>>, Debug_ping_Results)
  /\ Agree("Debug", "openByteStream", <<>>, Debug_openByteStream_Results)
  /\ Agree("Debug", "startBenchmarkVsock", Debug_startBenchmarkVsock_Params,
           Debug_startBenchmarkVsock_Results)
  /\ Agree("ByteStream", "write", ByteStream_write_Params, <<>>)
  /\ Agree("ByteStream", "done", <<>>, <<>>)
  <1>1. /\ Agree("Agent", "containerService", <<>>, Agent_containerService_Results)
        /\ Agree("Agent", "network", <<>>, Agent_network_Results)
        /\ Agree("Agent", "debug", <<>>, Agent_debug_Results)
    BY TheyAgree, MethodTable, PointerStructs, NoFields
  <1>2. /\ Agree("ContainerService", "create", ContainerService_create_Params,
                 ContainerService_create_Results)
        /\ Agree("Container", "start", Container_start_Params, Container_start_Results)
    BY TheyAgree, MethodTable, PointerStructs
  <1>3. Agree("Task", "exitCode", <<>>, Task_exitCode_Results)
    BY TheyAgree, MethodTable, DataStructs, NoFields
  <1>4. Agree("Network", "configureInterface", Network_configureInterface_Params, <<>>)
    BY TheyAgree, MethodTable, PointerStructs, NoFields
  <1>5. /\ Agree("Debug", "ping", <<>>, Debug_ping_Results)
        /\ Agree("Debug", "openByteStream", <<>>, Debug_openByteStream_Results)
    BY TheyAgree, MethodTable, PointerStructs, NoFields
  <1>6. Agree("Debug", "startBenchmarkVsock", Debug_startBenchmarkVsock_Params,
              Debug_startBenchmarkVsock_Results)
    BY TheyAgree, MethodTable, DataStructs
  <1>7. Agree("ByteStream", "write", ByteStream_write_Params, <<>>)
    BY TheyAgree, MethodTable, PointerStructs, NoFields
  <1>8. Agree("ByteStream", "done", <<>>, <<>>)
    BY TheyAgree, MethodTable, NoFields
  <1> QED BY <1>1, <1>2, <1>3, <1>4, <1>5, <1>6, <1>7, <1>8
=============================================================================
