------------------------------- MODULE Config -------------------------------
(***************************************************************************)
(* How the configuration of a VM travels: the flags of the vm command      *)
(* (vm/cmd/vm/main.go) become a VMConfig, which VMRunner validates and     *)
(* turns into vmmanager's arguments (vm/runner.go); vmmanager parses them  *)
(* over defaults of its own and writes the kernel command line             *)
(* (main.swift); the agent reads that line in the guest, over its own      *)
(* defaults again (agent/main.go, runtime_mounts.go).                      *)
(*                                                                         *)
(* A text is a string.  Only " " and "two words" hold white space; all     *)
(* others but "" stand for one word.  An argument list is the function     *)
(* from the flags that are on it to their values, a command line the one   *)
(* from the keys on it.  vsock ports are UInt32 on the wire; PortMax is    *)
(* the largest one.                                                        *)
(***************************************************************************)
EXTENDS Integers, Sequences, FiniteSets

CONSTANTS PortMax

ASSUME ConfigConstants == PortMax \in Nat \ {0}

UInt32(n) == n % (PortMax + 1)

TrimSpace(v) == IF v = " " THEN "" ELSE v

(* What strings.Fields leaves of key=v: the text up to the first space. *)
FirstWord(v) == CASE v = " " -> "" [] v = "two words" -> "two" [] OTHER -> v

Get(args, key, default) == IF key \in DOMAIN args THEN args[key] ELSE default

(* The arguments of two lists; where a key is on both, the first is read. *)
Merge(args, more) ==
  [k \in DOMAIN args \cup DOMAIN more |-> IF k \in DOMAIN args THEN args[k] ELSE more[k]]

(* The part of args whose values are set. *)
Given(args) == [k \in {k \in DOMAIN args : args[k] # ""} |-> args[k]]

DefaultAgentPort == 1   \* 7000, in the agent and in vmmanager
-----------------------------------------------------------------------------
(* runner.go *)

(* ToLower(TrimSpace(raw)) is a mode; "other" stands for what is none. *)
ParseBootMode(raw) ==
  CASE raw \in {"linux", " Linux"} -> "linux" [] raw \in {"efi", "EFI "} -> "efi"
    [] OTHER -> "error"

ParseNetworkMode(raw) ==
  CASE raw \in {"nat", "NAT"} -> "nat" [] raw = "bridged" -> "bridged"
    [] raw \in {"hostonly", "HostOnly "} -> "hostonly" [] OTHER -> "error"

(* A VMConfig, with the fields that are checked or passed on; the others   *)
(* (initrd, CPUs, bridge, Verbose) travel like these.  RootfsBase is not a *)
(* field of it: there the caller will say the container's rootfs is.       *)
VMConfig ==
  [BootMode : STRING, KernelPath : STRING, RootImage : STRING, ExtraDisk : STRING,
   MemoryMiB : Nat, AgentVsockPort : Nat, ProxyVsockPorts : SUBSET Nat, ReadySocket : STRING,
   EnableNetwork : BOOLEAN, NetworkMode : STRING, CIDR : STRING, Gateway : STRING,
   IfName : STRING, EnableVirtioFS : BOOLEAN, HostDir : STRING, Tag : STRING,
   MountPoint : STRING, OverlayDevice : STRING, OverlayMount : STRING, RootfsBase : STRING]

(* The one the tests start from. *)
DirectConfig ==
  [BootMode |-> "", KernelPath |-> "kernel", RootImage |-> "root", ExtraDisk |-> "",
   MemoryMiB |-> 512, AgentVsockPort |-> DefaultAgentPort, ProxyVsockPorts |-> {},
   ReadySocket |-> "sock", EnableNetwork |-> FALSE, NetworkMode |-> "", CIDR |-> "",
   Gateway |-> "", IfName |-> "", EnableVirtioFS |-> FALSE, HostDir |-> "", Tag |-> "",
   MountPoint |-> "", OverlayDevice |-> "", OverlayMount |-> "", RootfsBase |-> ""]

(* netip.ParsePrefix, netip.ParseAddr. *)
Parses(v) == v \notin {"bad", " ", "two words"}

Validate(c) ==
  /\ c.RootImage # ""
  /\ c.ExtraDisk # " "
  /\ c.BootMode \in {"", "linux", "efi"}
  /\ c.BootMode = "linux" => c.KernelPath # ""
  /\ c.MemoryMiB > 0 /\ c.AgentVsockPort > 0 /\ \A p \in c.ProxyVsockPorts : p > 0
  /\ c.ReadySocket # ""
  /\ c.EnableNetwork =>
       /\ c.NetworkMode \in {"", "nat", "bridged", "hostonly"}
       /\ c.CIDR # "" => Parses(c.CIDR) /\ c.IfName # ""
       /\ c.Gateway # "" => Parses(c.Gateway)
  /\ c.EnableVirtioFS =>
       TrimSpace(c.HostDir) # "" /\ TrimSpace(c.Tag) # "" /\ TrimSpace(c.OverlayMount) # ""

(* ManagerArgs fills in the boot mode before it validates and the network  *)
(* mode after.                                                             *)
WithBootMode(c) == IF c.BootMode = "" THEN [c EXCEPT !.BootMode = "linux"] ELSE c

(* vmmanager's default mode in place of the runner's. *)
EffectiveNetworkModeNAT(c) == IF c.NetworkMode = "" THEN "nat" ELSE c.NetworkMode

EffectiveNetworkMode(c) == IF c.NetworkMode = "" THEN "hostonly" ELSE c.NetworkMode

ManagerArgs(cfg) ==
  LET c == WithBootMode(cfg) IN
  Merge([boot_mode |-> c.BootMode, root_image |-> c.RootImage, memory_mib |-> c.MemoryMiB,
         agent_vsock_port |-> c.AgentVsockPort, agent_ready_socket |-> c.ReadySocket,
         enable_network |-> c.EnableNetwork, network_mode |-> EffectiveNetworkMode(c),
         enable_virtiofs |-> c.EnableVirtioFS, proxy_vsock_port |-> c.ProxyVsockPorts],
  Merge(Given([virtiofs_host_dir |-> c.HostDir, virtiofs_tag |-> c.Tag,
               virtiofs_mount_point |-> c.MountPoint, overlay_state_device |-> c.OverlayDevice,
               overlay_state_mount |-> c.OverlayMount, extra_disk |-> c.ExtraDisk,
               vm_network_cidr |-> c.CIDR, vm_network_gateway |-> c.Gateway,
               vm_network_ifname |-> c.IfName]),
        IF c.BootMode = "linux" THEN [kernel |-> c.KernelPath] ELSE <<>>))
-----------------------------------------------------------------------------
(* main.go: the flags that matter here, and the VMConfig made of them.     *)
(* Every path that is not given comes from the state directory.            *)
VMFlags ==
  [boot : STRING, network : STRING, enableNetwork : BOOLEAN, port : Nat, kernel : STRING,
   image : STRING, spec : STRING, tag : STRING, mount : STRING, stateMount : STRING]

DefaultFlags ==
  [boot |-> "linux", network |-> "hostonly", enableNetwork |-> FALSE, port |-> DefaultAgentPort,
   kernel |-> "", image |-> "", spec |-> "", tag |-> "vmrunnerfs0",
   mount |-> "/var/run/vmrunner", stateMount |-> "/containers"]

FlagsOK(f) ==
  /\ ParseBootMode(f.boot) # "error" /\ ParseNetworkMode(f.network) # "error"
  /\ f.spec # "" => f.image # ""

FromFlags(f) ==
  LET base == [DirectConfig EXCEPT
                 !.BootMode = ParseBootMode(f.boot), !.NetworkMode = ParseNetworkMode(f.network),
                 !.EnableNetwork = f.enableNetwork, !.AgentVsockPort = f.port,
                 !.KernelPath = IF f.kernel = "" THEN "kernels/default" ELSE f.kernel]
  IN IF f.image = "" THEN base
     ELSE [base EXCEPT !.EnableVirtioFS = TRUE, !.HostDir = "images", !.Tag = f.tag,
                       !.MountPoint = f.mount, !.OverlayDevice = "/dev/vdb",
                       !.OverlayMount = f.stateMount, !.ExtraDisk = "container-state.raw",
                       !.RootfsBase = f.mount]
-----------------------------------------------------------------------------
(* main.swift *)

(* parseArgs: the arguments over vmmanager's defaults. *)
ParseArgs(args) ==
  [BootMode |-> Get(args, "boot_mode", "linux"), KernelPath |-> Get(args, "kernel", ""),
   RootImage |-> Get(args, "root_image", ""), ExtraDisk |-> Get(args, "extra_disk", ""),
   MemoryMiB |-> Get(args, "memory_mib", 512),
   AgentVsockPort |-> Get(args, "agent_vsock_port", DefaultAgentPort),
   ProxyVsockPorts |-> Get(args, "proxy_vsock_port", {}),
   ReadySocket |-> Get(args, "agent_ready_socket", ""),
   EnableNetwork |-> Get(args, "enable_network", TRUE),
   NetworkMode |-> Get(args, "network_mode", "nat"),
   CIDR |-> Get(args, "vm_network_cidr", ""), Gateway |-> Get(args, "vm_network_gateway", ""),
   IfName |-> Get(args, "vm_network_ifname", ""),
   EnableVirtioFS |-> Get(args, "enable_virtiofs", FALSE),
   HostDir |-> Get(args, "virtiofs_host_dir", ""), Tag |-> Get(args, "virtiofs_tag", ""),
   MountPoint |-> Get(args, "virtiofs_mount_point", ""),
   OverlayDevice |-> Get(args, "overlay_state_device", ""),
   OverlayMount |-> Get(args, "overlay_state_mount", "")]

(* The checks of parseArgs and startVM that do not ask the framework. *)
Startable(m) ==
  /\ m.RootImage # ""
  /\ m.BootMode = "linux" => m.KernelPath # ""
  /\ m.EnableVirtioFS => m.HostDir # "" /\ m.Tag # ""

(* bootArgs, which only the Linux boot loader is given. *)
BootArgs(m) ==
  IF m.BootMode = "efi" THEN <<>>
  ELSE Merge([vsock_port |-> m.AgentVsockPort],
       Merge(IF m.EnableNetwork
             THEN Given([network_cidr |-> m.CIDR, network_gateway |-> m.Gateway,
                         network_ifname |-> m.IfName]) ELSE <<>>,
             IF m.EnableVirtioFS
             THEN Given([virtiofs |-> IF m.Tag = "" THEN "" ELSE "1", virtiofs_tag |-> m.Tag,
                         virtiofs_mount |-> m.MountPoint, overlay_device |-> m.OverlayDevice,
                         overlay_mount |-> m.OverlayMount]) ELSE <<>>))

(* enableVsockAgentListener: the agent's port and the proxies', each once. *)
ListenPorts(m) == {m.AgentVsockPort} \cup {p \in m.ProxyVsockPorts : p > 0}
-----------------------------------------------------------------------------
(* The agent: /proc/cmdline cut into words, each key over its default.     *)

ParseVsockTarget(line) == UInt32(Get(line, "vsock_port", DefaultAgentPort))

VirtioFSEnabled(line) == Get(line, "virtiofs", "") \in {"1", "true"}

Word(line, key, default) ==
  LET v == FirstWord(Get(line, key, "")) IN IF v = "" THEN default ELSE v

VirtioFSTag(line) == Word(line, "virtiofs_tag", "vmrunnerfs0")
VirtioFSMountPoint(line) == Word(line, "virtiofs_mount", "/run/vmrunner/shared")
ContainerWritableDiskDevice(line) == Word(line, "overlay_device", "/dev/vdb")
=============================================================================
