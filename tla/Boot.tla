-------------------------------- MODULE Boot --------------------------------
(***************************************************************************)
(* From a VMConfig to the host's RPC session with the agent, across four   *)
(* programs: VMRunner.Run on the host (vm/runner.go; Runner has its        *)
(* goroutines), vmmanager (main.swift), the guest, and the agent in it     *)
(* (agent/main.go, runtime_mounts.go, vsock.go).                           *)
(*                                                                         *)
(* The agent dials until a vsock listener answers, and again whenever its  *)
(* RPC connection ends.  vmmanager accepts each connection and only then   *)
(* tries to pass it to the host; the guest is not told how that went.  The *)
(* host takes the first connection on the agent's port for RPC, and hands  *)
(* out every other one as a proxy connection, through two bounded channels *)
(* and a goroutine between them.                                           *)
(***************************************************************************)
EXTENDS Config, FiniteSets

CONSTANTS
  Flags,      \* the flags the vm command is started with
  Direct,     \* the VMConfigs of other callers of Run, which are tests
  AcceptCap,  \* capacity of acceptCh, 32 in the code
  ProxyCap,   \* capacity of proxyCh, 64 in the code
  MaxConns    \* bound: vsock connections made

(* A test that shares a directory mounts it, and says where the rootfs is, *)
(* as the launcher does (e2e_test.go:566, e2e_test.go:618).                *)
ASSUME BootConstants ==
  /\ MaxConns \in Nat \ {0} /\ AcceptCap \in Nat \ {0} /\ ProxyCap \in Nat \ {0}
  /\ Flags \subseteq VMFlags /\ Direct \subseteq VMConfig
  /\ \A c \in Direct :
       c.EnableVirtioFS => c.RootfsBase = c.MountPoint /\ c.OverlayDevice = "/dev/vdb"

(* What Run is called with. *)
Configs == {FromFlags(f) : f \in {f \in Flags : FlagsOK(f)}} \cup Direct

VARIABLES
  cfg,        \* the VMConfig
  run,        \* VMRunner.Run and then the VMContext
  mgr,        \* vmmanager and the VM
  ports,      \* vsock ports with a listener
  gpc,        \* the agent's main loop
  served,     \* the connection the agent serves RPC on, 0 if none
  line,       \* the kernel command line as the agent reads it
  share,      \* the virtiofs mount, if there is one
  conns,      \* the connections made: port, what became of the delivery, who has it
  acceptor,   \* the runner's acceptor goroutine still runs
  session     \* the connection the host speaks RPC on, 0 if none

hostVars == <<run, acceptor, session>>
agentVars == <<gpc, served, line, share>>
bootVars == <<cfg, hostVars, mgr, ports, agentVars, conns>>

NoShare == [tag |-> "", at |-> ""]
FailedShare == [tag |-> "", at |-> "failed"]
VMUp == mgr \in {"vm", "listening"}
Manager == ParseArgs(ManagerArgs(cfg))

(* Host and agent speak RPC over the same live connection. *)
Linked == run = "ready" /\ VMUp /\ session # 0 /\ served = session

BootInit ==
  /\ cfg \in Configs
  /\ run = "new" /\ mgr = "none" /\ ports = {}
  /\ gpc = "off" /\ served = 0 /\ line = <<>> /\ share = NoShare
  /\ conns = <<>> /\ acceptor = TRUE /\ session = 0
-----------------------------------------------------------------------------
(* The deliveries that are, or can come to be, in acceptCh and in the      *)
(* acceptor's hand: a broken one ends the acceptor.                        *)
Queued ==
  {i \in DOMAIN conns : /\ conns[i].way = "ok" /\ conns[i].has = "manager"
                        /\ \A j \in 1..(i - 1) : conns[j].way # "broken"}

(* The acceptor waits for room in acceptCh; the forwarder, or the hand-off *)
(* before it, for room in proxyCh.                                         *)
AcceptFull == acceptor /\ Cardinality(Queued) > AcceptCap
ProxyFull == Cardinality({i \in DOMAIN conns : conns[i].has = "proxy"}) > ProxyCap

(* What comes out of acceptCh next: deliveries pass in the order they were *)
(* made.                                                                   *)
NextDelivery(i) ==
  /\ run \in {"waiting", "ready"}
  /\ i \in Queued
  /\ \A j \in 1..(i - 1) : conns[j].way = "lost" \/ conns[j].has # "manager"

(* Mutated forms: what a plausible slip in the code would make of a step.  *)

(* enableVsockAgentListener listens on the proxies' ports only. *)
ListenProxies ==
  /\ mgr = "vm"
  /\ mgr' = "listening" /\ ports' = Manager.ProxyVsockPorts
  /\ UNCHANGED <<cfg, hostVars, agentVars, conns>>

(* A connection on the agent's port always becomes the RPC connection. *)
TakeAgentAgain(i) ==
  /\ NextDelivery(i)
  /\ conns[i].port = UInt32(cfg.AgentVsockPort)
  /\ conns' = [conns EXCEPT ![i].has = "agent"]
  /\ session' = i
  /\ UNCHANGED <<cfg, run, mgr, ports, agentVars, acceptor>>

(* The virtiofs mount point is not read from the command line. *)
AgentBootsDefaults(procOK, shareOK) ==
  /\ gpc = "off" /\ VMUp
  /\ line' = IF procOK THEN BootArgs(Manager) ELSE <<>>
  /\ share' = IF ~VirtioFSEnabled(line') THEN NoShare
              ELSE IF shareOK /\ VirtioFSTag(line') = Manager.Tag
              THEN [tag |-> VirtioFSTag(line'), at |-> VirtioFSMountPoint(<<>>)] ELSE FailedShare
  /\ gpc' = "dial"
  /\ UNCHANGED <<cfg, hostVars, mgr, ports, served, conns>>

(* Only what is pending when the agent is there is handed out. *)
TakeProxyEarly(i) ==
  /\ NextDelivery(i) /\ run = "waiting"
  /\ conns[i].port # UInt32(cfg.AgentVsockPort) \/ session # 0
  /\ conns' = [conns EXCEPT ![i].has = "proxy"]
  /\ UNCHANGED <<cfg, hostVars, mgr, ports, agentVars>>
-----------------------------------------------------------------------------
(* VMRunner.Run: validate, listen, start vmmanager. *)
RunVM ==
  /\ run = "new"
  /\ IF Validate(WithBootMode(cfg)) THEN run' = "waiting" /\ mgr' = "spawned"
     ELSE run' = "failed" /\ mgr' = mgr
  /\ UNCHANGED <<cfg, ports, agentVars, conns, acceptor, session>>

(* vmmanager's main: parseArgs and startVM up to vm.start(), or exit(1). *)
ManagerStarts ==
  /\ mgr = "spawned"
  /\ mgr' \in IF Startable(Manager) THEN {"booting", "exited"} ELSE {"exited"}
  /\ UNCHANGED <<cfg, hostVars, ports, agentVars, conns>>

(* The VM runs from here on; the completion handler comes later. *)
VMStarts ==
  /\ mgr = "booting"
  /\ mgr' \in {"vm", "exited"}
  /\ UNCHANGED <<cfg, hostVars, ports, agentVars, conns>>

(* The completion handler: enableVsockAgentListener.  UInt32(port) traps   *)
(* on a port that does not fit.                                            *)
Listen ==
  /\ mgr = "vm"
  /\ IF \A p \in ListenPorts(Manager) : p <= PortMax
     THEN mgr' = "listening" /\ ports' = ListenPorts(Manager)
     ELSE mgr' = "exited" /\ ports' = ports
  /\ UNCHANGED <<cfg, hostVars, agentVars, conns>>

(* The agent as pid 1: setupRuntimeMounts, whose failure is only logged,   *)
(* and parseVsockTarget.  Without /proc it reads its own arguments, which  *)
(* have no key, and does not get as far as the virtiofs mount; that mount  *)
(* fails for a tag no device has, and may fail anyway.                     *)
AgentBoots(procOK, shareOK) ==
  /\ gpc = "off" /\ VMUp
  /\ line' = IF procOK THEN BootArgs(Manager) ELSE <<>>
  /\ share' = IF ~VirtioFSEnabled(line') THEN NoShare
              ELSE IF shareOK /\ VirtioFSTag(line') = Manager.Tag
              THEN [tag |-> VirtioFSTag(line'), at |-> VirtioFSMountPoint(line')] ELSE FailedShare
  /\ gpc' = "dial"
  /\ UNCHANGED <<cfg, hostVars, mgr, ports, served, conns>>

(* A vsock connection to the host that a listener answers: the delegate    *)
(* keeps it, tries to send it to the readiness socket, and accepts it      *)
(* whatever became of that: delivered whole, lost (no socket, connect      *)
(* failed) or broken (sendmsg failed after connect).                       *)
Connect(port, way) ==
  /\ mgr = "listening" /\ port \in ports /\ Len(conns) < MaxConns
  /\ conns' = Append(conns, [port |-> port, way |-> way, has |-> "manager"])

(* The agent's loop: dialVsock succeeds and serveRPC begins, ... *)
Dial(way) ==
  /\ gpc = "dial"
  /\ Connect(ParseVsockTarget(line), way)
  /\ gpc' = "serve" /\ served' = Len(conns')
  /\ UNCHANGED <<cfg, hostVars, mgr, ports, line, share>>

(* ... or fails, and the agent sleeps 200 ms ... *)
DialFails ==
  /\ VMUp /\ gpc = "dial"
  /\ mgr # "listening" \/ ParseVsockTarget(line) \notin ports
  /\ gpc' = "sleep"
  /\ UNCHANGED <<cfg, hostVars, mgr, ports, served, line, share, conns>>

(* ... and dials again. *)
Wake ==
  /\ VMUp /\ gpc = "sleep"
  /\ gpc' = "dial"
  /\ UNCHANGED <<cfg, hostVars, mgr, ports, served, line, share, conns>>

(* The connection the agent serves ends: serveRPC closes it and returns,   *)
(* and the agent dials again, after a pause if there was an error.  One    *)
(* that was never delivered is held open by vmmanager.                     *)
ServeEnds ==
  /\ VMUp /\ gpc = "serve" /\ conns[served].way # "lost"
  /\ gpc' \in {"sleep", "dial"} /\ served' = 0
  /\ UNCHANGED <<cfg, hostVars, mgr, ports, line, share, conns>>

(* Run's select loop receives from acceptCh, and later the forwarder: the  *)
(* first connection on the agent's port is the agent, ...                  *)
TakeAgent(i) ==
  /\ NextDelivery(i)
  /\ conns[i].port = UInt32(cfg.AgentVsockPort) /\ session = 0
  /\ conns' = [conns EXCEPT ![i].has = "agent"]
  /\ session' = i
  /\ UNCHANGED <<cfg, run, mgr, ports, agentVars, acceptor>>

(* ... the others are proxy connections.  Run keeps any number of them;    *)
(* the forwarder takes one into its hand when it is rid of the last.       *)
TakeProxy(i) ==
  /\ NextDelivery(i)
  /\ conns[i].port # UInt32(cfg.AgentVsockPort) \/ session # 0
  /\ run = "ready" => ~ProxyFull
  /\ conns' = [conns EXCEPT ![i].has = "proxy"]
  /\ UNCHANGED <<cfg, hostVars, mgr, ports, agentVars>>

(* Run sees its own readyCh, hands over what is pending and returns, or    *)
(* waits for ever for somebody to read from a channel it has not returned. *)
HandOff ==
  /\ run = "waiting" /\ session # 0
  /\ run' = IF ProxyFull THEN "stuck" ELSE "ready"
  /\ UNCHANGED <<cfg, mgr, ports, agentVars, conns, acceptor, session>>

(* The caller reads from ProxyConnCh.  The vm command never does. *)
ReadProxy(i) ==
  /\ run \in {"ready", "closing"}
  /\ conns[i].has = "proxy" /\ \A j \in 1..(i - 1) : conns[j].has # "proxy"
  /\ conns' = [conns EXCEPT ![i].has = "caller"]
  /\ UNCHANGED <<cfg, hostVars, mgr, ports, agentVars>>

(* A broken delivery ends the acceptor, when what came before it is taken  *)
(* or fits into acceptCh.                                                  *)
TakeBroken(i) ==
  /\ acceptor /\ run \in {"waiting", "ready"}
  /\ conns[i].way = "broken" /\ conns[i].has = "manager"
  /\ Cardinality({j \in Queued : j < i}) <= AcceptCap
  /\ conns' = [conns EXCEPT ![i].has = "host"]
  /\ acceptor' = FALSE
  /\ UNCHANGED <<cfg, run, mgr, ports, agentVars, session>>

(* Run hears of it in its select loop and kills vmmanager; or it sees that *)
(* acceptCh is closed, and leaves vmmanager running (runner.go:427).       *)
RunFails ==
  /\ run = "waiting" /\ ~acceptor
  /\ run' = "failed"
  /\ \/ mgr' = "exited"
     \/ (\A i \in Queued : ~NextDelivery(i)) /\ UNCHANGED mgr
  /\ UNCHANGED <<cfg, ports, agentVars, conns, acceptor, session>>

(* vmmanager has exited, with the VM: Run fails, or WaitCh reports, once   *)
(* the acceptor has returned.  It does not while it waits for room: under  *)
(* Run for ever, under the watcher until somebody reads a proxy connection.*)
ManagerGone ==
  /\ mgr = "exited" /\ run \in {"waiting", "ready"}
  /\ \/ run' = IF run = "waiting" THEN "failed" ELSE "ended"
     \/ run = "waiting" /\ AcceptFull /\ run' = "stuck"
     \/ run = "ready" /\ AcceptFull /\ ProxyFull /\ run' = "closing"
  /\ acceptor' = FALSE
  /\ UNCHANGED <<cfg, mgr, ports, agentVars, conns, session>>

WatcherEnds ==
  /\ run = "closing" /\ ~ProxyFull
  /\ run' = "ended"
  /\ UNCHANGED <<cfg, mgr, ports, agentVars, conns, acceptor, session>>

(* vmmanager is killed or crashes, and the VM with it. *)
ManagerExits ==
  /\ VMUp \/ mgr = "stopped"
  /\ mgr' = "exited" /\ ports' = {}
  /\ UNCHANGED <<cfg, hostVars, agentVars, conns>>

(* The guest stops or panics.  vmmanager has set no delegate that would    *)
(* tell it, and goes on.                                                   *)
GuestStops ==
  /\ VMUp
  /\ mgr' = "stopped"
  /\ UNCHANGED <<cfg, hostVars, ports, agentVars, conns>>

AgentLoop == DialFails \/ Wake \/ \E way \in {"ok", "lost", "broken"} : Dial(way)
Delivery(i) == TakeAgent(i) \/ TakeProxy(i) \/ TakeBroken(i)

BootNext ==
  \/ RunVM \/ HandOff \/ RunFails \/ ManagerGone \/ WatcherEnds
  \/ ManagerStarts \/ VMStarts \/ Listen \/ ManagerExits \/ GuestStops
  \/ (\E a, b \in BOOLEAN : AgentBoots(a, b)) \/ AgentLoop \/ ServeEnds
  \/ \E i \in DOMAIN conns : Delivery(i) \/ ReadProxy(i)

(* The host's programs do not stop between steps, and neither does the     *)
(* agent once it runs.  Nothing makes the guest boot, connections end,     *)
(* vmmanager exit, or the caller read its proxy connections.               *)
BootFairness ==
  /\ WF_bootVars(RunVM) /\ WF_bootVars(ManagerStarts) /\ WF_bootVars(VMStarts)
  /\ WF_bootVars(Listen) /\ WF_bootVars(AgentLoop)
  /\ WF_bootVars(\E i \in DOMAIN conns : Delivery(i))
  /\ WF_bootVars(HandOff) /\ WF_bootVars(RunFails)
  /\ WF_bootVars(ManagerGone) /\ WF_bootVars(WatcherEnds)

BootSpec == BootInit /\ [][BootNext]_bootVars /\ BootFairness
-----------------------------------------------------------------------------
BootTypeOK ==
  /\ run \in {"new", "waiting", "ready", "failed", "closing", "ended", "stuck", "dead"}
  /\ mgr \in {"none", "spawned", "booting", "vm", "listening", "stopped", "exited"}
  /\ gpc \in {"off", "dial", "sleep", "serve"} /\ served \in 0..Len(conns)
  /\ session \in 0..Len(conns) /\ acceptor \in BOOLEAN
  /\ \A i \in DOMAIN conns : /\ conns[i].way \in {"ok", "lost", "broken"}
                             /\ conns[i].has \in {"manager", "agent", "proxy", "caller", "host"}

(* vmmanager works with the configuration Run was given: whatever it fills *)
(* in by itself (networking on, "nat") is said on its command line.  Only  *)
(* the kernel of an EFI boot is dropped (runner.go:226).                   *)
ConfigCarried ==
  mgr # "none" =>
    \A f \in DOMAIN Manager :
      \/ Manager[f] = cfg[f]
      \/ f = "BootMode" /\ cfg[f] = "" /\ Manager[f] = "linux"
      \/ f = "NetworkMode" /\ cfg[f] = "" /\ Manager[f] = "hostonly"
      \/ f = "KernelPath" /\ cfg.BootMode = "efi"

(* When the mounts succeed, the agent finds the container's rootfs where   *)
(* the launcher tells it to look (main.go:204), although the two take the  *)
(* path from different places, and takes the state disk for the one the    *)
(* launcher attached.  It does not under EFI, which passes no command      *)
(* line, and with a tag or mount point that is not one word.               *)
OneWord(v) == v \notin {"", " ", "two words"}
SharedRootfsFound ==
  gpc # "off" /\ line # <<>> /\ cfg.EnableVirtioFS /\ OneWord(cfg.Tag) /\ OneWord(cfg.MountPoint)
    => /\ share \in {FailedShare, [tag |-> cfg.Tag, at |-> cfg.RootfsBase]}
       /\ ContainerWritableDiskDevice(line) = cfg.OverlayDevice

(* The host speaks RPC on the first connection it was handed on the        *)
(* agent's port and never on another one: when the agent reconnects        *)
(* (main.go:33), its new connection is only a proxy connection             *)
(* (runner.go:429).                                                        *)
OneSession ==
  \A i \in DOMAIN conns :
    conns[i].has = "agent" <=>
      i = session /\ \A j \in 1..(i - 1) : conns[j].has # "agent" /\
                       (conns[j].way = "ok" => conns[j].port # UInt32(cfg.AgentVsockPort))

(* A Run that waits while the agent runs in the guest, or that vmmanager   *)
(* or the acceptor has left, returns, however late vmmanager listens and   *)
(* however the connections fare, but for four cases: a delivery was lost,  *)
(* which neither side hears of (main.swift:186); the agent dials another   *)
(* port (EFI, no /proc); the guest has stopped, which vmmanager does not   *)
(* notice; or more connections came than the channels hold, before Run had *)
(* handed them over (runner.go:493) or as it waited for the acceptor (447).*)
BootSettles ==
  run = "waiting" /\ (gpc # "off" \/ mgr = "exited" \/ ~acceptor) ~>
    \/ run \in {"ready", "failed", "closing", "ended"}
    \/ \E i \in DOMAIN conns : conns[i].way = "lost"
    \/ gpc # "off" /\ ParseVsockTarget(line) # UInt32(cfg.AgentVsockPort)
    \/ mgr = "stopped"
    \/ run = "stuck" /\ (ProxyFull \/ Cardinality(Queued) > AcceptCap)

(* A connection that reached the host whole, and no broken one before it,  *)
(* is the agent's or a proxy's before long, be the acceptor alive or not,  *)
(* as long as Run or its VMContext lives and the caller leaves room for it *)
(* in the channel of proxy connections.                                    *)
Waits(i) == i \in Queued
DeliveredRouted ==
  \A i \in 1..MaxConns : Waits(i) ~> ~Waits(i) \/ run \notin {"waiting", "ready"} \/ ProxyFull
=============================================================================
