---------------------------- MODULE SessionProofs ----------------------------
(***************************************************************************)
(* What Session promises for every configuration, every request and every *)
(* number of calls and connections.                                        *)
(***************************************************************************)
EXTENDS Session, TransportProofs, LinesProofs, SequenceTheorems, TLAPS

Calling == {"addr", "up", "route"}

(* The record of a configuration call keeps its two fields. *)
NetShape == net = [n \in NetCalls |-> [pc |-> net[n].pc, args |-> net[n].args]]

(* What a configuration call has done by the step it is at. *)
Configured(n) ==
  /\ net[n].pc \in {"up", "route", "done"} => net[n].args.cidr \in addrs
  /\ net[n].pc \in {"route", "done"} => up

(* Calls that never overlapped have at most one under way, the last. *)
OneCalls == ~overlap => \A n \in NetCalls : net[n].pc \in Calling => n = last

(* What is known of the network at any time. *)
NetInv ==
  /\ NetShape /\ last \in NetCalls \cup {"none"}
  /\ \A n \in NetCalls : Configured(n)
  /\ OneCalls
  /\ RouteUsable
  /\ ConfiguredUnlessOverlap

(* A step of one call to its next place, seen from every call. *)
LEMMA GotoMoves ==
  ASSUME NetShape, NEW n \in NetCalls, NEW label, Goto(n, label)
  PROVE  /\ NetShape'
         /\ \A m \in NetCalls : net'[m].args = net[m].args
         /\ net'[n].pc = label
         /\ \A m \in NetCalls \ {n} : net'[m].pc = net[m].pc
  BY DEF NetShape, Goto

(* The Debug service leaves the network alone. *)
LEMMA DebugLeavesNet ==
  ASSUME DebugNext PROVE UNCHANGED netVars
  BY DEF DebugNext, GetDebug, Ping, OpenByteStream, StartBenchmark, BenchDials,
         BenchWrites, BenchFails, BenchDone

(* No call has begun. *)
LEMMA InitNet == ServicesInit => NetInv
  <1> SUFFICES ASSUME ServicesInit PROVE NetInv
    OBVIOUS
  <1>1. /\ net = [n \in NetCalls |-> [pc |-> "none", args |-> NoArgs]]
        /\ route = "none" /\ last = "none"
    BY DEF ServicesInit
  <1>2. NetShape
    BY <1>1 DEF NetShape
  <1>3. \A n \in NetCalls : net[n].pc = "none"
    BY <1>1
  <1> QED
    BY <1>1, <1>2, <1>3 DEF NetInv, Configured, OneCalls, Calling, RouteUsable,
                            ConfiguredUnlessOverlap

(* Every step of the session keeps what is known of the configuration calls. *)
LEMMA StepNet ==
  ASSUME NetInv, Next \/ UNCHANGED vars
  PROVE  NetInv'
  <1> USE DEF NetInv
  <1>1. CASE UNCHANGED netVars
    BY <1>1 DEF netVars, NetShape, Configured, OneCalls, Calling, RouteUsable,
                ConfiguredUnlessOverlap
  <1>2. ASSUME NEW n \in NetCalls, NEW a \in NetArgs, ConfigureInterface(n, a)
        PROVE  NetInv'
    <2>1. PICK p \in {"failed", "addr"} :
            \E b : net' = [net EXCEPT ![n] = [pc |-> p, args |-> b]]
      BY <1>2, Zenon DEF ConfigureInterface
    <2>2. /\ NetShape'
          /\ net'[n].pc = p
          /\ \A m \in NetCalls \ {n} : net'[m] = net[m]
      BY <2>1 DEF NetShape
    <2>3. /\ overlap' = (overlap \/ \E m \in NetCalls : net[m].pc \in Calling)
          /\ last' = n /\ addrs' = addrs /\ up' = up /\ route' = route
      BY <1>2 DEF ConfigureInterface, Calling
    <2>4. \A m \in NetCalls : Configured(m)'
      BY <2>2, <2>3 DEF Configured
    <2>5. OneCalls'
      BY <2>2, <2>3 DEF OneCalls
    <2>6. RouteUsable' /\ ConfiguredUnlessOverlap'
      BY <2>2, <2>3 DEF RouteUsable, ConfiguredUnlessOverlap
    <2> QED BY <2>2, <2>3, <2>4, <2>5, <2>6
  <1>3. ASSUME NEW n \in NetCalls, SetAddress(n)
        PROVE  NetInv'
    <2>1. /\ net[n].pc = "addr" /\ Goto(n, "up")
          /\ addrs' = addrs \cup {net[n].args.cidr}
          /\ up' = up /\ route' = route /\ overlap' = overlap /\ last' = last
      BY <1>3 DEF SetAddress
    <2> QED BY <2>1, GotoMoves DEF Configured, OneCalls, Calling, RouteUsable,
                                   ConfiguredUnlessOverlap
  <1>4. ASSUME NEW n \in NetCalls, SetUp(n)
        PROVE  NetInv'
    <2>1. /\ net[n].pc = "up" /\ Goto(n, "route")
          /\ up' = TRUE
          /\ addrs' = addrs /\ route' = route /\ overlap' = overlap /\ last' = last
      BY <1>4 DEF SetUp
    <2> QED BY <2>1, GotoMoves DEF Configured, OneCalls, Calling, RouteUsable,
                                   ConfiguredUnlessOverlap
  <1>5. ASSUME NEW n \in NetCalls, SetRoute(n)
        PROVE  NetInv'
    <2>1. /\ net[n].pc = "route" /\ Goto(n, "done")
          /\ route' = net[n].args.gateway
          /\ addrs' = addrs /\ up' = up /\ overlap' = overlap /\ last' = last
      BY <1>5 DEF SetRoute
    <2> QED BY <2>1, GotoMoves DEF Configured, OneCalls, Calling, RouteUsable,
                                   ConfiguredUnlessOverlap
  <1>6. ASSUME NEW n \in NetCalls, ConfigureFails(n)
        PROVE  NetInv'
    <2>1. /\ net[n].pc \in Calling /\ Goto(n, "failed")
          /\ addrs' = addrs /\ up' = up /\ route' = route
          /\ overlap' = overlap /\ last' = last
      BY <1>6 DEF ConfigureFails, Calling
    <2> QED BY <2>1, GotoMoves DEF Configured, OneCalls, Calling, RouteUsable,
                                   ConfiguredUnlessOverlap
  <1>7. CASE NetworkNext
    BY <1>1, <1>2, <1>3, <1>4, <1>5, <1>6, <1>7 DEF NetworkNext, GetNetwork
  <1> QED
    BY <1>1, <1>7, DebugLeavesNet DEF Next, BootStep, UseVM, vars, serviceVars
-----------------------------------------------------------------------------
(* Boot *)

Ways == {"ok", "lost", "broken"}
Holder == {"manager", "agent", "proxy", "caller", "host"}

(* What a connection may be: vmmanager listens on no port that is not of   *)
(* its own configuration.                                                  *)
Conn == [port : ListenPorts(Manager), way : Ways, has : Holder]

(* Listeners and connections are on ports of the configuration. *)
ConnsOK == ports \subseteq ListenPorts(Manager) /\ conns \in Seq(Conn)

(* A connection the runner has accepted and placed. *)
Routed(i) == conns[i].has # "manager"
ForAgent(i) == conns[i].way = "ok" /\ conns[i].port = UInt32(cfg.AgentVsockPort)

(* Without a session nothing on the agent's port was routed; the session   *)
(* is the first connection there, and no other one is the agent's.         *)
SessionFirst ==
  /\ session = 0 => \A i \in DOMAIN conns : conns[i].has # "agent" /\ (Routed(i) => ~ForAgent(i))
  /\ session # 0 => /\ session \in DOMAIN conns /\ conns[session].has = "agent"
                    /\ \A j \in 1..(session - 1) : ~ForAgent(j)
                    /\ \A i \in DOMAIN conns \ {session} : conns[i].has # "agent"

(* What is known of the connections at any time. *)
BootInv ==
  /\ BootTypeOK /\ ConnsOK /\ SessionFirst

(* There is no connection yet. *)
LEMMA InitBoot == BootInit => BootInv
  BY DEF BootInit, BootInv, BootTypeOK, ConnsOK, SessionFirst

(* A new connection, whoever makes it, comes last and is nobody's yet. *)
LEMMA ConnectOK ==
  ASSUME BootInv, cfg' = cfg, ports' = ports, NEW way \in Ways, NEW p, Connect(p, way),
         UNCHANGED session
  PROVE  /\ ConnsOK' /\ SessionFirst'
         /\ Len(conns') = Len(conns) + 1
         /\ \A i \in DOMAIN conns' : conns'[i].way \in Ways /\ conns'[i].has \in Holder
  <1>1. Manager' = Manager
    BY DEF Manager
  <1>2. DEFINE new == [port |-> p, way |-> way, has |-> "manager"]
  <1>3. new \in Conn /\ conns \in Seq(Conn) /\ conns' = Append(conns, new)
    BY DEF Connect, Conn, BootInv, ConnsOK, Holder
  <1> HIDE DEF new
  <1>4. /\ conns' \in Seq(Conn) /\ Len(conns') = Len(conns) + 1
        /\ DOMAIN conns = 1..Len(conns) /\ DOMAIN conns' = 1..(Len(conns) + 1)
        /\ \A i \in DOMAIN conns : conns'[i] = conns[i]
        /\ conns'[Len(conns) + 1] = new /\ Len(conns) \in Nat
    BY <1>3
  <1>5. new.has = "manager"
    BY DEF new
  <1>6. ConnsOK'
    BY <1>1, <1>4 DEF BootInv, ConnsOK, Conn
  <1>8. SessionFirst'
    <2>1. CASE session = 0
      BY <2>1, <1>4, <1>5 DEF BootInv, SessionFirst, Routed, ForAgent
    <2>2. CASE session # 0
      BY <2>2, <1>4, <1>5 DEF BootInv, SessionFirst, ForAgent
    <2> QED BY <2>1, <2>2
  <1>9. \A i \in DOMAIN conns' : conns'[i] \in Conn
    BY <1>4
  <1> QED
    BY <1>4, <1>6, <1>8, <1>9 DEF Conn

(* A delivery gets to somebody, or on from there: the next one on the       *)
(* agent's port is the agent's, and no other one becomes so.               *)
LEMMA DeliveryOK ==
  ASSUME BootInv, cfg' = cfg, ports' = ports, NEW i \in DOMAIN conns,
         NEW who \in Holder \ {"manager"}, conns' = [conns EXCEPT ![i].has = who],
         \/ /\ who = "agent" /\ session = 0 /\ session' = i /\ ForAgent(i)
            /\ NextDelivery(i)
         \/ /\ who # "agent" /\ session' = session /\ conns[i].has # "agent"
            /\ ForAgent(i) => session # 0 \/ Routed(i)
  PROVE  /\ ConnsOK' /\ SessionFirst'
         /\ Len(conns') = Len(conns)
         /\ \A j \in DOMAIN conns' : conns'[j].way \in Ways /\ conns'[j].has \in Holder
  <1>1. Manager' = Manager
    BY DEF Manager
  <1>2. conns \in Seq(Conn) /\ DOMAIN conns = 1..Len(conns) /\ Len(conns) \in Nat
    BY DEF BootInv, ConnsOK
  <1>3. conns[i] \in Conn
    BY <1>2
  <1>4. [conns[i] EXCEPT !.has = who] \in Conn
    BY <1>3 DEF Conn
  <1>5. conns' = [conns EXCEPT ![i] = [conns[i] EXCEPT !.has = who]]
    OBVIOUS
  <1>6. /\ conns' \in Seq(Conn) /\ Len(conns') = Len(conns) /\ DOMAIN conns' = DOMAIN conns
    BY <1>2, <1>4, <1>5
  <1>7. /\ conns'[i].has = who
        /\ conns'[i].way = conns[i].way /\ conns'[i].port = conns[i].port
        /\ \A j \in DOMAIN conns \ {i} : conns'[j] = conns[j]
    BY <1>2, <1>3, <1>5 DEF Conn
  <1>8. \A j \in DOMAIN conns : ForAgent(j)' <=> ForAgent(j)
    BY <1>7 DEF ForAgent
  <1>9. \A j \in DOMAIN conns : Routed(j)' <=> (Routed(j) \/ j = i)
    BY <1>7 DEF Routed
  <1>10. ConnsOK'
    BY <1>1, <1>6 DEF BootInv, ConnsOK, Conn
  <1>11. SessionFirst'
    <2>1. CASE who = "agent"
      <3>1. session = 0 /\ session' = i /\ i # 0 /\ NextDelivery(i)
        BY <2>1, <1>2
      <3>2. \A j \in DOMAIN conns : conns[j].has # "agent" /\ (Routed(j) => ~ForAgent(j))
        BY <3>1 DEF BootInv, SessionFirst
      <3>3. \A j \in 1..(i - 1) : conns[j].way # "lost" => Routed(j)
        BY <3>1 DEF NextDelivery, Routed
      <3>4. \A j \in 1..(i - 1) : ~ForAgent(j)'
        BY <3>2, <3>3, <1>2, <1>8 DEF ForAgent
      <3> QED BY <2>1, <3>1, <3>2, <3>4, <1>6, <1>7 DEF SessionFirst
    <2>2. CASE who # "agent" /\ session = 0
      <3>1. /\ session' = 0
            /\ \A j \in DOMAIN conns : conns[j].has # "agent" /\ (Routed(j) => ~ForAgent(j))
        BY <2>2 DEF BootInv, SessionFirst
      <3>2. ~ForAgent(i)
        BY <2>2, <3>1
      <3> QED BY <2>2, <3>1, <3>2, <1>6, <1>7, <1>8, <1>9 DEF SessionFirst
    <2>3. CASE who # "agent" /\ session # 0
      <3>1. session' = session
        BY <2>3
      <3>2. /\ session \in DOMAIN conns /\ conns[session].has = "agent"
            /\ \A j \in 1..(session - 1) : ~ForAgent(j)
            /\ \A j \in DOMAIN conns \ {session} : conns[j].has # "agent"
        BY <2>3 DEF BootInv, SessionFirst
      <3>3. i # session
        BY <2>3, <3>2
      <3>4. \A j \in 1..(session - 1) : ~ForAgent(j)'
        BY <3>2, <1>2, <1>8
      <3> QED BY <2>3, <3>1, <3>2, <3>3, <3>4, <1>6, <1>7 DEF SessionFirst
    <2> QED BY <2>1, <2>2, <2>3
  <1>12. \A j \in DOMAIN conns' : conns'[j] \in Conn
    BY <1>6
  <1> QED
    BY <1>6, <1>10, <1>11, <1>12 DEF Conn

(* Every step of the session keeps the order of its connections. *)
LEMMA StepBoot ==
  ASSUME BootInv, Next \/ UNCHANGED vars
  PROVE  BootInv'
  <1> USE DEF BootTypeOK
  <1> DEFINE Kept == /\ cfg' = cfg /\ conns' = conns /\ session' = session
                     /\ ports' \in {ports, {}, ListenPorts(Manager)}
             Tracked == /\ ConnsOK' /\ SessionFirst'
                        /\ Len(conns') >= Len(conns) /\ Len(conns') \in Nat
                        /\ \A j \in DOMAIN conns' : /\ conns'[j].way \in Ways
                                                     /\ conns'[j].has \in Holder
  <1>1. Len(conns) \in Nat /\ DOMAIN conns = 1..Len(conns)
    BY DEF BootInv, ConnsOK
  <1>2. ASSUME Kept PROVE Tracked
    <2>1. Manager' = Manager
      BY <1>2 DEF Manager
    <2>2. ConnsOK'
      BY <1>2, <2>1 DEF BootInv, ConnsOK, Conn
    <2>3. SessionFirst'
      BY <1>2 DEF BootInv, SessionFirst, Routed, ForAgent
    <2> QED BY <1>1, <1>2, <2>2, <2>3 DEF BootInv, Ways, Holder
  <1>3. CASE UNCHANGED bootVars
    BY <1>2, <1>3 DEF bootVars, hostVars, agentVars, BootInv
  <1>4. CASE RunVM
    BY <1>2, <1>4 DEF RunVM, BootInv, agentVars
  <1>5. CASE ManagerStarts \/ VMStarts \/ Listen \/ ManagerExits \/ GuestStops
    BY <1>2, <1>5 DEF ManagerStarts, VMStarts, Listen, ManagerExits, GuestStops, BootInv, hostVars,
                      agentVars
  <1>6. CASE HandOff \/ RunFails \/ ManagerGone \/ WatcherEnds
    BY <1>2, <1>6 DEF HandOff, RunFails, ManagerGone, WatcherEnds, BootInv, agentVars
  <1>7. CASE (\E a, b \in BOOLEAN : AgentBoots(a, b)) \/ DialFails \/ Wake
    BY <1>2, <1>7 DEF AgentBoots, DialFails, Wake, BootInv, hostVars
  <1>8. CASE ServeEnds
    BY <1>1, <1>2, <1>8 DEF ServeEnds, BootInv, hostVars
  <1>9. ASSUME NEW way \in Ways, Dial(way) PROVE BootInv'
    BY <1>1, <1>9, ConnectOK DEF Dial, BootInv, hostVars, Ways, Holder
  <1>10. ASSUME NEW way \in Ways, BenchDials(way) PROVE BootInv'
    BY <1>1, <1>10, ConnectOK DEF BenchDials, BootInv, hostVars, agentVars, Ways, Holder
  <1>11. ASSUME NEW i \in DOMAIN conns, TakeAgent(i) PROVE BootInv'
    <2>1. /\ NextDelivery(i) /\ ForAgent(i) /\ session = 0
          /\ conns' = [conns EXCEPT ![i].has = "agent"]
          /\ session' = i /\ run' = run
          /\ cfg' = cfg /\ mgr' = mgr /\ ports' = ports /\ acceptor' = acceptor
          /\ gpc' = gpc /\ served' = served
      BY <1>11 DEF TakeAgent, NextDelivery, Queued, ForAgent, agentVars
    <2>2. /\ ConnsOK' /\ SessionFirst'
          /\ Len(conns') = Len(conns)
          /\ \A j \in DOMAIN conns' : conns'[j].way \in Ways /\ conns'[j].has \in Holder
      BY <2>1, DeliveryOK DEF Holder
    <2> QED BY <1>1, <2>1, <2>2 DEF BootInv, Ways, Holder
  <1>12. ASSUME NEW i \in DOMAIN conns, TakeProxy(i) PROVE BootInv'
    <2>1. /\ conns' = [conns EXCEPT ![i].has = "proxy"] /\ session' = session
          /\ conns[i].has # "agent" /\ (ForAgent(i) => session # 0)
          /\ cfg' = cfg /\ ports' = ports
      BY <1>12 DEF TakeProxy, NextDelivery, Queued, ForAgent, hostVars
    <2>2. /\ ConnsOK' /\ SessionFirst'
          /\ Len(conns') = Len(conns)
          /\ \A j \in DOMAIN conns' : conns'[j].way \in Ways /\ conns'[j].has \in Holder
      BY <2>1, DeliveryOK DEF Holder
    <2> QED BY <1>1, <1>12, <2>1, <2>2 DEF TakeProxy, BootInv, hostVars, agentVars, Ways, Holder
  <1>13. ASSUME NEW i \in DOMAIN conns, TakeBroken(i) PROVE BootInv'
    <2>1. /\ conns' = [conns EXCEPT ![i].has = "host"] /\ session' = session
          /\ conns[i].has # "agent" /\ ~ForAgent(i)
          /\ cfg' = cfg /\ ports' = ports
      BY <1>13 DEF TakeBroken, ForAgent
    <2>2. /\ ConnsOK' /\ SessionFirst'
          /\ Len(conns') = Len(conns)
          /\ \A j \in DOMAIN conns' : conns'[j].way \in Ways /\ conns'[j].has \in Holder
      BY <2>1, DeliveryOK DEF Holder
    <2> QED BY <1>1, <1>13, <2>1, <2>2 DEF TakeBroken, BootInv, agentVars, Ways, Holder
  <1>14. ASSUME NEW i \in DOMAIN conns, ReadProxy(i) PROVE BootInv'
    <2>1. /\ conns' = [conns EXCEPT ![i].has = "caller"] /\ session' = session
          /\ conns[i].has # "agent" /\ Routed(i)
          /\ cfg' = cfg /\ ports' = ports
      BY <1>14 DEF ReadProxy, Routed, hostVars
    <2>2. /\ ConnsOK' /\ SessionFirst'
          /\ Len(conns') = Len(conns)
          /\ \A j \in DOMAIN conns' : conns'[j].way \in Ways /\ conns'[j].has \in Holder
      BY <2>1, DeliveryOK DEF Holder
    <2> QED BY <1>1, <1>14, <2>1, <2>2 DEF ReadProxy, BootInv, hostVars, agentVars, Ways, Holder
  <1>15. ASSUME NEW s \in Streams, HandleWritePanics(s) PROVE BootInv'
    BY <1>2, <1>15 DEF HandleWritePanics, BootInv, agentVars
  <1>16. CASE ClientNext
    BY <1>3, <1>15, <1>16
      DEF ClientNext, RunContainer, CallCreate, CallStart, CallExitCode, ReturnOK, ReturnErr,
          ServeContainerService, ServeCreate, ServeStart, ServeExitCode, ServeFails,
          ContainerExits, PumpWrites, PumpDone, PumpStops, HandleWrite, HandleDone
  <1>17. CASE NetworkNext
    BY <1>3, <1>17 DEF NetworkNext, GetNetwork, ConfigureInterface, SetAddress, SetUp, SetRoute,
                       ConfigureFails
  <1>18. CASE DebugNext
    BY <1>3, <1>10, <1>18 DEF DebugNext, GetDebug, Ping, OpenByteStream, StartBenchmark,
                             BenchWrites, BenchFails, BenchDone, Ways
  <1>19. CASE BootNext
    BY <1>4, <1>5, <1>6, <1>7, <1>8, <1>9, <1>11, <1>12, <1>13, <1>14, <1>19
      DEF BootNext, AgentLoop, Delivery, Ways
  <1> QED
    BY <1>3, <1>16, <1>17, <1>18, <1>19 DEF Next, BootStep, UseVM, vars

(* The first connection taken on the agent's port is the session. *)
LEMMA OneSessionFollows == BootInv => OneSession
  <1> SUFFICES ASSUME BootInv, NEW i \in DOMAIN conns
               PROVE  conns[i].has = "agent" <=>
                        i = session /\ \A j \in 1..(i - 1) :
                          conns[j].has # "agent" /\
                            (conns[j].way = "ok" => conns[j].port # UInt32(cfg.AgentVsockPort))
    BY DEF OneSession
  <1>1. Len(conns) \in Nat /\ DOMAIN conns = 1..Len(conns)
    BY DEF BootInv, ConnsOK
  <1> QED
    BY <1>1 DEF BootInv, SessionFirst, ForAgent

-----------------------------------------------------------------------------
(* The configuration *)

(* A vmmanager was started, or may be, only with a configuration that is   *)
(* valid.                                                                  *)
CfgChecked ==
  /\ cfg \in Configs
  /\ run \notin {"new", "failed"} \/ mgr # "none" => Validate(WithBootMode(cfg))

(* What the agent has read, and what it made of it. *)
LineRead ==
  gpc # "off" =>
    /\ line \in {<<>>, BootArgs(Manager)}
    /\ share \in IF VirtioFSEnabled(line)
                 THEN {FailedShare, [tag |-> VirtioFSTag(line), at |-> VirtioFSMountPoint(line)]}
                 ELSE {NoShare}

(* What is known of the configuration at any time. *)
ConfigInv == CfgChecked /\ LineRead

(* The configuration is one of a caller's. *)
LEMMA InitConfig == BootInit => ConfigInv
  BY DEF BootInit, ConfigInv, CfgChecked, LineRead

(* Every step keeps the configuration that was checked, and what was read of it. *)
LEMMA StepConfig ==
  ASSUME ConfigInv, Next \/ UNCHANGED vars
  PROVE  ConfigInv'
  <1> USE DEF ConfigInv
  <1>1. ASSUME cfg' = cfg, line' = line, share' = share, gpc' = gpc \/ gpc # "off"
        PROVE  LineRead'
    <2>1. Manager' = Manager
      BY <1>1 DEF Manager
    <2> QED BY <1>1, <2>1 DEF LineRead
  <1>2. CASE UNCHANGED bootVars
    BY <1>1, <1>2 DEF bootVars, hostVars, agentVars, CfgChecked
  <1>3. CASE RunVM
    BY <1>1, <1>3 DEF RunVM, agentVars, CfgChecked
  <1>4. CASE ManagerStarts \/ VMStarts \/ Listen \/ ManagerExits \/ GuestStops
    BY <1>1, <1>4 DEF ManagerStarts, VMStarts, Listen, ManagerExits, GuestStops, VMUp, CfgChecked,
                      hostVars, agentVars
  <1>5. CASE HandOff \/ RunFails \/ ManagerGone \/ WatcherEnds
    BY <1>1, <1>5 DEF HandOff, RunFails, ManagerGone, WatcherEnds, agentVars, CfgChecked
  <1>6. ASSUME NEW a \in BOOLEAN, NEW b \in BOOLEAN, AgentBoots(a, b)
        PROVE  ConfigInv'
    <2>1. /\ cfg' = cfg /\ run' = run /\ mgr' = mgr
          /\ line' \in {<<>>, BootArgs(Manager)}
          /\ share' \in IF VirtioFSEnabled(line')
               THEN {FailedShare, [tag |-> VirtioFSTag(line'), at |-> VirtioFSMountPoint(line')]}
               ELSE {NoShare}
      BY <1>6, Zenon DEF AgentBoots, hostVars
    <2>2. Manager' = Manager
      BY <2>1 DEF Manager
    <2> QED BY <2>1, <2>2 DEF CfgChecked, LineRead, FailedShare, NoShare
  <1>7. CASE DialFails \/ Wake \/ ServeEnds
    BY <1>1, <1>7 DEF DialFails, Wake, ServeEnds, hostVars, CfgChecked
  <1>8. ASSUME NEW way, Dial(way) PROVE ConfigInv'
    BY <1>1, <1>8 DEF Dial, hostVars, CfgChecked
  <1>9. ASSUME NEW way, BenchDials(way) PROVE ConfigInv'
    BY <1>1, <1>9 DEF BenchDials, hostVars, agentVars, CfgChecked
  <1>10. ASSUME NEW i, Delivery(i) \/ ReadProxy(i) PROVE ConfigInv'
    BY <1>1, <1>10 DEF Delivery, TakeAgent, TakeProxy, TakeBroken, ReadProxy, hostVars, agentVars,
                       CfgChecked
  <1>11. ASSUME NEW s \in Streams, HandleWritePanics(s) PROVE ConfigInv'
    BY <1>1, <1>11 DEF HandleWritePanics, Linked, agentVars, CfgChecked
  <1>12. CASE ClientNext
    BY <1>2, <1>11, <1>12
      DEF ClientNext, RunContainer, CallCreate, CallStart, CallExitCode, ReturnOK, ReturnErr,
          ServeContainerService, ServeCreate, ServeStart, ServeExitCode, ServeFails,
          ContainerExits, PumpWrites, PumpDone, PumpStops, HandleWrite, HandleDone
  <1>13. CASE NetworkNext
    BY <1>2, <1>13 DEF NetworkNext, GetNetwork, ConfigureInterface, SetAddress, SetUp, SetRoute,
                       ConfigureFails
  <1>14. CASE DebugNext
    BY <1>2, <1>9, <1>14 DEF DebugNext, GetDebug, Ping, OpenByteStream, StartBenchmark,
                             BenchWrites, BenchFails, BenchDone
  <1>15. CASE BootNext
    BY <1>3, <1>4, <1>5, <1>6, <1>7, <1>8, <1>10, <1>15 DEF BootNext, AgentLoop
  <1> QED
    BY <1>2, <1>12, <1>13, <1>14, <1>15 DEF Next, BootStep, UseVM, vars

(* Whoever calls Run, a VMConfig has its fields, and a directory it shares *)
(* is where the caller says the rootfs is.                                 *)
LEMMA CallersConfig ==
  ASSUME NEW c \in Configs
  PROVE  /\ DOMAIN c = Names /\ c.EnableVirtioFS \in BOOLEAN
         /\ c.EnableVirtioFS =>
              c.RootfsBase = c.MountPoint /\ c.OverlayDevice = "/dev/vdb"
  <1>1. CASE c \in Direct
    <2>1. c \in VMConfig
      BY <1>1, BootConstants
    <2>2. DOMAIN c = Names /\ c.EnableVirtioFS \in BOOLEAN
      BY <2>1, NamesAre DEF VMConfig
    <2> QED BY <1>1, <2>2, BootConstants, Zenon
  <1>2. CASE c \notin Direct
    <2>1. PICK f \in Flags : c = FromFlags(f)
      BY <1>2 DEF Configs
    <2> QED BY <2>1, LauncherConfig, Zenon
  <1> QED BY <1>1, <1>2

(* What vmmanager parses is what was checked. *)
LEMMA CarriedFollows == ConfigInv => ConfigCarried
  <1> SUFFICES ASSUME ConfigInv, mgr # "none"
               PROVE  \A f \in DOMAIN Manager :
                        \/ Manager[f] = cfg[f]
                        \/ f = "BootMode" /\ cfg[f] = "" /\ Manager[f] = "linux"
                        \/ f = "NetworkMode" /\ cfg[f] = "" /\ Manager[f] = "hostonly"
                        \/ f = "KernelPath" /\ cfg.BootMode = "efi"
    BY DEF ConfigCarried
  <1>1. DOMAIN cfg = Names
    BY CallersConfig DEF ConfigInv, CfgChecked
  <1>2. WithBootMode(cfg).BootMode \in {"linux", "efi"}
    <2>1. WithBootMode(cfg).BootMode \in {"", "linux", "efi"}
      BY DEF ConfigInv, CfgChecked, Validate
    <2> QED BY <1>1, <2>1, BootModeFilledIn
  <1> QED BY <1>1, <1>2, ManagerCarries DEF Manager

(* What the agent reads leads it to what the launcher has laid out. *)
LEMMA RootfsFoundFollows == ConfigInv => SharedRootfsFound
  <1> SUFFICES ASSUME ConfigInv, gpc # "off", line # <<>>, cfg.EnableVirtioFS,
                      OneWord(cfg.Tag), OneWord(cfg.MountPoint)
               PROVE  /\ share \in {FailedShare, [tag |-> cfg.Tag, at |-> cfg.RootfsBase]}
                      /\ ContainerWritableDiskDevice(line) = cfg.OverlayDevice
    BY DEF SharedRootfsFound
  <1> DEFINE c == WithBootMode(cfg)
  <1>1. /\ DOMAIN cfg = Names /\ cfg.EnableVirtioFS = TRUE
        /\ cfg.RootfsBase = cfg.MountPoint /\ cfg.OverlayDevice = "/dev/vdb"
    BY CallersConfig, Zenon DEF ConfigInv, CfgChecked
  <1>2. /\ c.EnableVirtioFS = cfg.EnableVirtioFS /\ c.Tag = cfg.Tag
        /\ c.MountPoint = cfg.MountPoint /\ c.OverlayDevice = cfg.OverlayDevice
    <2>1. \A f \in Names \ {"BootMode"} : c[f] = cfg[f]
      BY <1>1, BootModeFilledIn, Zenon
    <2>2. {"EnableVirtioFS", "Tag", "MountPoint", "OverlayDevice"} \subseteq Names \ {"BootMode"}
      BY NamesAre
    <2> QED BY <2>1, <2>2, Zenon
  <1>3. /\ Manager.EnableVirtioFS = TRUE /\ Manager.Tag = cfg.Tag
        /\ Manager.MountPoint = cfg.MountPoint /\ Manager.OverlayDevice = "/dev/vdb"
    BY <1>1, <1>2, ManagerReads, Zenon DEF Manager
  <1>4. line = BootArgs(Manager) /\ Manager.BootMode # "efi"
    BY DEF ConfigInv, LineRead, BootArgs
  <1>5. cfg.Tag # "" /\ cfg.MountPoint # ""
    BY DEF OneWord
  <1>6. /\ Get(line, "virtiofs", "") = "1" /\ Get(line, "virtiofs_tag", "") = cfg.Tag
        /\ Get(line, "virtiofs_mount", "") = cfg.MountPoint
        /\ Get(line, "overlay_device", "") = "/dev/vdb"
    BY <1>3, <1>4, <1>5, LineReads, Zenon
  <1>7. FirstWord(cfg.Tag) = cfg.Tag /\ FirstWord(cfg.MountPoint) = cfg.MountPoint
    BY DEF OneWord, FirstWord
  <1>8. FirstWord("/dev/vdb") = "/dev/vdb"
    BY DEF FirstWord
  <1>9. /\ VirtioFSEnabled(line) /\ VirtioFSTag(line) = cfg.Tag
        /\ VirtioFSMountPoint(line) = cfg.MountPoint
        /\ ContainerWritableDiskDevice(line) = "/dev/vdb"
    BY <1>5, <1>6, <1>7, <1>8
      DEF VirtioFSEnabled, VirtioFSTag, VirtioFSMountPoint, ContainerWritableDiskDevice, Word
  <1> QED BY <1>1, <1>9, Zenon DEF ConfigInv, LineRead
-----------------------------------------------------------------------------
(* The answers of the services *)

(* What a handler puts into a field of its results. *)
Told(f) == CASE f = "message" -> "pong" [] f = "bytesPerSec" -> "rate"
             [] f = "durationNanos" -> "time" [] OTHER -> f

(* The record of the benchmark keeps its fields. *)
BenchShape ==
  bench = [pc |-> bench.pc, port |-> bench.port, total |-> bench.total, chunk |-> bench.chunk,
           wrote |-> bench.wrote, conn |-> bench.conn]

(* What is known of the answers at any time. *)
AnswerInv == BenchShape /\ bench.conn \in 0..Len(conns) /\ AnswersArrive

(* The host reads what the handler has put into the results. *)
LEMMA ReadTells ==
  ASSUME AnswersArrive, NEW iface, NEW method, NEW args, NEW size,
         Reaches(iface, method, args, size), NEW fields, WellPlaced(fields, size),
         NEW values, \A f \in DOMAIN fields : values[f] = Told(f),
         Read(iface, method, fields, values)
  PROVE  AnswersArrive'
  <1> DEFINE c == Call(iface, method, <<>>, <<>>)
             answer == Answer(c, fields, values)
  <1>1. c.iface = iface /\ c.id = Stub(iface)[method].id
    BY DEF Call
  <1>2. \A f \in Fields : known'[f] = IF f \in DOMAIN fields THEN Unpack(fields, answer, f)
                                      ELSE known[f]
    BY DEF Read
  <1> HIDE DEF c
  <1>3. \A f \in DOMAIN fields : Unpack(fields, answer, f) = Told(f)
    BY <1>1, ResultsTravel
  <1> HIDE DEF answer
  <1>4. \A f \in Fields : known[f] \in {Nil, Told(f)}
    BY DEF AnswersArrive, Told
  <1>5. \A f \in Fields : known'[f] \in {Nil, Told(f)}
    BY <1>2, <1>3, <1>4
  <1> QED BY <1>5 DEF AnswersArrive, Told

(* Connections are never taken off the list. *)
LEMMA ConnsGrow ==
  ASSUME BootInv, Next \/ UNCHANGED vars
  PROVE  Len(conns) \in Nat /\ Len(conns') \in Nat /\ Len(conns) <= Len(conns')
  <1>1. conns \in Seq(Conn) /\ Len(conns) \in Nat /\ DOMAIN conns = 1..Len(conns)
    BY DEF BootInv, ConnsOK
  <1>2. CASE UNCHANGED conns
    BY <1>1, <1>2
  <1>3. ASSUME NEW way, NEW p, Connect(p, way) PROVE Len(conns') = Len(conns) + 1
    <2> DEFINE new == [port |-> p, way |-> way, has |-> "manager"]
    <2>1. conns' = Append(conns, new)
      BY <1>3 DEF Connect
    <2>2. conns \in Seq(Conn \cup {new})
      BY <1>1
    <2> QED BY <2>1, <2>2
  <1>4. ASSUME NEW i \in DOMAIN conns, NEW v, conns' = [conns EXCEPT ![i].has = v]
        PROVE  Len(conns') = Len(conns)
    <2> DEFINE new == [conns[i] EXCEPT !.has = v]
    <2>1. conns' = [conns EXCEPT ![i] = new]
      BY <1>4
    <2>2. conns \in Seq(Conn \cup {new})
      BY <1>1
    <2> HIDE DEF new
    <2>3. [conns EXCEPT ![i] = new] \in Seq(Conn \cup {new})
      BY <2>2
    <2>4. conns' \in Seq(Conn \cup {new}) /\ DOMAIN conns' = 1..Len(conns)
      BY <1>1, <2>1, <2>3
    <2> QED BY <1>1, <2>4
  <1>5. CASE BootNext
    <2>1. ASSUME NEW way, Dial(way) PROVE Len(conns') = Len(conns) + 1
      BY <1>3, <2>1 DEF Dial
    <2>2. ASSUME NEW i \in DOMAIN conns, Delivery(i) \/ ReadProxy(i)
          PROVE  Len(conns') = Len(conns)
      BY <1>4, <2>2 DEF Delivery, TakeAgent, TakeProxy, TakeBroken, ReadProxy
    <2> QED
      BY <1>1, <1>2, <1>5, <2>1, <2>2
        DEF BootNext, RunVM, HandOff, RunFails, ManagerGone, WatcherEnds, ManagerStarts, VMStarts,
            Listen, ManagerExits, GuestStops, AgentBoots, AgentLoop, DialFails, Wake, ServeEnds
  <1>6. CASE ClientNext
    BY <1>2, <1>6
      DEF ClientNext, RunContainer, CallCreate, CallStart, CallExitCode, ReturnOK, ReturnErr,
          ServeContainerService, ServeCreate, ServeStart, ServeExitCode, ServeFails,
          ContainerExits, PumpWrites, PumpDone, PumpStops, HandleWrite, HandleWritePanics,
          HandleDone, bootVars
  <1>7. CASE NetworkNext
    BY <1>2, <1>7 DEF NetworkNext, GetNetwork, ConfigureInterface, SetAddress, SetUp, SetRoute,
                      ConfigureFails, bootVars
  <1>8. CASE DebugNext
    <2>1. ASSUME NEW way, BenchDials(way) PROVE Len(conns') = Len(conns) + 1
      BY <1>3, <2>1 DEF BenchDials
    <2>2. ASSUME GetDebug \/ Ping \/ OpenByteStream \/ BenchWrites \/ BenchFails \/ BenchDone
          PROVE  conns' = conns
      BY <2>2 DEF GetDebug, Ping, OpenByteStream, BenchWrites, BenchFails, BenchDone, bootVars
    <2>3. ASSUME NEW a, StartBenchmark(a) PROVE conns' = conns
      BY <2>3 DEF StartBenchmark, bootVars
    <2> QED BY <1>1, <1>8, <2>1, <2>2, <2>3 DEF DebugNext
  <1> QED
    BY <1>2, <1>5, <1>6, <1>7, <1>8 DEF Next, BootStep, UseVM, vars, bootVars

(* Nothing was asked yet. *)
LEMMA InitAnswer == Init => AnswerInv
  BY DEF Init, BootInit, ServicesInit, AnswerInv, BenchShape, AnswersArrive

(* Every step keeps what the host was told. *)
LEMMA StepAnswer ==
  ASSUME AnswerInv, BootInv, Next \/ UNCHANGED vars
  PROVE  AnswerInv'
  <1> USE DEF AnswerInv
  <1>1. Len(conns) \in Nat /\ Len(conns') \in Nat /\ Len(conns) <= Len(conns')
    BY ConnsGrow
  <1>2. ASSUME UNCHANGED <<bench, known>> PROVE AnswerInv'
    BY <1>1, <1>2 DEF BenchShape, AnswersArrive
  <1>3. CASE GetNetwork
    <2>1. Read("Agent", "network", Agent_network_Results,
               [network |-> "network"])
      BY <1>3 DEF GetNetwork
    <2>2. \A f \in DOMAIN Agent_network_Results :
            [network |-> "network"][f] = Told(f)
      BY DEF Agent_network_Results, Told
    <2>3. AnswersArrive'
      BY <2>1, <2>2, ReadTells, MethodTable, PointerStructs
    <2> QED BY <1>3, <2>3 DEF GetNetwork, bootVars, BenchShape
  <1>4. CASE GetDebug
    <2>1. Read("Agent", "debug", Agent_debug_Results,
               [debug |-> "debug"])
      BY <1>4 DEF GetDebug
    <2>2. \A f \in DOMAIN Agent_debug_Results :
            [debug |-> "debug"][f] = Told(f)
      BY DEF Agent_debug_Results, Told
    <2>3. AnswersArrive'
      BY <2>1, <2>2, ReadTells, MethodTable, PointerStructs
    <2> QED BY <1>4, <2>3 DEF GetDebug, bootVars, BenchShape
  <1>5. CASE Ping
    <2>1. Read("Debug", "ping", Debug_ping_Results,
               [message |-> "pong"])
      BY <1>5 DEF Ping
    <2>2. \A f \in DOMAIN Debug_ping_Results :
            [message |-> "pong"][f] = Told(f)
      BY DEF Debug_ping_Results, Told
    <2>3. AnswersArrive'
      BY <2>1, <2>2, ReadTells, MethodTable, PointerStructs
    <2> QED BY <1>5, <2>3 DEF Ping, bootVars, BenchShape
  <1>6. CASE OpenByteStream
    <2>1. Read("Debug", "openByteStream", Debug_openByteStream_Results,
               [stream |-> "stream"])
      BY <1>6 DEF OpenByteStream
    <2>2. \A f \in DOMAIN Debug_openByteStream_Results :
            [stream |-> "stream"][f] = Told(f)
      BY DEF Debug_openByteStream_Results, Told
    <2>3. AnswersArrive'
      BY <2>1, <2>2, ReadTells, MethodTable, PointerStructs
    <2> QED BY <1>6, <2>3 DEF OpenByteStream, bootVars, BenchShape
  <1>7. ASSUME NEW a, StartBenchmark(a) PROVE AnswerInv'
    <2>1. UNCHANGED <<conns, known>>
      BY <1>7 DEF StartBenchmark, bootVars
    <2>2. PICK p, q, t, k : bench' = [bench EXCEPT !.pc = p, !.port = q, !.total = t, !.chunk = k]
      BY <1>7, Zenon DEF StartBenchmark
    <2>3. BenchShape' /\ bench'.conn = bench.conn
      BY <2>2 DEF BenchShape
    <2> QED BY <2>1, <2>3 DEF AnswersArrive
  <1>8. ASSUME NEW way, BenchDials(way) PROVE AnswerInv'
    <2>1. known' = known /\ bench' = [bench EXCEPT !.pc = "write", !.conn = Len(conns')]
      BY <1>8 DEF BenchDials
    <2>2. BenchShape' /\ bench'.conn = Len(conns')
      BY <2>1 DEF BenchShape
    <2> QED BY <1>1, <2>1, <2>2 DEF AnswersArrive
  <1>9. CASE BenchWrites \/ BenchFails
    <2>1. known' = known /\ conns' = conns
      BY <1>9 DEF BenchWrites, BenchFails, bootVars
    <2>2. ASSUME NEW w, \/ bench' = [bench EXCEPT !.wrote = w]
                        \/ bench' = [bench EXCEPT !.pc = "failed"]
                        \/ bench' = [bench EXCEPT !.pc = "failed", !.wrote = w]
          PROVE  BenchShape' /\ bench'.conn = bench.conn
      BY <2>2 DEF BenchShape
    <2>3. BenchShape' /\ bench'.conn = bench.conn
      BY <1>9, <2>2, Zenon DEF BenchWrites, BenchFails
    <2> QED BY <2>1, <2>3 DEF AnswersArrive
  <1>10. CASE BenchDone
    <2> DEFINE values == [bytesPerSec |-> "rate", durationNanos |-> "time"]
    <2>1. conns' = conns /\ bench' = [bench EXCEPT !.pc = "done"]
      BY <1>10 DEF BenchDone, bootVars
    <2>2. BenchShape' /\ bench'.conn = bench.conn
      BY <2>1 DEF BenchShape
    <2>3. \A f \in DOMAIN Debug_startBenchmarkVsock_Results : values[f] = Told(f)
      BY DEF Debug_startBenchmarkVsock_Results, Told
    <2>4. CASE Linked
      <3>1. Read("Debug", "startBenchmarkVsock", Debug_startBenchmarkVsock_Results, values)
        BY <1>10, <2>4 DEF BenchDone
      <3> HIDE DEF values
      <3>2. AnswersArrive'
        BY <2>3, <3>1, ReadTells, MethodTable, DataStructs
      <3> QED BY <2>1, <2>2, <3>2
    <2>5. CASE ~Linked
      <3>1. known' = known
        BY <1>10, <2>5 DEF BenchDone
      <3> QED BY <2>1, <2>2, <3>1 DEF AnswersArrive
    <2> QED BY <2>4, <2>5
  <1>11. CASE NetworkNext
    BY <1>2, <1>3, <1>11 DEF NetworkNext, ConfigureInterface, SetAddress, SetUp, SetRoute,
                             ConfigureFails
  <1>12. CASE DebugNext
    BY <1>4, <1>5, <1>6, <1>7, <1>8, <1>9, <1>10, <1>12 DEF DebugNext
  <1> QED
    BY <1>2, <1>11, <1>12 DEF Next, BootStep, UseVM, vars, serviceVars
-----------------------------------------------------------------------------
(* RunContainer: its calls *)

Steps == {"containerService", "create", "start", "exitCode"}
Outputs == [stdout |-> "stdout", stderr |-> "stderr"]

(* A call of this method, with these arguments. *)
Is(c, iface, method, fields, values) ==
  /\ c.iface = iface /\ c.id = Stub(iface)[method].id
  /\ c.msg = Pack(Stub(iface)[method].size, fields, values)

(* A call of the method RunContainer makes at this step. *)
Asks(c, r, m) ==
  \/ m = "containerService" /\ Is(c, "Agent", "containerService", <<>>, <<>>)
  \/ m = "create" /\ Is(c, "ContainerService", "create", ContainerService_create_Params, r)
  \/ m = "start" /\ Is(c, "Container", "start", Container_start_Params, Outputs)
  \/ m = "exitCode" /\ Is(c, "Task", "exitCode", <<>>, <<>>)

(* The fields of a call, and the phases it may be in. *)
CallShape(c) ==
  \/ c = NoCall
  \/ /\ c = [iface |-> c.iface, id |-> c.id, msg |-> c.msg, phase |-> c.phase, kept |-> c.kept,
              res |-> c.res]
     /\ c.phase \in {"sent", "ok", "err"} /\ c.kept \in BOOLEAN

(* RunContainer waits for the call it has made last, which somebody still  *)
(* keeps; one it gave up on is under way until it is answered.             *)
CallInv ==
  /\ hpc \in Steps \cup {"idle", "returned"}
  /\ CallShape(call)
  /\ call # NoCall => \E m \in Steps : Asks(call, req, m)
  /\ hpc \in Steps => call # NoCall /\ call.kept = TRUE /\ Asks(call, req, hpc)
  /\ hpc = "idle" => call = NoCall
  /\ hpc = "returned" => call = NoCall \/ (call.phase = "sent" /\ call.kept = FALSE)
  /\ hpc # "idle" => req \in Requests

(* A call goes to the handler of the method it asks for. *)
LEMMA AsksHandler ==
  ASSUME NEW c, NEW r, NEW m \in Steps, Asks(c, r, m)
  PROVE  Handler(c) = m
  BY MethodTable DEF Asks, Is, Reaches

(* A call that was just sent is what it was meant to be. *)
LEMMA SentCall ==
  ASSUME NEW iface, NEW method, NEW fields, NEW values
  PROVE  LET c == Sent(iface, method, fields, values)
         IN /\ CallShape(c) /\ c # NoCall /\ c.phase = "sent" /\ c.kept = TRUE
            /\ Is(c, iface, method, fields, values)
  BY DEF Sent, Call, CallShape, NoCall, Is

(* What an answered call is, whatever the answer. *)
LEMMA CallDone ==
  ASSUME NEW c, CallShape(c), c # NoCall
  PROVE  \A x : LET d == [c EXCEPT !.phase = "ok", !.res = x] IN
           /\ CallShape(d) /\ d # NoCall /\ d.phase = "ok" /\ d.kept = c.kept
           /\ d.iface = c.iface /\ d.id = c.id /\ d.msg = c.msg /\ d.res = x
  <1>1. ASSUME NEW x
        PROVE  LET d == [c EXCEPT !.phase = "ok", !.res = x] IN
              /\ CallShape(d) /\ d # NoCall /\ d.phase = "ok" /\ d.kept = c.kept
              /\ d.iface = c.iface /\ d.id = c.id /\ d.msg = c.msg /\ d.res = x
    <2>1. PICK i, n, g, p, k, r :
            c = [iface |-> i, id |-> n, msg |-> g, phase |-> p, kept |-> k, res |-> r]
            /\ k \in BOOLEAN
      BY DEF CallShape
    <2>2. PICK ok, e : ok = "ok" /\ e = [c EXCEPT !.phase = ok]
      OBVIOUS
    <2>3. e = [iface |-> i, id |-> n, msg |-> g, phase |-> ok, kept |-> k, res |-> r]
      BY <2>1, <2>2
    <2>4. [c EXCEPT !.phase = "ok", !.res = x] = [e EXCEPT !.res = x]
      BY <2>2
    <2>5. [e EXCEPT !.res = x] =
            [iface |-> i, id |-> n, msg |-> g, phase |-> ok, kept |-> k, res |-> x]
      BY <2>3
    <2> QED BY <2>1, <2>2, <2>4, <2>5 DEF CallShape, NoCall
  <1> QED BY <1>1

(* What becomes of a call until it is answered. *)
LEMMA CallMoves ==
  ASSUME NEW c, CallShape(c), c # NoCall
  PROVE  /\ c.phase # "none"
         /\ \A d, r, m : d.iface = c.iface /\ d.id = c.id /\ d.msg = c.msg /\ Asks(c, r, m)
                        => Asks(d, r, m)
         /\ \A p \in {"sent", "ok", "err"} :
              LET d == [c EXCEPT !.phase = p] IN
              /\ CallShape(d) /\ d # NoCall /\ d.phase = p /\ d.kept = c.kept
              /\ d.iface = c.iface /\ d.id = c.id /\ d.msg = c.msg /\ d.res = c.res
         /\ \A x : LET d == [c EXCEPT !.phase = "ok", !.res = x] IN
              /\ CallShape(d) /\ d # NoCall /\ d.phase = "ok" /\ d.kept = c.kept
              /\ d.iface = c.iface /\ d.id = c.id /\ d.msg = c.msg /\ d.res = x
         /\ LET d == [c EXCEPT !.kept = FALSE] IN
              /\ CallShape(d) /\ d # NoCall /\ d.phase = c.phase /\ d.kept = FALSE
              /\ d.iface = c.iface /\ d.id = c.id /\ d.msg = c.msg /\ d.res = c.res
  <1>1. \A d, r, m : d.iface = c.iface /\ d.id = c.id /\ d.msg = c.msg /\ Asks(c, r, m)
                     => Asks(d, r, m)
    BY DEF Asks, Is
  <1>2. c.phase # "none"
    BY DEF CallShape
  <1>3. ASSUME NEW p \in {"sent", "ok", "err"}
        PROVE  LET d == [c EXCEPT !.phase = p] IN
              /\ CallShape(d) /\ d # NoCall /\ d.phase = p /\ d.kept = c.kept
              /\ d.iface = c.iface /\ d.id = c.id /\ d.msg = c.msg /\ d.res = c.res
    BY DEF CallShape, NoCall
  <1>4. \A x : LET d == [c EXCEPT !.phase = "ok", !.res = x] IN
              /\ CallShape(d) /\ d # NoCall /\ d.phase = "ok" /\ d.kept = c.kept
              /\ d.iface = c.iface /\ d.id = c.id /\ d.msg = c.msg /\ d.res = x
    BY CallDone
  <1>5. LET d == [c EXCEPT !.kept = FALSE] IN
              /\ CallShape(d) /\ d # NoCall /\ d.phase = c.phase /\ d.kept = FALSE
              /\ d.iface = c.iface /\ d.id = c.id /\ d.msg = c.msg /\ d.res = c.res
    <2>1. PICK i, n, g, p, k, r :
            c = [iface |-> i, id |-> n, msg |-> g, phase |-> p, kept |-> k, res |-> r]
            /\ p \in {"sent", "ok", "err"}
      BY DEF CallShape
    <2>2. PICK no : no = FALSE
      OBVIOUS
    <2>3. [c EXCEPT !.kept = no] =
            [iface |-> i, id |-> n, msg |-> g, phase |-> p, kept |-> no, res |-> r]
      BY <2>1
    <2> QED BY <2>1, <2>2, <2>3 DEF CallShape, NoCall
  <1> QED BY <1>1, <1>2, <1>3, <1>4, <1>5, Zenon

(* A call that is under way is answered: whoever keeps it gets the answer. *)
LEMMA CallAnswered ==
  ASSUME CallInv, call.phase = "sent", hpc' = hpc, req' = req,
         NEW d, CallShape(d), d # NoCall, d.kept = call.kept,
         d.iface = call.iface, d.id = call.id, d.msg = call.msg,
         call' = IF call.kept THEN d ELSE NoCall
  PROVE  CallInv'
  <1>1. call # NoCall
    BY DEF NoCall
  <1>2. CallShape(NoCall)
    BY DEF CallShape
  <1>3. \A m \in Steps : Asks(call, req, m) => Asks(d, req, m)
    BY <1>1, CallMoves DEF CallInv
  <1>4. call.kept \in BOOLEAN
    BY <1>1 DEF CallInv, CallShape
  <1>5. CASE call.kept = TRUE
    <2>1. call' = d
      BY <1>5
    <2>2. hpc \in Steps
      BY <1>1, <1>5 DEF CallInv
    <2> QED BY <1>1, <1>3, <1>5, <2>1, <2>2 DEF CallInv, Steps
  <1>6. CASE call.kept = FALSE
    <2>1. call' = NoCall
      BY <1>6
    <2>2. hpc = "returned"
      BY <1>1, <1>6 DEF CallInv
    <2> QED BY <1>2, <2>1, <2>2 DEF CallInv, Steps
  <1> QED BY <1>4, <1>5, <1>6

(* RunContainer makes its next call. *)
LEMMA CallMade ==
  ASSUME CallInv, NEW m \in Steps, hpc' = m, req' \in Requests,
         CallShape(call'), call' # NoCall, call'.phase = "sent", call'.kept = TRUE,
         Asks(call', req', m)
  PROVE  CallInv'
  BY DEF CallInv, Steps

(* Every step of the session keeps track of RunContainer's call. *)
LEMMA StepCall ==
  ASSUME CallInv, Next \/ UNCHANGED vars
  PROVE  CallInv'
  <1>1. CASE UNCHANGED rpcVars
    BY <1>1 DEF CallInv, rpcVars
  <1>2. ASSUME NEW r \in Requests, RunContainer(r) PROVE CallInv'
    <2>1. call' = Sent("Agent", "containerService", <<>>, <<>>) /\ req' = r
          /\ hpc' = "containerService"
      BY <1>2 DEF RunContainer
    <2>2. Asks(call', req', "containerService")
      BY <2>1, SentCall DEF Asks
    <2> QED BY <2>1, <2>2, SentCall, CallMade DEF Steps
  <1>3. CASE CallCreate
    <2>1. /\ call' = Sent("ContainerService", "create", ContainerService_create_Params, req)
          /\ req' = req /\ hpc' = "create" /\ hpc = "containerService"
      BY <1>3 DEF CallCreate
    <2>2. Asks(call', req', "create")
      BY <2>1, SentCall DEF Asks
    <2>3. req' \in Requests
      BY <2>1 DEF CallInv
    <2> QED BY <2>1, <2>2, <2>3, SentCall, CallMade DEF Steps
  <1>4. CASE CallStart
    <2>1. /\ call' = Sent("Container", "start", Container_start_Params, Outputs)
          /\ req' = req /\ hpc' = "start" /\ hpc = "create"
      BY <1>4 DEF CallStart, Outputs
    <2>2. Asks(call', req', "start")
      BY <2>1, SentCall DEF Asks
    <2>3. req' \in Requests
      BY <2>1 DEF CallInv
    <2> QED BY <2>1, <2>2, <2>3, SentCall, CallMade DEF Steps
  <1>5. CASE CallExitCode
    <2>1. /\ call' = Sent("Task", "exitCode", <<>>, <<>>)
          /\ req' = req /\ hpc' = "exitCode" /\ hpc = "start"
      BY <1>5 DEF CallExitCode
    <2>2. Asks(call', req', "exitCode")
      BY <2>1, SentCall DEF Asks
    <2>3. req' \in Requests
      BY <2>1 DEF CallInv
    <2> QED BY <2>1, <2>2, <2>3, SentCall, CallMade DEF Steps
  <1>6. CASE ReturnOK
    BY <1>6 DEF ReturnOK, CallInv, Steps, CallShape
  <1>7. CASE ReturnErr
    <2>1. hpc \in Steps /\ hpc' = "returned" /\ req' = req
      BY <1>7 DEF ReturnErr, Steps
    <2>2. call # NoCall
      BY <2>1 DEF CallInv
    <2>3. CASE call.phase = "sent"
      <3>1. call' = [call EXCEPT !.kept = FALSE]
        BY <1>7, <2>3 DEF ReturnErr
      <3>2. /\ CallShape(call') /\ call' # NoCall /\ call'.phase = "sent" /\ call'.kept = FALSE
            /\ call'.iface = call.iface /\ call'.id = call.id /\ call'.msg = call.msg
        BY <2>2, <2>3, <3>1, CallMoves DEF CallInv
      <3>3. \E m \in Steps : Asks(call', req, m)
        BY <2>2, <3>2, CallMoves DEF CallInv
      <3> QED BY <2>1, <3>2, <3>3 DEF CallInv, Steps
    <2>4. CASE call.phase # "sent"
      <3>1. call' = NoCall
        BY <1>7, <2>4 DEF ReturnErr
      <3> QED BY <2>1, <3>1 DEF CallInv, Steps, CallShape
    <2> QED BY <2>3, <2>4
  <1>8. ASSUME NEW fields, NEW values, call.phase = "sent", call' = Answered(fields, values),
               hpc' = hpc, req' = req
        PROVE  CallInv'
    <2> DEFINE x == Answer(call, fields, values)
               d == [call EXCEPT !.phase = "ok", !.res = x]
    <2>1. call' = IF call.kept THEN d ELSE NoCall
      BY <1>8 DEF Answered
    <2>2. call # NoCall
      BY <1>8 DEF NoCall
    <2> HIDE DEF x
    <2>3. /\ CallShape(d) /\ d # NoCall /\ d.kept = call.kept
          /\ d.iface = call.iface /\ d.id = call.id /\ d.msg = call.msg
      <3>1. CallShape(call)
        BY DEF CallInv
      <3>2. \A y : LET e == [call EXCEPT !.phase = "ok", !.res = y] IN
              /\ CallShape(e) /\ e # NoCall /\ e.phase = "ok" /\ e.kept = call.kept
              /\ e.iface = call.iface /\ e.id = call.id /\ e.msg = call.msg /\ e.res = y
        BY <2>2, <3>1, CallDone, Zenon
      <3> QED BY <3>2, Zenon
    <2> HIDE DEF d
    <2> QED BY <1>8, <2>1, <2>3, CallAnswered
  <1>9. ASSUME call.phase = "sent", hpc' = hpc, req' = req,
               call' = IF call.kept THEN [call EXCEPT !.phase = "err"] ELSE NoCall
        PROVE  CallInv'
    <2> DEFINE d == [call EXCEPT !.phase = "err"]
    <2>1. call # NoCall
      BY <1>9 DEF NoCall
    <2>2. /\ CallShape(d) /\ d # NoCall /\ d.kept = call.kept
          /\ d.iface = call.iface /\ d.id = call.id /\ d.msg = call.msg
      BY <2>1, CallMoves DEF CallInv
    <2> HIDE DEF d
    <2> QED BY <1>9, <2>2, CallAnswered DEF d
  <1>10. CASE \/ ServeContainerService \/ ServeCreate \/ ServeStart \/ ServeExitCode
              \/ ServeFails
    BY <1>8, <1>9, <1>10, Zenon DEF ServeContainerService, ServeCreate, ServeStart,
                                    ServeExitCode, ServeFails
  <1>11. CASE Disconnect
    <2>1. hpc' = hpc /\ req' = req
      BY <1>11 DEF Disconnect
    <2>2. CASE call.phase # "sent"
      BY <1>11, <2>1, <2>2 DEF Disconnect, CallInv
    <2>3. CASE call.phase = "sent"
      BY <1>9, <1>11, <2>1, <2>3 DEF Disconnect
    <2> QED BY <2>2, <2>3
  <1>12. ASSUME NEW s \in Streams,
                \/ \E chunk \in Chunks : PumpWrites(s, chunk)
                \/ PumpDone(s) \/ PumpStops(s)
                \/ HandleWrite(s) \/ HandleWritePanics(s) \/ HandleDone(s)
         PROVE  UNCHANGED rpcVars
    BY <1>12 DEF PumpWrites, PumpDone, PumpStops, HandleWrite, HandleWritePanics, HandleDone
  <1>13. CASE ClientNext
    BY <1>1, <1>2, <1>3, <1>4, <1>5, <1>6, <1>7, <1>10, <1>12, <1>13
      DEF ClientNext, ContainerExits
  <1> QED
    BY <1>1, <1>11, <1>13 DEF Next, BootStep, UseVM, vars, clientVars

(* The handler that serves a call is that of the one method it asks for. *)
LEMMA ServedMethod ==
  ASSUME CallInv, call.phase = "sent", NEW m \in Steps, Handler(call) = m
  PROVE  Asks(call, req, m) /\ hpc \in {m, "returned"}
  <1>1. call # NoCall
    BY DEF NoCall
  <1>2. PICK k \in Steps : Asks(call, req, k)
    BY <1>1 DEF CallInv
  <1>3. k = m
    BY <1>2, AsksHandler
  <1>4. hpc \in Steps => hpc = m
    BY AsksHandler DEF CallInv
  <1> QED BY <1>1, <1>2, <1>3, <1>4 DEF CallInv
-----------------------------------------------------------------------------
(* What RunContainer returns, and what the container was made with *)

(* The arguments are the request's, and the code of an answer is the container's. *)
ResultInv ==
  /\ hpc = "idle" => got = Nothing
  /\ got # Nothing => got = req
  /\ hpc # "returned" => result = "none"
  /\ hpc = "exitCode" /\ call.phase = "ok" =>
       proc = "exited" /\ Unpack(Task_exitCode_Results, call.res, "code") = code
  /\ result \notin {"none", "err"} => proc = "exited" /\ result = code /\ call = NoCall

(* The container is made with what RunContainer was asked for. *)
LEMMA MadeAsAsked ==
  ASSUME CallInv, ServeCreate
  PROVE  got' = req /\ req # Nothing
  <1>1. call.phase = "sent" /\ Asks(call, req, "create") /\ hpc \in {"create", "returned"}
    BY ServedMethod DEF ServeCreate, Steps
  <1>2. call.msg = Pack(<<0, 5>>, ContainerService_create_Params, req)
    BY <1>1, MethodTable DEF Asks, Is, Reaches
  <1>3. \A f \in DOMAIN ContainerService_create_Params : Arg(f) = req[f]
    BY <1>2, RoundTrip, PointerStructs DEF Arg
  <1>4. req \in [oci : STRING, image : STRING, id : STRING, rootfsPath : STRING,
                 containerStateDisk : STRING]
    BY <1>1, ClientConstants DEF CallInv
  <1>5. DOMAIN ContainerService_create_Params =
          {"oci", "image", "id", "rootfsPath", "containerStateDisk"}
    BY DEF ContainerService_create_Params
  <1>6. got' = [f \in DOMAIN ContainerService_create_Params |-> Arg(f)]
    BY DEF ServeCreate
  <1>7. got' = req
    BY <1>3, <1>4, <1>5, <1>6
  <1>8. req # Nothing
    <2>1. "oci" \in DOMAIN req
      BY <1>4
    <2>2. DOMAIN Nothing = {}
      BY EmptySeq, LenProperties DEF Nothing
    <2> QED BY <2>1, <2>2
  <1> QED BY <1>7, <1>8

(* Every step keeps the result and the arguments true. *)
LEMMA StepResult ==
  ASSUME CallInv, ResultInv, Next \/ UNCHANGED vars
  PROVE  ResultInv'
  <1> USE DEF ResultInv
  <1>1. NoCall.phase = "none"
    BY DEF NoCall
  <1>2. CASE UNCHANGED <<rpcVars, got, proc, code>>
    BY <1>2 DEF rpcVars
  <1>3. ASSUME NEW r \in Requests, RunContainer(r) PROVE ResultInv'
    BY <1>3 DEF RunContainer
  <1>4. CASE CallCreate \/ CallStart
    BY <1>4 DEF CallCreate, CallStart
  <1>5. CASE CallExitCode
    <2>1. call' = Sent("Task", "exitCode", <<>>, <<>>)
      BY <1>5 DEF CallExitCode
    <2>2. call'.phase = "sent"
      BY <2>1, SentCall
    <2> QED BY <1>5, <2>2 DEF CallExitCode
  <1>6. CASE ReturnOK
    BY <1>6 DEF ReturnOK
  <1>7. CASE ReturnErr
    BY <1>7 DEF ReturnErr
  <1>8. ASSUME call.phase = "sent" PROVE call # NoCall /\ result \in {"none", "err"}
    BY <1>1, <1>8
  <1>9. CASE ServeContainerService
    <2>1. hpc # "exitCode"
      BY <1>9, ServedMethod DEF ServeContainerService, Steps
    <2> QED BY <1>8, <1>9, <2>1 DEF ServeContainerService
  <1>10. CASE ServeCreate
    <2>1. Asks(call, req, "create") /\ hpc \in {"create", "returned"} /\ call # NoCall
      BY <1>8, <1>10, ServedMethod DEF ServeCreate, Steps
    <2>2. got' = req
      BY <1>10, MadeAsAsked
    <2> QED BY <1>8, <1>10, <2>1, <2>2 DEF ServeCreate
  <1>11. CASE ServeStart
    <2>1. hpc \in {"start", "returned"}
      BY <1>11, ServedMethod DEF ServeStart, Steps
    <2> QED BY <1>8, <1>11, <2>1 DEF ServeStart
  <1>12. CASE ServeExitCode
    <2>1. Asks(call, req, "exitCode") /\ call # NoCall /\ hpc \in {"exitCode", "returned"}
      BY <1>8, <1>12, ServedMethod DEF ServeExitCode, Steps
    <2>2. CASE hpc = "exitCode"
      <3> DEFINE x == Answer(call, Task_exitCode_Results, [code |-> code])
      <3>1. call.kept = TRUE
        BY <2>2 DEF CallInv, Steps
      <3>2. call' = [call EXCEPT !.phase = "ok", !.res = x]
        BY <1>12, <3>1 DEF ServeExitCode, Answered
      <3>3. call'.res = x
        <4>1. CallShape(call)
          BY DEF CallInv
        <4>2. \A y : LET e == [call EXCEPT !.phase = "ok", !.res = y] IN
                /\ CallShape(e) /\ e # NoCall /\ e.phase = "ok" /\ e.kept = call.kept
                /\ e.iface = call.iface /\ e.id = call.id /\ e.msg = call.msg /\ e.res = y
          BY <2>1, <4>1, CallDone, Zenon
        <4> HIDE DEF x
        <4> QED BY <3>2, <4>2, Zenon
      <3>4. DOMAIN Task_exitCode_Results = {"code"}
        BY DEF Task_exitCode_Results
      <3>5. call.iface = "Task" /\ call.id = Stub("Task")["exitCode"].id
        BY <2>1 DEF Asks, Is
      <3>6. Unpack(Task_exitCode_Results, x, "code") = code
        BY <3>4, <3>5, ResultsTravel, MethodTable, DataStructs
      <3> QED BY <1>8, <1>12, <2>2, <3>3, <3>6 DEF ServeExitCode
    <2>3. CASE hpc = "returned"
      BY <1>8, <1>12, <2>3 DEF ServeExitCode
    <2> QED BY <2>1, <2>2, <2>3
  <1>13. ASSUME call.phase = "sent", UNCHANGED <<hpc, req, result, got, proc, code>>,
                call' = IF call.kept THEN [call EXCEPT !.phase = "err"] ELSE NoCall
         PROVE  ResultInv'
    <2>1. call # NoCall /\ CallShape(call)
      BY <1>8, <1>13 DEF CallInv
    <2>2. call'.phase \in {"err", "none"}
      BY <1>1, <1>13, <2>1, CallMoves
    <2> QED BY <1>8, <1>13, <2>2
  <1>14. CASE ServeFails
    BY <1>13, <1>14 DEF ServeFails
  <1>15. CASE ContainerExits
    BY <1>15 DEF ContainerExits, rpcVars
  <1>16. CASE Disconnect
    BY <1>2, <1>13, <1>16 DEF Disconnect, rpcVars
  <1>17. ASSUME NEW s \in Streams,
                \/ \E chunk \in Chunks : PumpWrites(s, chunk)
                \/ PumpDone(s) \/ PumpStops(s)
                \/ HandleWrite(s) \/ HandleWritePanics(s) \/ HandleDone(s)
         PROVE  UNCHANGED <<rpcVars, got, proc, code>>
    BY <1>17 DEF PumpWrites, PumpDone, PumpStops, HandleWrite, HandleWritePanics, HandleDone
  <1>18. CASE ClientNext
    BY <1>2, <1>3, <1>4, <1>5, <1>6, <1>7, <1>9, <1>10, <1>11, <1>12, <1>14, <1>15, <1>17, <1>18
      DEF ClientNext
  <1> QED
    BY <1>2, <1>16, <1>18 DEF Next, BootStep, UseVM, vars, clientVars
-----------------------------------------------------------------------------
(* The references to the capabilities, and the streams *)

Idle == \A s \in Streams : pump[s] = "none" /\ wire[s] = NoCall
Connected == \A s \in Streams : sink[s] = s

(* A printer keeps its fields. *)
ColShape ==
  /\ DOMAIN col = Streams
  /\ \A c \in Streams : DOMAIN col[c] = {"fed", "from", "partial", "printed", "done"}

(* The pumps write nowhere before the container was started, and then each *)
(* to its own stream.                                                      *)
StreamInv ==
  /\ sink \in [Streams -> Streams \cup {"none"}]
  /\ pump \in [Streams -> {"none", "run", "done", "ended"}]
  /\ DOMAIN wire = Streams
  /\ ColShape
  /\ proc \in {"none", "running", "exited"}
  /\ Idle \/ Connected
  /\ hpc \in {"idle", "containerService", "create"} => Idle
  /\ \A c \in Streams : col[c].from \subseteq {c}

(* Every step of the session leaves each pump with its own stream. *)
LEMMA StepStream ==
  ASSUME CallInv, StreamInv, Next \/ UNCHANGED vars
  PROVE  StreamInv'
  <1> USE DEF StreamInv
  <1>1. CASE UNCHANGED <<sink, pump, wire, col>> /\ proc' \in {proc, "exited"}
             /\ (hpc' = hpc \/ hpc' \notin {"idle", "containerService", "create"} \/ Idle)
    BY <1>1 DEF Idle, Connected, ColShape
  <1>2. ASSUME NEW r \in Requests, RunContainer(r) PROVE StreamInv'
    BY <1>1, <1>2 DEF RunContainer, ioVars
  <1>3. CASE CallCreate \/ CallStart \/ CallExitCode \/ ReturnOK \/ ReturnErr
    BY <1>1, <1>3 DEF CallCreate, CallStart, CallExitCode, ReturnOK, ReturnErr, ioVars
  <1>4. CASE \/ ServeContainerService \/ ServeCreate \/ ServeExitCode \/ ServeFails
             \/ ContainerExits
    BY <1>1, <1>4 DEF ServeContainerService, ServeCreate, ServeExitCode, ServeFails,
                      ContainerExits, rpcVars, ioVars
  <1>5. CASE ServeStart
    <2>1. Asks(call, req, "start") /\ hpc \in {"start", "returned"}
      BY <1>5, ServedMethod DEF ServeStart, Steps
    <2>2. call.msg = Pack(<<0, 2>>, Container_start_Params, Outputs)
      BY <2>1, MethodTable DEF Asks, Is, Reaches
    <2>3. DOMAIN Container_start_Params = Streams /\ \A s \in Streams : Outputs[s] = s
      BY DEF Container_start_Params, Streams, Outputs
    <2>4. \A s \in Streams : Unpack(Container_start_Params, call.msg, s) = s
      BY <2>2, <2>3, RoundTrip, PointerStructs
    <2>5. sink' = [s \in Streams |-> s]
      BY <1>5, <2>4 DEF ServeStart
    <2>6. Connected'
      BY <2>5 DEF Connected
    <2> QED BY <1>5, <2>1, <2>5, <2>6 DEF ServeStart, ColShape
  <1>6. ASSUME NEW s \in Streams, pump[s] # "none" \/ wire[s] # NoCall
        PROVE  Connected /\ hpc \notin {"idle", "containerService", "create"}
    BY <1>6 DEF Idle
  <1>7. ASSUME Connected, hpc \notin {"idle", "containerService", "create"},
               hpc' = hpc, sink' = sink, proc' = proc, DOMAIN wire' = Streams,
               pump' \in [Streams -> {"none", "run", "done", "ended"}],
               ColShape', \A c \in Streams : col'[c].from \subseteq {c}
        PROVE  StreamInv'
    BY <1>7 DEF Connected
  <1>8. ASSUME NEW s \in Streams, NEW chunk, PumpWrites(s, chunk) PROVE StreamInv'
    <2>1. Connected /\ hpc \notin {"idle", "containerService", "create"}
      BY <1>6, <1>8 DEF PumpWrites
    <2>2. UNCHANGED <<hpc, sink, proc, pump, col>> /\ DOMAIN wire' = Streams
      BY <1>8 DEF PumpWrites, rpcVars
    <2> QED BY <1>7, <2>1, <2>2 DEF ColShape
  <1>9. ASSUME NEW s \in Streams, PumpDone(s) \/ PumpStops(s) PROVE StreamInv'
    <2>1. Connected /\ hpc \notin {"idle", "containerService", "create"}
      BY <1>6, <1>9 DEF PumpDone, PumpStops
    <2>2. /\ UNCHANGED <<hpc, sink, proc, col>> /\ DOMAIN wire' = Streams
          /\ pump' \in [Streams -> {"none", "run", "done", "ended"}]
      BY <1>9 DEF PumpDone, PumpStops, rpcVars
    <2> QED BY <1>7, <2>1, <2>2 DEF ColShape
  <1>10. ASSUME NEW s \in Streams, NEW w, col' = [col EXCEPT ![sink[s]] = w], Connected,
                DOMAIN w = {"fed", "from", "partial", "printed", "done"},
                w.from = col[s].from \cup {s}
         PROVE  ColShape' /\ \A c \in Streams : col'[c].from \subseteq {c}
    <2>1. col' = [col EXCEPT ![s] = w]
      BY <1>10 DEF Connected
    <2> QED BY <1>10, <2>1 DEF ColShape
  <1>11. ASSUME NEW s \in Streams, NEW chunk, Connected
         PROVE  /\ DOMAIN WriteTo(sink[s], s, chunk).next =
                     {"fed", "from", "partial", "printed", "done"}
                /\ WriteTo(sink[s], s, chunk).next.from = col[s].from \cup {s}
                /\ DOMAIN DoneTo(sink[s], s) = {"fed", "from", "partial", "printed", "done"}
                /\ DoneTo(sink[s], s).from = col[s].from \cup {s}
    <2>1. sink[s] = s /\ DOMAIN col[s] = {"fed", "from", "partial", "printed", "done"}
      BY <1>11 DEF Connected, ColShape
    <2>2. \A a, b, p, q : LET w == [col[s] EXCEPT !.fed = a, !.from = b, !.printed = p, !.partial = q]
                         IN w.from = b /\ DOMAIN w = DOMAIN col[s]
      BY <2>1
    <2>3. \A a, b, p, q : LET w == [col[s] EXCEPT !.printed = a, !.partial = b, !.from = p, !.done = q]
                         IN w.from = p /\ DOMAIN w = DOMAIN col[s]
      BY <2>1
    <2>4. PICK a, b, p, q : WriteTo(s, s, chunk).next =
            [col[s] EXCEPT !.fed = a, !.from = b, !.printed = p, !.partial = q]
            /\ b = col[s].from \cup {s}
      BY Zenon DEF WriteTo
    <2>5. PICK d, e, f, g : DoneTo(s, s) =
            [col[s] EXCEPT !.printed = d, !.partial = e, !.from = f, !.done = g]
            /\ f = col[s].from \cup {s}
      BY Zenon DEF DoneTo
    <2> QED BY <2>1, <2>2, <2>3, <2>4, <2>5
  <1>12. ASSUME NEW s \in Streams, HandleDone(s) PROVE StreamInv'
    <2>1. Connected /\ hpc \notin {"idle", "containerService", "create"}
      BY <1>6, <1>12 DEF HandleDone
    <2>2. /\ UNCHANGED <<hpc, sink, proc>> /\ DOMAIN wire' = Streams
          /\ pump' \in [Streams -> {"none", "run", "done", "ended"}]
          /\ col' = [col EXCEPT ![sink[s]] = DoneTo(sink[s], s)]
      BY <1>12 DEF HandleDone, rpcVars
    <2>3. ColShape' /\ \A c \in Streams : col'[c].from \subseteq {c}
      BY <1>10, <1>11, <2>1, <2>2
    <2> QED BY <1>7, <2>1, <2>2, <2>3
  <1>13. ASSUME NEW s \in Streams, HandleWrite(s) \/ HandleWritePanics(s) PROVE StreamInv'
    <2>1. Connected /\ hpc \notin {"idle", "containerService", "create"}
      BY <1>6, <1>13 DEF HandleWrite, HandleWritePanics
    <2>2. /\ UNCHANGED <<hpc, sink, proc>> /\ DOMAIN wire' = Streams
          /\ pump' \in [Streams -> {"none", "run", "done", "ended"}]
      BY <1>13 DEF HandleWrite, HandleWritePanics, rpcVars
    <2>3. PICK chunk : col' = [col EXCEPT ![sink[s]] = WriteTo(sink[s], s, chunk).next]
      BY <1>13, Zenon DEF HandleWrite, HandleWritePanics
    <2>4. ColShape' /\ \A c \in Streams : col'[c].from \subseteq {c}
      <3> DEFINE w == WriteTo(sink[s], s, chunk).next
      <3>1. DOMAIN w = {"fed", "from", "partial", "printed", "done"}
            /\ w.from = col[s].from \cup {s}
        BY <1>11, <2>1
      <3>2. col' = [col EXCEPT ![sink[s]] = w]
        BY <2>3
      <3> HIDE DEF w
      <3> QED BY <1>10, <2>1, <3>1, <3>2
    <2> QED BY <1>7, <2>1, <2>2, <2>4
  <1>14. CASE Disconnect
    BY <1>14 DEF Disconnect, Idle, Connected, ColShape
  <1>15. CASE ClientNext
    BY <1>2, <1>3, <1>4, <1>5, <1>8, <1>9, <1>12, <1>13, <1>15 DEF ClientNext
  <1> QED
    BY <1>1, <1>14, <1>15 DEF Next, BootStep, UseVM, vars, clientVars, rpcVars, ioVars

RefNames == {"host", "results", "args"} \cup Streams

(* Who holds a capability: the host until RunContainer returns, the        *)
(* arguments of Start while that call is under way, and each pump, while   *)
(* it runs, its own stream.                                                *)
HostHolds ==
  hpc \in {"idle", "returned"} => \A c \in Caps : "host" \notin refs[c] /\ "results" \notin refs[c]

ArgsHold ==
  \A c \in Caps : "args" \in refs[c] =>
    c \in Streams /\ call.phase = "sent" /\ Asks(call, req, "start")

PumpsHold ==
  \A c \in Caps : \A s \in Streams : s \in refs[c] <=> (c = s /\ pump[s] \in {"run", "done"})

RefInv == refs \in [Caps -> SUBSET RefNames] /\ HostHolds /\ ArgsHold /\ PumpsHold

(* The names of the holders do not clash. *)
LEMMA NamesApart ==
  /\ "host" \notin Streams /\ "results" \notin Streams /\ "args" \notin Streams
  /\ "service" \notin Streams /\ "container" \notin Streams /\ "task" \notin Streams
  /\ Caps = {"service", "container", "task"} \cup Streams
  BY DEF Streams, Caps

(* A handler other than Start's is running: no arguments hold anything. *)
LEMMA NoArgsHeld ==
  ASSUME CallInv, RefInv,
         call.phase # "sent" \/ Handler(call) # "start"
  PROVE  \A c \in Caps : "args" \notin refs[c]
  <1>1. Asks(call, req, "start") => Handler(call) = "start"
    BY AsksHandler DEF Steps
  <1> QED BY <1>1 DEF RefInv, ArgsHold

(* The answer of a call brings a capability, if anybody waits for it. *)
LEMMA GrantedRefs ==
  ASSUME CallInv, RefInv, NEW cap \in {"service", "container", "task"},
         call.phase = "sent"
  PROVE  /\ Granted(cap) \in [Caps -> SUBSET RefNames]
         /\ \A c \in Caps : \A x \in RefNames \ {"results"} :
              x \in Granted(cap)[c] <=> x \in refs[c]
         /\ hpc \in {"idle", "returned"} =>
              \A c \in Caps : "host" \notin Granted(cap)[c] /\ "results" \notin Granted(cap)[c]
  <1>1. call # NoCall /\ cap \in Caps
    BY NamesApart DEF NoCall
  <1>2. call.kept \in BOOLEAN
    BY <1>1 DEF CallInv, CallShape
  <1>3. CASE call.kept = TRUE
    <2>1. Granted(cap) = [refs EXCEPT ![cap] = refs[cap] \cup {"results"}]
      BY <1>1, <1>3 DEF Granted, RefInv
    <2>2. hpc \in Steps
      BY <1>1, <1>3 DEF CallInv
    <2> QED BY <1>1, <2>1, <2>2 DEF RefInv, RefNames, Steps
  <1>4. CASE call.kept = FALSE
    <2>1. Granted(cap) = refs
      BY <1>1, <1>4 DEF Granted, RefInv
    <2> QED BY <2>1 DEF RefInv, HostHolds
  <1> QED BY <1>2, <1>3, <1>4

(* Every step of the session keeps track of who holds what. *)
LEMMA StepRefs ==
  ASSUME CallInv, StreamInv, RefInv, Next \/ UNCHANGED vars
  PROVE  RefInv'
  <1>1. ASSUME hpc' = hpc, call' = call, req' = req, refs' = refs, pump' = pump PROVE RefInv'
    BY <1>1 DEF RefInv, HostHolds, ArgsHold, PumpsHold
  <1>2. ASSUME NEW r \in Requests, RunContainer(r) PROVE RefInv'
    <2>1. hpc = "idle" /\ hpc' = "containerService" /\ refs' = refs /\ pump' = pump
      BY <1>2 DEF RunContainer, ioVars
    <2>2. call.phase # "sent"
      BY <2>1 DEF CallInv, NoCall
    <2>3. \A c \in Caps : "args" \notin refs[c]
      BY <2>2, NoArgsHeld
    <2> QED BY <2>1, <2>3 DEF RefInv, HostHolds, ArgsHold, PumpsHold
  <1>3. CASE CallCreate \/ CallExitCode
    <2>1. /\ refs' = [c \in Caps |-> Taken(c)] /\ pump' = pump /\ call.phase = "ok"
          /\ hpc' \notin {"idle", "returned"}
      BY <1>3 DEF CallCreate, CallExitCode, ioVars
    <2>2. \A c \in Caps : "args" \notin refs[c]
      BY <2>1, NoArgsHeld
    <2>3. \A c \in Caps : /\ Taken(c) \subseteq RefNames /\ "args" \notin Taken(c)
                          /\ \A s \in Streams : s \in Taken(c) <=> s \in refs[c]
      BY <2>2, NamesApart DEF Taken, RefInv, RefNames
    <2>4. refs' \in [Caps -> SUBSET RefNames] /\ HostHolds' /\ ArgsHold'
      BY <2>1, <2>3 DEF HostHolds, ArgsHold
    <2>5. PumpsHold'
      BY <2>1, <2>3 DEF RefInv, PumpsHold
    <2> QED BY <2>4, <2>5 DEF RefInv, RefNames
  <1>4. CASE CallStart
    <2>1. /\ hpc = "create" /\ hpc' = "start" /\ req' = req /\ pump' = pump
          /\ call.phase = "ok"
          /\ call' = Sent("Container", "start", Container_start_Params, Outputs)
          /\ refs' = [c \in Caps |-> IF c \in Streams THEN {"host", "args"} ELSE Taken(c)]
      BY <1>4 DEF CallStart, ioVars, Outputs
    <2>2. call'.phase = "sent"
      BY <2>1, SentCall
    <2>3. Asks(call', req', "start")
      BY <2>1, SentCall DEF Asks
    <2>4. \A s \in Streams : pump[s] = "none"
      BY <2>1 DEF StreamInv, Idle
    <2>5. \A c \in Caps : "args" \notin refs[c]
      BY <2>1, NoArgsHeld
    <2>6. \A c \in Caps : /\ Taken(c) \subseteq RefNames /\ "args" \notin Taken(c)
                          /\ \A s \in Streams : s \notin Taken(c)
      BY <2>4, <2>5, NamesApart DEF Taken, RefInv, RefNames, PumpsHold
    <2>7. \A c \in Caps : IF c \in Streams THEN refs'[c] = {"host", "args"}
                                           ELSE refs'[c] = Taken(c)
      BY <2>1
    <2>8. refs' \in [Caps -> SUBSET RefNames]
      BY <2>1, <2>6 DEF RefNames
    <2>9. HostHolds' /\ ArgsHold'
      BY <2>1, <2>2, <2>3, <2>6, <2>7 DEF HostHolds, ArgsHold
    <2>10. \A c \in Caps : \A s \in Streams : s \notin refs'[c]
      BY <2>6, <2>7, NamesApart
    <2>11. PumpsHold'
      BY <2>1, <2>4, <2>10 DEF PumpsHold
    <2> QED BY <2>8, <2>9, <2>11 DEF RefInv, RefNames
  <1>5. ASSUME refs' = [c \in Caps |-> Released(c)], pump' = pump, req' = req,
               \A c \in Caps : "args" \in refs[c] =>
                 call'.phase = "sent" /\ Asks(call', req, "start")
        PROVE  RefInv'
    <2>1. \A c \in Caps : refs'[c] = refs[c] \ {"host", "results"}
      BY <1>5 DEF Released
    <2>2. refs' \in [Caps -> SUBSET RefNames]
      BY <1>5, <2>1 DEF RefInv
    <2>3. HostHolds'
      BY <2>1 DEF HostHolds
    <2>4. ArgsHold'
      BY <1>5, <2>1 DEF RefInv, ArgsHold
    <2>5. PumpsHold'
      BY <1>5, <2>1, NamesApart DEF RefInv, PumpsHold
    <2> QED BY <2>2, <2>3, <2>4, <2>5 DEF RefInv, RefNames
  <1>6. CASE ReturnOK
    <2>1. /\ refs' = [c \in Caps |-> Released(c)] /\ pump' = pump /\ req' = req
          /\ call.phase = "ok"
      BY <1>6 DEF ReturnOK, ioVars
    <2>2. \A c \in Caps : "args" \notin refs[c]
      BY <2>1, NoArgsHeld
    <2> QED BY <1>5, <2>1, <2>2
  <1>7. CASE ReturnErr
    <2>1. /\ refs' = [c \in Caps |-> Released(c)] /\ pump' = pump /\ req' = req
      BY <1>7 DEF ReturnErr, ioVars
    <2>2. ASSUME call.phase = "sent", Asks(call, req, "start")
          PROVE  call'.phase = "sent" /\ Asks(call', req, "start")
      <3>1. call' = [call EXCEPT !.kept = FALSE] /\ call # NoCall
        BY <1>7, <2>2 DEF ReturnErr, NoCall
      <3>2. CallShape(call)
        BY DEF CallInv
      <3>3. LET d == [call EXCEPT !.kept = FALSE] IN
              /\ CallShape(d) /\ d # NoCall /\ d.phase = call.phase /\ d.kept = FALSE
              /\ d.iface = call.iface /\ d.id = call.id /\ d.msg = call.msg /\ d.res = call.res
        BY <3>1, <3>2, CallMoves, Zenon
      <3>4. /\ call'.phase = "sent"
            /\ call'.iface = call.iface /\ call'.id = call.id /\ call'.msg = call.msg
        BY <2>2, <3>1, <3>3, Zenon
      <3> QED BY <2>2, <3>4 DEF Asks, Is
    <2>3. \A c \in Caps : "args" \in refs[c] => call'.phase = "sent" /\ Asks(call', req, "start")
      BY <2>2 DEF RefInv, ArgsHold
    <2> QED BY <1>5, <2>1, <2>3
  <1>8. ASSUME NEW cap \in {"service", "container", "task"}, refs' = Granted(cap),
               call.phase = "sent", Handler(call) # "start", hpc' = hpc, pump' = pump
        PROVE  RefInv'
    <2>1. \A c \in Caps : "args" \notin refs[c]
      BY <1>8, NoArgsHeld
    <2>2. refs' \in [Caps -> SUBSET RefNames]
      BY <1>8, GrantedRefs
    <2>3. HostHolds'
      BY <1>8, GrantedRefs DEF HostHolds
    <2>4. \A c \in Caps : \A x \in RefNames \ {"results"} : x \in refs'[c] <=> x \in refs[c]
      BY <1>8, GrantedRefs
    <2>5. ArgsHold'
      BY <2>1, <2>4 DEF ArgsHold, RefNames
    <2>6. \A c \in Caps : \A s \in Streams : s \in refs'[c] <=> s \in refs[c]
      BY <2>4, NamesApart DEF RefNames
    <2>7. PumpsHold'
      BY <1>8, <2>6 DEF RefInv, PumpsHold
    <2> QED BY <2>2, <2>3, <2>5, <2>7 DEF RefInv, RefNames
  <1>9. CASE ServeContainerService
    BY <1>8, <1>9 DEF ServeContainerService, ioVars
  <1>10. CASE ServeCreate
    <2>1. refs' = Granted("container") /\ call.phase = "sent" /\ Handler(call) = "create"
      BY <1>10, Zenon DEF ServeCreate
    <2>2. UNCHANGED <<bootVars, hpc, req, result, proc, code, ioVars>>
      BY <1>10, Zenon DEF ServeCreate
    <2>3. hpc' = hpc /\ pump' = pump
      BY <2>2 DEF ioVars
    <2> QED BY <1>8, <2>1, <2>3
  <1>11. CASE ServeStart
    <2>1. /\ call.phase = "sent" /\ hpc' = hpc /\ pump' = [s \in Streams |-> "run"]
          /\ refs' = [c \in Caps |-> IF c \in Streams THEN Hold(c, sink') ELSE Granted("task")[c]]
      BY <1>11 DEF ServeStart
    <2>2. \A s \in Streams : sink'[s] = s
      <3>1. StreamInv'
        BY StepStream
      <3>2. Connected' \/ Idle'
        BY <3>1 DEF StreamInv
      <3>3. "stdout" \in Streams /\ pump'["stdout"] = "run"
        BY <2>1 DEF Streams
      <3> QED BY <3>2, <3>3 DEF Connected, Idle
    <2>3. \A c \in Streams : refs'[c] = (refs[c] \ {"args"}) \cup {c}
      BY <2>1, <2>2, NamesApart DEF Hold
    <2>4. \A c \in Caps \ Streams : refs'[c] = Granted("task")[c]
      BY <2>1
    <2>5. /\ Granted("task") \in [Caps -> SUBSET RefNames]
          /\ \A c \in Caps : \A x \in RefNames \ {"results"} :
               x \in Granted("task")[c] <=> x \in refs[c]
          /\ hpc \in {"idle", "returned"} =>
               \A c \in Caps : "host" \notin Granted("task")[c] /\ "results" \notin Granted("task")[c]
      BY <2>1, GrantedRefs
    <2>6. refs' \in [Caps -> SUBSET RefNames]
      <3>1. \A c \in Caps : refs'[c] \subseteq RefNames
        BY <2>3, <2>4, <2>5, NamesApart DEF RefInv, RefNames
      <3> QED BY <2>1, <3>1
    <2>7. HostHolds'
      BY <2>1, <2>3, <2>4, <2>5, NamesApart DEF RefInv, HostHolds
    <2>8. \A c \in Caps : "args" \notin refs'[c]
      BY <2>3, <2>4, <2>5, NamesApart DEF RefInv, ArgsHold, RefNames
    <2>9. ASSUME NEW c \in Caps, NEW s \in Streams
          PROVE  s \in refs'[c] <=> (c = s /\ pump'[s] \in {"run", "done"})
      <3>1. pump'[s] = "run" /\ s \in RefNames /\ s # "args" /\ s # "results"
        BY <2>1, NamesApart DEF RefNames
      <3>2. s \in refs[c] => c = s
        BY DEF RefInv, PumpsHold
      <3>3. CASE c \in Streams
        BY <2>3, <3>1, <3>2, <3>3
      <3>4. CASE c \notin Streams
        BY <2>4, <2>5, <3>1, <3>2, <3>4
      <3> QED BY <3>3, <3>4
    <2> QED BY <2>6, <2>7, <2>8, <2>9 DEF RefInv, RefNames, ArgsHold, PumpsHold
  <1>12. CASE ServeExitCode
    <2>1. /\ refs' = refs /\ hpc' = hpc /\ pump' = pump /\ call.phase = "sent"
          /\ Handler(call) = "exitCode"
      BY <1>12 DEF ServeExitCode, ioVars
    <2>2. \A c \in Caps : "args" \notin refs[c]
      BY <2>1, NoArgsHeld
    <2> QED BY <2>1, <2>2 DEF RefInv, HostHolds, ArgsHold, PumpsHold
  <1>13. CASE ServeFails
    <2>1. hpc' = hpc /\ pump' = pump /\ refs' = [c \in Caps |-> refs[c] \ {"args"}]
      BY <1>13 DEF ServeFails, ioVars
    <2>2. \A c \in Caps : refs'[c] = refs[c] \ {"args"}
      BY <2>1
    <2>3. \A c \in Caps : \A s \in Streams : s \in refs'[c] <=> s \in refs[c]
      BY <2>2, NamesApart
    <2>4. refs' \in [Caps -> SUBSET RefNames] /\ HostHolds'
      BY <2>1, <2>2 DEF RefInv, HostHolds
    <2>5. ArgsHold' /\ PumpsHold'
      BY <2>1, <2>2, <2>3 DEF RefInv, ArgsHold, PumpsHold
    <2> QED BY <2>4, <2>5 DEF RefInv, RefNames
  <1>14. CASE ContainerExits
    BY <1>1, <1>14 DEF ContainerExits, rpcVars, ioVars
  <1>15. ASSUME NEW s \in Streams,
                (\E chunk \in Chunks : PumpWrites(s, chunk)) \/ HandleWrite(s)
         PROVE  RefInv'
    BY <1>1, <1>15 DEF PumpWrites, HandleWrite, rpcVars
  <1>16. ASSUME NEW s \in Streams, PumpDone(s) PROVE RefInv'
    <2>1. /\ UNCHANGED <<hpc, call, req, refs>> /\ pump[s] = "run"
          /\ pump' = [pump EXCEPT ![s] = "done"]
      BY <1>16 DEF PumpDone, rpcVars
    <2>2. \A p \in Streams : pump'[p] \in {"run", "done"} <=> pump[p] \in {"run", "done"}
      BY <2>1 DEF StreamInv
    <2> QED BY <2>1, <2>2 DEF RefInv, HostHolds, ArgsHold, PumpsHold
  <1>17. ASSUME NEW s \in Streams, PumpStops(s) \/ HandleDone(s) PROVE RefInv'
    <2>1. /\ UNCHANGED <<hpc, call, req>> /\ pump' = [pump EXCEPT ![s] = "ended"]
          /\ refs' = [refs EXCEPT ![sink[s]] = @ \ {s}]
      BY <1>17 DEF PumpStops, HandleDone, DropPumpRef, rpcVars
    <2>2. sink[s] = s
      BY <1>17 DEF PumpStops, HandleDone, StreamInv, Idle, Connected
    <2>3. refs' = [refs EXCEPT ![s] = refs[s] \ {s}] /\ s \in Caps
      BY <2>1, <2>2, NamesApart
    <2>4. refs' \in [Caps -> SUBSET RefNames] /\ HostHolds' /\ ArgsHold'
      BY <2>1, <2>3 DEF RefInv, HostHolds, ArgsHold
    <2>5. ASSUME NEW c \in Caps, NEW p \in Streams
          PROVE  p \in refs'[c] <=> (c = p /\ pump'[p] \in {"run", "done"})
      <3>1. p \in refs[c] <=> (c = p /\ pump[p] \in {"run", "done"})
        BY DEF RefInv, PumpsHold
      <3>2. CASE p = s
        BY <2>1, <2>3, <3>1, <3>2 DEF RefInv, StreamInv
      <3>3. CASE p # s
        BY <2>1, <2>3, <3>1, <3>3 DEF RefInv, StreamInv
      <3> QED BY <3>2, <3>3
    <2> QED BY <2>4, <2>5 DEF RefInv, RefNames, PumpsHold
  <1>18. ASSUME NEW s \in Streams, HandleWritePanics(s) PROVE RefInv'
    <2>1. refs' = [c \in Caps |-> {}] /\ pump' = [p \in Streams |-> "ended"]
      BY <1>18 DEF HandleWritePanics
    <2> QED BY <2>1 DEF RefInv, RefNames, HostHolds, ArgsHold, PumpsHold
  <1>19. CASE Disconnect
    <2>1. /\ hpc' = hpc /\ refs' = [c \in Caps |-> refs[c] \ ({"args"} \cup Streams)]
          /\ pump' = [s \in Streams |-> IF pump[s] = "none" THEN "none" ELSE "ended"]
      BY <1>19 DEF Disconnect
    <2>2. \A c \in Caps : refs'[c] = refs[c] \ ({"args"} \cup Streams)
      BY <2>1
    <2>3. refs' \in [Caps -> SUBSET RefNames] /\ HostHolds' /\ ArgsHold'
      BY <2>1, <2>2 DEF RefInv, HostHolds, ArgsHold
    <2>4. PumpsHold'
      BY <2>1, <2>2 DEF PumpsHold
    <2> QED BY <2>3, <2>4 DEF RefInv, RefNames
  <1>20. CASE ClientNext
    BY <1>2, <1>3, <1>4, <1>6, <1>7, <1>9, <1>10, <1>11, <1>12, <1>13, <1>14, <1>15, <1>16,
       <1>17, <1>18, <1>20 DEF ClientNext
  <1> QED
    BY <1>1, <1>19, <1>20 DEF Next, BootStep, UseVM, vars, clientVars, rpcVars, ioVars
-----------------------------------------------------------------------------
(* What is printed of the output *)

Writes(c, k) == Is(c, "ByteStream", "write", ByteStream_write_Params, [chunk |-> k])
Ends(c) == Is(c, "ByteStream", "done", <<>>, <<>>)

(* A pump has at most one call under way: the chunk it has read, or done. *)
WireInv ==
  /\ DOMAIN wire = Streams
  /\ \A s \in Streams : wire[s] # NoCall => (\E k \in Chunks : Writes(wire[s], k)) \/ Ends(wire[s])

NoReturn(bytes) == \A i \in DOMAIN bytes : bytes[i] # CR

(* Until a carriage return comes or the host dies, every chunk was printed *)
(* when it came, and the printer holds nothing back.                       *)
Printed(c) ==
  /\ col[c].fed \in Seq(Byte)
  /\ run # "dead" /\ NoReturn(col[c].fed) =>
       /\ col[c].printed = Split(col[c].fed).lines /\ Split(col[c].fed).rest = <<>>
       /\ col[c].partial = <<>>

PrintInv == WireInv /\ \A c \in Streams : Printed(c)

(* The host process does not come back. *)
LEMMA DeadStays ==
  ASSUME BootNext, run = "dead" PROVE run' = "dead"
  BY DEF BootNext, RunVM, HandOff, RunFails, ManagerGone, WatcherEnds, ManagerStarts, VMStarts,
         Listen, ManagerExits, GuestStops, AgentBoots, AgentLoop, DialFails, Wake, Dial, ServeEnds,
         Delivery, TakeAgent, TakeProxy, TakeBroken, ReadProxy, hostVars

(* What a write carries is the chunk the pump has read. *)
LEMMA WriteArrives ==
  ASSUME WireInv, NEW s \in Streams, wire[s] # NoCall, Handler(wire[s]) = "write"
  PROVE  Unpack(ByteStream_write_Params, wire[s].msg, "chunk") \in Chunks
  <1>1. ASSUME Ends(wire[s]) PROVE FALSE
    BY <1>1, MethodTable DEF Ends, Is, Reaches
  <1>2. PICK k \in Chunks : Writes(wire[s], k)
    BY <1>1 DEF WireInv
  <1> DEFINE msg == wire[s].msg
             carried == [chunk |-> k]
  <1>3. msg = Pack(<<0, 1>>, ByteStream_write_Params, carried)
    BY <1>2, MethodTable DEF Writes, Is, Reaches
  <1>4. "chunk" \in DOMAIN ByteStream_write_Params /\ carried["chunk"] = k
    BY DEF ByteStream_write_Params
  <1> HIDE DEF msg, carried
  <1>5. Unpack(ByteStream_write_Params, msg, "chunk") = k
    BY <1>3, <1>4, RoundTrip, PointerStructs
  <1> QED BY <1>5 DEF msg

(* Every step of the session keeps what is under way a chunk or an end. *)
LEMMA StepWire ==
  ASSUME WireInv, Next \/ UNCHANGED vars
  PROVE  WireInv'
  <1> USE DEF WireInv
  <1>1. CASE UNCHANGED wire
    BY <1>1
  <1>2. ASSUME NEW s \in Streams, NEW c, wire' = [wire EXCEPT ![s] = c],
               c = NoCall \/ (\E k \in Chunks : Writes(c, k)) \/ Ends(c)
        PROVE  WireInv'
    <2>1. DOMAIN wire' = Streams /\ wire'[s] = c
      BY <1>2
    <2>2. \A p \in Streams \ {s} : wire'[p] = wire[p]
      BY <1>2
    <2> QED BY <1>2, <2>1, <2>2
  <1>3. ASSUME NEW s \in Streams, NEW k \in Chunks, PumpWrites(s, k) PROVE WireInv'
    <2> DEFINE c == Sent("ByteStream", "write", ByteStream_write_Params, [chunk |-> k])
    <2>1. wire' = [wire EXCEPT ![s] = c]
      BY <1>3 DEF PumpWrites
    <2>2. Writes(c, k)
      BY SentCall DEF Writes
    <2> HIDE DEF c
    <2> QED BY <1>2, <2>1, <2>2
  <1>4. ASSUME NEW s \in Streams, PumpDone(s) PROVE WireInv'
    <2> DEFINE c == Sent("ByteStream", "done", <<>>, <<>>)
    <2>1. wire' = [wire EXCEPT ![s] = c]
      BY <1>4 DEF PumpDone
    <2>2. Ends(c)
      BY SentCall DEF Ends
    <2> HIDE DEF c
    <2> QED BY <1>2, <2>1, <2>2
  <1>5. ASSUME NEW s \in Streams, HandleWrite(s) \/ HandleDone(s) PROVE WireInv'
    BY <1>2, <1>5 DEF HandleWrite, HandleDone
  <1>6. ASSUME wire' = [s \in Streams |-> NoCall] PROVE WireInv'
    BY <1>6
  <1>7. CASE Disconnect \/ \E s \in Streams : HandleWritePanics(s)
    BY <1>6, <1>7 DEF Disconnect, HandleWritePanics
  <1>8. CASE \/ \E r \in Requests : RunContainer(r)
             \/ CallCreate \/ CallStart \/ CallExitCode \/ ReturnOK \/ ReturnErr
    BY <1>1, <1>8 DEF RunContainer, CallCreate, CallStart, CallExitCode, ReturnOK, ReturnErr, ioVars
  <1>9. CASE \/ ServeContainerService \/ ServeCreate \/ ServeStart \/ ServeExitCode \/ ServeFails
             \/ ContainerExits \/ \E s \in Streams : PumpStops(s)
    BY <1>1, <1>9 DEF ServeContainerService, ServeCreate, ServeStart, ServeExitCode, ServeFails,
                      ContainerExits, PumpStops, ioVars
  <1>10. CASE ClientNext
    BY <1>3, <1>4, <1>5, <1>7, <1>8, <1>9, <1>10 DEF ClientNext
  <1> QED
    BY <1>1, <1>7, <1>10 DEF Next, BootStep, UseVM, vars, clientVars, ioVars

(* A write that does not panic, at the printer of its stream. *)
LEMMA WritePrints ==
  ASSUME ColShape, NEW s \in Streams, Printed(s), NEW k \in Chunks, run' = run,
         ~ WriteTo(s, s, k).panics, col'[s] = WriteTo(s, s, k).next
  PROVE  Printed(s)'
  <1> DEFINE f == col[s].fed
             buf == col[s].partial \o k
             n == Consumed(Scan(buf))
             out == col[s].printed \o Scan(buf)
             left == SubSeq(buf, n + 1, Len(buf))
  <1>1. k \in Seq(Byte) /\ f \in Seq(Byte)
    BY ClientConstants DEF Printed
  <1>2. /\ col'[s].fed = f \o k /\ col'[s].printed = out /\ col'[s].partial = left
        /\ ~ (n > Len(buf))
    <2>1. DOMAIN col[s] = {"fed", "from", "partial", "printed", "done"}
      BY DEF ColShape
    <2>2. \A a, b, p, q : LET w == [col[s] EXCEPT !.fed = a, !.from = b, !.printed = p, !.partial = q]
                         IN w.fed = a /\ w.printed = p /\ w.partial = q
      BY <2>1
    <2>3. /\ WriteTo(s, s, k).next = [col[s] EXCEPT !.fed = f \o k, !.from = col[s].from \cup {s},
                                                   !.printed = out, !.partial = left]
          /\ WriteTo(s, s, k).panics = (n > Len(buf))
      BY Zenon DEF WriteTo
    <2> HIDE DEF f, n, out, left, buf
    <2>4. /\ WriteTo(s, s, k).next.fed = f \o k /\ WriteTo(s, s, k).next.printed = out
          /\ WriteTo(s, s, k).next.partial = left
      BY <2>2, <2>3
    <2> QED BY <2>3, <2>4
  <1>3. f \o k \in Seq(Byte)
    BY <1>1, ConcatProperties
  <1>4. ASSUME run # "dead", NoReturn(f \o k)
        PROVE  /\ out = Split(f \o k).lines /\ Split(f \o k).rest = <<>>
               /\ left = <<>>
    <2>1. NoReturn(f)
      <3>1. /\ Len(f) \in Nat /\ Len(k) \in Nat /\ DOMAIN f = 1..Len(f)
            /\ DOMAIN (f \o k) = 1..(Len(f) + Len(k))
            /\ \A i \in 1..Len(f) : (f \o k)[i] = f[i]
        BY <1>1, ConcatProperties, LenProperties
      <3> QED BY <1>4, <3>1 DEF NoReturn
    <2>2. col[s].printed = Split(f).lines /\ Split(f).rest = <<>> /\ col[s].partial = <<>>
      BY <1>4, <2>1 DEF Printed
    <2>3. buf = k
      BY <1>1, <2>2, ConcatEmptySeq
    <2>4. ~ (Consumed(Scan(k)) > Len(k))
      BY <1>2, <2>3
    <2>5. /\ Split(f \o k).lines = Split(f).lines \o Scan(k)
          /\ Split(f \o k).rest = <<>>
          /\ SubSeq(k, Consumed(Scan(k)) + 1, Len(k)) = <<>>
      <3> HIDE DEF f
      <3> QED BY <1>1, <1>4, <2>2, <2>4, ChunkPrinted DEF NoReturn, f
    <2> QED BY <2>2, <2>3, <2>5
  <1> HIDE DEF f, out, left
  <1> QED BY <1>2, <1>3, <1>4 DEF Printed

(* Every step of the session keeps the printers true to what they were sent. *)
LEMMA StepPrint ==
  ASSUME StreamInv, PrintInv, Next \/ UNCHANGED vars
  PROVE  PrintInv'
  <1>1. WireInv'
    BY StepWire DEF PrintInv
  <1>2. ColShape /\ \A c \in Streams : Printed(c)
    BY DEF StreamInv, PrintInv
  <1>3. SUFFICES ASSUME NEW c \in Streams PROVE Printed(c)'
    BY <1>1 DEF PrintInv
  <1>4. ASSUME UNCHANGED col, run = "dead" => run' = "dead" PROVE Printed(c)'
    BY <1>2, <1>4 DEF Printed
  <1>5. ASSUME NEW s \in Streams, c # s, NEW w, col' = [col EXCEPT ![sink[s]] = w], sink[s] = s,
               run = "dead" => run' = "dead"
        PROVE  Printed(c)'
    <2>1. col'[c] = col[c]
      BY <1>2, <1>5 DEF ColShape
    <2> QED BY <1>2, <1>5, <2>1 DEF Printed
  <1>6. ASSUME NEW s \in Streams, wire[s] # NoCall PROVE sink[s] = s
    BY <1>6 DEF StreamInv, Idle, Connected
  <1>7. ASSUME NEW s \in Streams, HandleWrite(s) PROVE Printed(c)'
    <2> DEFINE k == Unpack(ByteStream_write_Params, wire[s].msg, "chunk")
    <2>1. /\ wire[s] # NoCall /\ Handler(wire[s]) = "write" /\ run' = run
          /\ ~ WriteTo(sink[s], s, k).panics
          /\ col' = [col EXCEPT ![sink[s]] = WriteTo(sink[s], s, k).next]
      BY <1>7 DEF HandleWrite, bootVars, hostVars
    <2>2. sink[s] = s
      BY <1>6, <2>1
    <2>3. k \in Chunks
      BY <2>1, WriteArrives DEF PrintInv
    <2> HIDE DEF k
    <2>4. CASE c = s
      <3>1. col'[s] = WriteTo(s, s, k).next /\ ~ WriteTo(s, s, k).panics
        BY <1>2, <2>1, <2>2 DEF ColShape
      <3>2. Printed(s)'
        BY <1>2, <2>1, <2>3, <3>1, WritePrints
      <3> QED BY <2>4, <3>2
    <2>5. CASE c # s
      BY <1>5, <2>1, <2>2, <2>5
    <2> QED BY <2>4, <2>5
  <1>8. ASSUME NEW s \in Streams, HandleWritePanics(s) PROVE Printed(c)'
    <2> DEFINE k == Unpack(ByteStream_write_Params, wire[s].msg, "chunk")
    <2>1. /\ wire[s] # NoCall /\ Handler(wire[s]) = "write" /\ run' = "dead"
          /\ col' = [col EXCEPT ![sink[s]] = WriteTo(sink[s], s, k).next]
      BY <1>8 DEF HandleWritePanics
    <2>2. sink[s] = s
      BY <1>6, <2>1
    <2>3. k \in Chunks
      BY <2>1, WriteArrives DEF PrintInv
    <2> HIDE DEF k
    <2>4. CASE c = s
      <3>1. DOMAIN col[s] = {"fed", "from", "partial", "printed", "done"}
        BY DEF StreamInv, ColShape
      <3>2. \A a, b, p, q : [col[s] EXCEPT !.fed = a, !.from = b, !.printed = p, !.partial = q].fed = a
        BY <3>1
      <3>3. WriteTo(s, s, k).next.fed = col[s].fed \o k
        <4>1. PICK a, b, p, q : WriteTo(s, s, k).next =
                [col[s] EXCEPT !.fed = a, !.from = b, !.printed = p, !.partial = q]
                /\ a = col[s].fed \o k
          BY Zenon DEF WriteTo
        <4> QED BY <3>2, <4>1
      <3>4. col'[s].fed = col[s].fed \o k
        BY <1>2, <2>1, <2>2, <3>3 DEF ColShape
      <3>5. col[s].fed \o k \in Seq(Byte)
        BY <1>2, <2>3, ClientConstants, ConcatProperties DEF Printed
      <3> QED BY <2>1, <2>4, <3>4, <3>5 DEF Printed
    <2>5. CASE c # s
      BY <1>5, <2>1, <2>2, <2>5
    <2> QED BY <2>4, <2>5
  <1>9. ASSUME NEW s \in Streams, HandleDone(s) PROVE Printed(c)'
    <2>1. /\ wire[s] # NoCall /\ run' = run
          /\ col' = [col EXCEPT ![sink[s]] = DoneTo(sink[s], s)]
      BY <1>9 DEF HandleDone, bootVars, hostVars
    <2>2. sink[s] = s
      BY <1>6, <2>1
    <2>3. CASE c = s
      <3>1. DOMAIN col[s] = {"fed", "from", "partial", "printed", "done"}
        BY DEF StreamInv, ColShape
      <3>2. \A a, b, p, q : LET w == [col[s] EXCEPT !.printed = a, !.partial = b, !.from = p, !.done = q]
                           IN w.fed = col[s].fed /\ w.printed = a /\ w.partial = b
        BY <3>1
      <3>3. DoneTo(s, s) =
              [col[s] EXCEPT !.printed = IF col[s].partial = <<>> THEN col[s].printed
                                         ELSE Append(col[s].printed, col[s].partial),
                             !.partial = <<>>, !.from = col[s].from \cup {s}, !.done = TRUE]
        BY Zenon DEF DoneTo
      <3>4. /\ DoneTo(s, s).fed = col[s].fed /\ DoneTo(s, s).partial = <<>>
            /\ col[s].partial = <<>> => DoneTo(s, s).printed = col[s].printed
        BY <3>2, <3>3
      <3>5. col'[s] = DoneTo(s, s)
        BY <1>2, <2>1, <2>2 DEF ColShape
      <3> QED BY <1>2, <2>1, <2>3, <3>4, <3>5 DEF Printed
    <2>4. CASE c # s
      BY <1>5, <2>1, <2>2, <2>4
    <2> QED BY <2>3, <2>4
  <1>10. ASSUME NEW s \in Streams,
                (\E chunk \in Chunks : PumpWrites(s, chunk)) \/ PumpDone(s) \/ PumpStops(s)
         PROVE  Printed(c)'
    BY <1>4, <1>10 DEF PumpWrites, PumpDone, PumpStops, bootVars, hostVars
  <1>11. CASE \/ \E r \in Requests : RunContainer(r)
              \/ CallCreate \/ CallStart \/ CallExitCode \/ ReturnOK \/ ReturnErr
    BY <1>4, <1>11 DEF RunContainer, CallCreate, CallStart, CallExitCode, ReturnOK, ReturnErr,
                       ioVars, bootVars, hostVars
  <1>12. CASE \/ ServeContainerService \/ ServeCreate \/ ServeStart \/ ServeExitCode \/ ServeFails
              \/ ContainerExits
    BY <1>4, <1>12 DEF ServeContainerService, ServeCreate, ServeStart, ServeExitCode, ServeFails,
                       ContainerExits, ioVars, bootVars, hostVars
  <1>13. CASE ClientNext
    BY <1>7, <1>8, <1>9, <1>10, <1>11, <1>12, <1>13 DEF ClientNext
  <1>14. CASE BootStep
    BY <1>4, <1>14, DeadStays DEF BootStep, Disconnect, clientVars, ioVars
  <1>15. CASE NetworkNext /\ UNCHANGED clientVars
    <2>1. run' = run
      BY <1>15 DEF NetworkNext, GetNetwork, ConfigureInterface, SetAddress, SetUp, SetRoute,
                   ConfigureFails, bootVars, hostVars
    <2> QED BY <1>4, <1>15, <2>1 DEF clientVars, ioVars
  <1>16. CASE DebugNext /\ UNCHANGED clientVars
    <2>1. run' = run
      BY <1>16 DEF DebugNext, GetDebug, Ping, OpenByteStream, StartBenchmark, BenchDials,
                   BenchWrites, BenchFails, BenchDone, bootVars, hostVars
    <2> QED BY <1>4, <1>16, <2>1 DEF clientVars, ioVars
  <1>17. CASE UNCHANGED vars
    BY <1>4, <1>17 DEF vars, clientVars, ioVars, bootVars, hostVars
  <1> QED
    BY <1>13, <1>14, <1>15, <1>16, <1>17 DEF Next, UseVM
-----------------------------------------------------------------------------
(* The whole session *)

(* Where a configuration call may be. *)
NetTypes ==
  /\ \A n \in NetCalls : net[n].pc \in {"none", "failed", "done"} \cup Calling
  /\ up \in BOOLEAN

(* Where the calls are before they begin. *)
LEMMA InitNetTypes == ServicesInit => NetTypes
  <1> SUFFICES ASSUME ServicesInit PROVE NetTypes
    OBVIOUS
  <1>1. net = [n \in NetCalls |-> [pc |-> "none", args |-> NoArgs]] /\ up = FALSE
    BY DEF ServicesInit
  <1>2. \A n \in NetCalls : net[n].pc = "none"
    BY <1>1
  <1> QED BY <1>1, <1>2 DEF NetTypes

(* A call goes only where its handler has a step. *)
LEMMA StepNetTypes ==
  ASSUME NetInv, NetTypes, Next \/ UNCHANGED vars
  PROVE  NetTypes'
  <1> USE DEF NetTypes
  <1>1. CASE UNCHANGED netVars
    BY <1>1 DEF netVars
  <1>2. ASSUME NEW n \in NetCalls, NEW label \in {"up", "route", "done", "failed"},
               Goto(n, label), up' \in BOOLEAN
        PROVE  NetTypes'
    BY <1>2, GotoMoves DEF NetInv, Calling
  <1>3. ASSUME NEW n \in NetCalls, NEW a \in NetArgs, ConfigureInterface(n, a)
        PROVE  NetTypes'
    <2>1. PICK p \in {"failed", "addr"} :
            \E b : net' = [net EXCEPT ![n] = [pc |-> p, args |-> b]]
      BY <1>3, Zenon DEF ConfigureInterface
    <2>2. up' = up
      BY <1>3 DEF ConfigureInterface
    <2>3. net'[n].pc = p /\ \A m \in NetCalls \ {n} : net'[m] = net[m]
      BY <2>1 DEF NetInv, NetShape
    <2> QED BY <2>2, <2>3 DEF Calling
  <1>4. ASSUME NEW n \in NetCalls, SetAddress(n) \/ SetUp(n) \/ SetRoute(n) \/ ConfigureFails(n)
        PROVE  NetTypes'
    BY <1>2, <1>4 DEF SetAddress, SetUp, SetRoute, ConfigureFails
  <1>5. CASE NetworkNext
    BY <1>1, <1>3, <1>4, <1>5 DEF NetworkNext, GetNetwork
  <1> QED
    BY <1>1, <1>5, DebugLeavesNet DEF Next, BootStep, UseVM, vars, serviceVars

(* What is known of RunContainer at any time. *)
ClientInv == CallInv /\ ResultInv /\ StreamInv /\ RefInv /\ PrintInv

(* RunContainer has not been called. *)
LEMMA InitClient == ClientInit => ClientInv
  <1> SUFFICES ASSUME ClientInit PROVE ClientInv
    OBVIOUS
  <1>1. CallInv
    BY DEF ClientInit, CallInv, CallShape, Steps
  <1>2. ResultInv
    BY DEF ClientInit, ResultInv
  <1>3. StreamInv
    BY DEF ClientInit, StreamInv, Idle, ColShape, Collector
  <1>4. RefInv
    BY DEF ClientInit, RefInv, RefNames, HostHolds, ArgsHold, PumpsHold
  <1>5. PrintInv
    <2>1. ASSUME NEW c \in Streams PROVE Printed(c)
      <3>1. col[c].fed = <<>> /\ col[c].printed = <<>> /\ col[c].partial = <<>>
        BY DEF ClientInit, Collector
      <3>2. Split(<<>>).lines = <<>> /\ Split(<<>>).rest = <<>>
        BY SplitEmpty DEF NoText
      <3>3. <<>> \in Seq(Byte)
        BY EmptySeq
      <3> QED BY <3>1, <3>2, <3>3 DEF Printed
    <2>2. WireInv
      BY DEF ClientInit, WireInv
    <2> QED BY <2>1, <2>2 DEF PrintInv
  <1> QED BY <1>1, <1>2, <1>3, <1>4, <1>5 DEF ClientInv

(* All of it: the inductive invariant. *)
SessionInv ==
  /\ BootInv /\ ConfigInv
  /\ ClientInv
  /\ NetInv /\ NetTypes /\ AnswerInv

(* The inductive invariant of the session: what its three parts keep.      *)
LEMMA SessionInvariant == Spec => []SessionInv
  <1>1. Init => SessionInv
    BY InitBoot, InitConfig, InitClient, InitNet, InitNetTypes, InitAnswer
      DEF Init, SessionInv
  <1>2. SessionInv /\ [Next]_vars => SessionInv'
    <2> SUFFICES ASSUME SessionInv, Next \/ UNCHANGED vars PROVE SessionInv'
      OBVIOUS
    <2>1. BootInv' /\ ConfigInv'
      BY StepBoot, StepConfig DEF SessionInv
    <2>2. ClientInv'
      BY StepCall, StepResult, StepStream, StepRefs, StepPrint DEF SessionInv, ClientInv
    <2>3. NetInv' /\ NetTypes' /\ AnswerInv'
      BY StepNet, StepNetTypes, StepAnswer DEF SessionInv
    <2> QED BY <2>1, <2>2, <2>3 DEF SessionInv
  <1> QED BY <1>1, <1>2, PTL DEF Spec
-----------------------------------------------------------------------------
(* Every variable of boot, RunContainer and the services keeps its type:   *)
(* no call, pump or reference is ever in a state the code does not know.   *)
THEOREM SessionTypeOK == Spec => []TypeOK
  <1>1. SessionInv => BootTypeOK
    BY DEF SessionInv, BootInv
  <1>2. SessionInv => ClientTypeOK
    <2> SUFFICES ASSUME SessionInv PROVE ClientTypeOK
      OBVIOUS
    <2>1. call.phase \in {"none", "sent", "ok", "err"}
      BY DEF SessionInv, ClientInv, CallInv, CallShape, NoCall
    <2>2. hpc \in {"idle", "containerService", "create", "start", "exitCode", "returned"}
      BY DEF SessionInv, ClientInv, CallInv, Steps
    <2> QED BY <2>1, <2>2 DEF SessionInv, ClientInv, StreamInv, RefInv, RefNames, ClientTypeOK
  <1>3. SessionInv => ServicesTypeOK
    BY DEF SessionInv, NetTypes, Calling, AnswerInv, ServicesTypeOK
  <1> QED BY <1>1, <1>2, <1>3, SessionInvariant, PTL DEF TypeOK

(* The host speaks RPC on the first connection it was handed on the        *)
(* agent's port and never on another one, for every configuration and      *)
(* however often the agent reconnects, whatever vmmanager loses or breaks. *)
THEOREM SessionOne == Spec => []OneSession
  <1>1. SessionInv => OneSession
    BY OneSessionFollows DEF SessionInv
  <1> QED BY <1>1, SessionInvariant, PTL

(* vmmanager works with the configuration Run was given, for every one     *)
(* that passes Run's own checks and every set of the launcher's flags: what*)
(* is left unsaid on its command line it fills in as it was meant.         *)
THEOREM SessionCarries == Spec => []ConfigCarried
  <1>1. SessionInv => ConfigCarried
    BY CarriedFollows DEF SessionInv
  <1> QED BY <1>1, SessionInvariant, PTL

(* The agent finds the container's rootfs where the launcher tells it to   *)
(* look, although the two take the path from different places.             *)
THEOREM SessionRootfsFound == Spec => []SharedRootfsFound
  <1>1. SessionInv => SharedRootfsFound
    BY RootfsFoundFollows DEF SessionInv
  <1> QED BY <1>1, SessionInvariant, PTL

(* Whatever RunContainer is asked to run reaches containerServer field by  *)
(* field, each stream's output reaches its own printer, and what the host  *)
(* reads in an answer is what the handler has put there.                   *)
THEOREM SessionArguments == Spec => []ArgumentsArrive
  <1>1. SessionInv => ArgumentsArrive
    BY DEF SessionInv, ClientInv, ResultInv, StreamInv, AnswerInv, ArgumentsArrive,
           ContainerArgumentsArrive
  <1> QED BY <1>1, SessionInvariant, PTL

(* RunContainer returns an exit code only when the container has exited,   *)
(* and then its own, whichever call failed or was given up on before and   *)
(* wherever the session ended.                                             *)
THEOREM SessionResult == Spec => []ResultTruthful
  <1>1. SessionInv => ResultTruthful
    BY DEF SessionInv, ClientInv, ResultInv, ResultTruthful
  <1> QED BY <1>1, SessionInvariant, PTL

(* The agent holds the ByteStream a pump of its may still write to, also   *)
(* when RunContainer has given its own reference up before.                *)
THEOREM SessionPumpHolds == Spec => []PumpHoldsStream
  <1>1. SessionInv => PumpHoldsStream
    <2> SUFFICES ASSUME SessionInv, NEW s \in Streams, pump[s] \in {"run", "done"}
                 PROVE  s \in refs[sink[s]]
      BY DEF PumpHoldsStream
    <2>1. sink[s] = s
      BY DEF SessionInv, ClientInv, StreamInv, Idle, Connected
    <2> QED BY <2>1, NamesApart DEF SessionInv, ClientInv, RefInv, PumpsHold
  <1> QED BY <1>1, SessionInvariant, PTL

(* However RunContainer ends (a code, an error of any call, its timeout,   *)
(* the end of the session), once its pumps have ended nobody holds any of  *)
(* its capabilities.                                                       *)
THEOREM SessionNothingLeaked == Spec => []NothingLeaked
  <1>1. SessionInv => NothingLeaked
    <2> SUFFICES ASSUME SessionInv, hpc = "returned", call = NoCall,
                        \A s \in Streams : pump[s] \in {"none", "ended"}, NEW c \in Caps
                 PROVE  refs[c] = {}
      BY DEF NothingLeaked
    <2>1. refs[c] \subseteq RefNames
      BY DEF SessionInv, ClientInv, RefInv
    <2>2. "host" \notin refs[c] /\ "results" \notin refs[c]
      BY DEF SessionInv, ClientInv, RefInv, HostHolds
    <2>3. "args" \notin refs[c]
      BY DEF SessionInv, ClientInv, RefInv, ArgsHold, NoCall
    <2>4. \A s \in Streams : s \notin refs[c]
      BY DEF SessionInv, ClientInv, RefInv, PumpsHold
    <2> QED BY <2>1, <2>2, <2>3, <2>4 DEF RefNames
  <1> QED BY <1>1, SessionInvariant, PTL

(* While its output has no carriage return in it and the host lives, the   *)
(* host has printed exactly the lines a stream was sent, and holds nothing *)
(* back: whatever the container writes, however it is cut into chunks.     *)
THEOREM SessionLines == Spec => []LinesFaithful
  <1>1. SessionInv => LinesFaithful
    <2> SUFFICES ASSUME SessionInv, NEW c \in Streams, run # "dead",
                        \A i \in DOMAIN col[c].fed : col[c].fed[i] # CR
                 PROVE  col[c].printed = Split(col[c].fed).lines /\ Split(col[c].fed).rest = <<>>
      BY DEF LinesFaithful
    <2>1. Printed(c) /\ NoReturn(col[c].fed)
      BY DEF SessionInv, ClientInv, PrintInv, NoReturn
    <2> QED BY <2>1 DEF Printed
  <1> QED BY <1>1, SessionInvariant, PTL

(* However ConfigureInterface calls interleave, fail or overlap, there is  *)
(* no default route without an address on an interface that is up.         *)
THEOREM SessionRouteUsable == Spec => []RouteUsable
  <1>1. SessionInv => RouteUsable
    BY DEF SessionInv, NetInv
  <1> QED BY <1>1, SessionInvariant, PTL

(* The last of any number of ConfigureInterface calls that did not overlap *)
(* leaves its own address and gateway when it succeeds.                    *)
THEOREM SessionConfigured == Spec => []ConfiguredUnlessOverlap
  <1>1. SessionInv => ConfiguredUnlessOverlap
    BY DEF SessionInv, NetInv
  <1> QED BY <1>1, SessionInvariant, PTL
-----------------------------------------------------------------------------
(* The refinement of AbstractRun *)

At(m) == call # NoCall /\ Asks(call, req, m)

(* How far RunContainer has come: nothing is made before the create call   *)
(* is served, nothing runs before the start call is.                       *)
OrderInv ==
  /\ hpc = "idle" => req = Nothing /\ proc = "none"
  /\ At("containerService") => got = Nothing
  /\ At("create") => proc = "none" /\ (got # Nothing <=> call.phase = "ok")
  /\ At("start") => got # Nothing /\ (proc # "none" <=> call.phase = "ok")
  /\ At("exitCode") => got # Nothing
  /\ proc # "none" => got # Nothing

(* Nothing is on a stream before the container runs, and nothing follows   *)
(* the done that comes after its end.                                      *)
EndInv ==
  \A s \in Streams :
    /\ pump[s] # "none" \/ wire[s] # NoCall => proc # "none"
    /\ pump[s] = "done" \/ (wire[s] # NoCall /\ Ends(wire[s])) \/ col[s].done => proc = "exited"
    /\ col[s].done => pump[s] = "ended" /\ wire[s] = NoCall

(* What a printer has shown is lines of bytes, what it holds back is bytes. *)
TextOf(c) == c.partial \in Seq(Byte) /\ c.printed \in Seq(Seq(Byte)) /\ c.done \in BOOLEAN
TextInv == \A s \in Streams : TextOf(col[s])

ProgressInv == OrderInv /\ EndInv /\ TextInv

(* A call is of one method only. *)
LEMMA OneMethod ==
  ASSUME NEW c, NEW r, NEW m \in Steps, Asks(c, r, m), NEW k \in Steps, k # m
  PROVE  ~ Asks(c, r, k)
  <1>1. Handler(c) = m
    BY AsksHandler
  <1>2. Asks(c, r, k) => Handler(c) = k
    BY AsksHandler
  <1> QED BY <1>1, <1>2

(* A call that was answered is the same call. *)
LEMMA AnsweredCall ==
  ASSUME CallInv, call.phase = "sent", req' = req, NEW p \in {"ok", "err"},
         \/ p = "ok" /\ \E fields, values : call' = Answered(fields, values)
         \/ p = "err" /\ call' = IF call.kept THEN [call EXCEPT !.phase = "err"] ELSE NoCall
  PROVE  \A m \in Steps : At(m)' => At(m) /\ call'.phase = p
  <1>1. call # NoCall /\ CallShape(call)
    BY DEF NoCall, CallInv
  <1>2. ASSUME NEW d, call' = IF call.kept THEN d ELSE NoCall,
               d.iface = call.iface, d.id = call.id, d.msg = call.msg, d.phase = p
        PROVE  \A m \in Steps : At(m)' => At(m) /\ call'.phase = p
    <2>1. ASSUME NEW m \in Steps, At(m)' PROVE At(m) /\ call'.phase = p
      <3>1. call' = d
        BY <1>2, <2>1 DEF At
      <3>2. Asks(d, req, m)
        BY <2>1, <3>1 DEF At
      <3>3. Asks(call, req, m)
        BY <1>2, <3>2 DEF Asks, Is
      <3> QED BY <1>1, <1>2, <3>1, <3>3 DEF At
    <2> QED BY <2>1
  <1>3. ASSUME NEW fields, NEW values, p = "ok", call' = Answered(fields, values)
        PROVE  \A m \in Steps : At(m)' => At(m) /\ call'.phase = p
    <2> DEFINE x == Answer(call, fields, values)
               d == [call EXCEPT !.phase = "ok", !.res = x]
    <2>1. call' = IF call.kept THEN d ELSE NoCall
      BY <1>3 DEF Answered
    <2> HIDE DEF x
    <2>2. \A y : LET e == [call EXCEPT !.phase = "ok", !.res = y] IN
            /\ CallShape(e) /\ e # NoCall /\ e.phase = "ok" /\ e.kept = call.kept
            /\ e.iface = call.iface /\ e.id = call.id /\ e.msg = call.msg /\ e.res = y
      BY <1>1, CallDone, Zenon
    <2>3. d.iface = call.iface /\ d.id = call.id /\ d.msg = call.msg /\ d.phase = "ok"
      BY <2>2, Zenon
    <2> HIDE DEF d
    <2> QED BY <1>2, <1>3, <2>1, <2>3
  <1>4. ASSUME p = "err", call' = IF call.kept THEN [call EXCEPT !.phase = "err"] ELSE NoCall
        PROVE  \A m \in Steps : At(m)' => At(m) /\ call'.phase = p
    <2> DEFINE d == [call EXCEPT !.phase = "err"]
    <2>1. d.iface = call.iface /\ d.id = call.id /\ d.msg = call.msg /\ d.phase = "err"
      BY <1>1, CallMoves
    <2> HIDE DEF d
    <2> QED BY <1>2, <1>4, <2>1 DEF d
  <1> QED BY <1>3, <1>4

(* The first step of a run, or of the next call: where it leads. *)
LEMMA SentAt ==
  ASSUME NEW m \in Steps, call'.phase = "sent", Asks(call', req', m),
         m = "containerService" => got' = Nothing,
         m = "create" => proc' = "none" /\ got' = Nothing,
         m = "start" => got' # Nothing /\ proc' = "none",
         m = "exitCode" => got' # Nothing,
         hpc' = m, proc' # "none" => got' # Nothing
  PROVE  OrderInv'
  <1>1. \A k \in Steps : k # m => ~ At(k)'
    BY OneMethod DEF At
  <1> QED BY <1>1 DEF OrderInv, Steps

(* The steps of RunContainer itself. *)
LEMMA StepOrderHost ==
  ASSUME CallInv, ResultInv, OrderInv,
         \/ \E r \in Requests : RunContainer(r)
         \/ CallCreate \/ CallStart \/ CallExitCode \/ ReturnOK \/ ReturnErr
  PROVE  OrderInv'
  <1>1. ASSUME NEW r \in Requests, RunContainer(r) PROVE OrderInv'
    <2>1. /\ call' = Sent("Agent", "containerService", <<>>, <<>>)
          /\ hpc' = "containerService" /\ hpc = "idle" /\ UNCHANGED <<got, proc>>
      BY <1>1 DEF RunContainer
    <2>2. Asks(call', req', "containerService") /\ call'.phase = "sent"
      BY <2>1, SentCall DEF Asks
    <2>3. got = Nothing /\ proc = "none"
      BY <2>1 DEF ResultInv, OrderInv
    <2> QED BY <2>1, <2>2, <2>3, SentAt DEF Steps
  <1>2. ASSUME NEW m \in Steps, hpc = m PROVE At(m)
    BY <1>2 DEF CallInv, At
  <1>3. CASE CallCreate
    <2>1. /\ call' = Sent("ContainerService", "create", ContainerService_create_Params, req)
          /\ hpc' = "create" /\ hpc = "containerService" /\ UNCHANGED <<req, got, proc>>
      BY <1>3 DEF CallCreate
    <2>2. Asks(call', req', "create") /\ call'.phase = "sent"
      BY <2>1, SentCall DEF Asks
    <2>3. got = Nothing /\ proc = "none"
      BY <1>2, <2>1 DEF OrderInv, Steps
    <2> QED BY <2>1, <2>2, <2>3, SentAt DEF Steps
  <1>4. CASE CallStart
    <2>1. /\ call' = Sent("Container", "start", Container_start_Params, Outputs)
          /\ hpc' = "start" /\ hpc = "create" /\ call.phase = "ok" /\ UNCHANGED <<req, got, proc>>
      BY <1>4 DEF CallStart, Outputs
    <2>2. Asks(call', req', "start") /\ call'.phase = "sent"
      BY <2>1, SentCall DEF Asks
    <2>3. got # Nothing /\ proc = "none"
      BY <1>2, <2>1 DEF OrderInv, Steps
    <2> QED BY <2>1, <2>2, <2>3, SentAt DEF Steps
  <1>5. CASE CallExitCode
    <2>1. /\ call' = Sent("Task", "exitCode", <<>>, <<>>)
          /\ hpc' = "exitCode" /\ hpc = "start" /\ UNCHANGED <<req, got, proc>>
      BY <1>5 DEF CallExitCode
    <2>2. Asks(call', req', "exitCode") /\ call'.phase = "sent"
      BY <2>1, SentCall DEF Asks
    <2>3. got # Nothing
      BY <1>2, <2>1 DEF OrderInv, Steps
    <2> QED BY <2>1, <2>2, <2>3, SentAt DEF Steps
  <1>6. CASE ReturnOK
    BY <1>6 DEF ReturnOK, OrderInv, At
  <1>7. CASE ReturnErr
    <2>1. hpc \in Steps /\ hpc' = "returned" /\ UNCHANGED <<req, got, proc>>
      BY <1>7 DEF ReturnErr, Steps
    <2>2. call # NoCall /\ CallShape(call)
      BY <2>1 DEF CallInv
    <2>3. CASE call.phase = "sent"
      <3>1. call' = [call EXCEPT !.kept = FALSE]
        BY <1>7, <2>3 DEF ReturnErr
      <3>2. /\ call'.phase = "sent"
            /\ call'.iface = call.iface /\ call'.id = call.id /\ call'.msg = call.msg
        BY <2>2, <2>3, <3>1, CallMoves
      <3>3. \A m \in Steps : Asks(call', req, m) => Asks(call, req, m)
        BY <3>2 DEF Asks, Is
      <3>4. \A m \in Steps : At(m)' => At(m)
        BY <2>1, <2>2, <3>3 DEF At
      <3> QED BY <2>1, <2>3, <3>2, <3>4 DEF OrderInv, Steps
    <2>4. CASE call.phase # "sent"
      BY <1>7, <2>1, <2>4 DEF ReturnErr, OrderInv, At
    <2> QED BY <2>3, <2>4
  <1> QED BY <1>1, <1>3, <1>4, <1>5, <1>6, <1>7

(* Every step of the session keeps RunContainer's calls in their order. *)
LEMMA StepOrder ==
  ASSUME CallInv, ResultInv, OrderInv, Next \/ UNCHANGED vars
  PROVE  OrderInv'
  <1>1. CASE UNCHANGED <<rpcVars, got, proc>>
    BY <1>1 DEF rpcVars, OrderInv, At
  <1>2. call.phase = "sent" => hpc # "idle"
    BY DEF CallInv, NoCall
  <1>3. CASE \/ ServeContainerService \/ ServeExitCode
    <2>1. /\ call.phase = "sent" /\ Handler(call) \in {"containerService", "exitCode"}
          /\ UNCHANGED <<hpc, req, got, proc>>
          /\ \E fields, values : call' = Answered(fields, values)
      BY <1>3, Zenon DEF ServeContainerService, ServeExitCode, Answered
    <2>2. \A m \in Steps : At(m)' => At(m)
      BY <2>1, AnsweredCall
    <2>3. \A m \in Steps : At(m) => m \in {"containerService", "exitCode"}
      BY <2>1, AsksHandler DEF At
    <2> QED BY <1>2, <2>1, <2>2, <2>3 DEF OrderInv, Steps
  <1>4. CASE ServeCreate
    <2>1. call.phase = "sent" /\ Handler(call) = "create" /\ UNCHANGED <<hpc, req, proc>>
      BY <1>4 DEF ServeCreate
    <2>2. \E fields, values : call' = Answered(fields, values)
      BY <1>4, Zenon DEF ServeCreate
    <2>3. \A m \in Steps : At(m)' => At(m) /\ call'.phase = "ok"
      BY <2>1, <2>2, AnsweredCall
    <2>4. \A m \in Steps : At(m) => m = "create"
      BY <2>1, AsksHandler DEF At
    <2>5. got' # Nothing
      BY <1>4, MadeAsAsked
    <2>6. At("create")
      BY <2>1, ServedMethod DEF At, NoCall, Steps
    <2> QED BY <1>2, <2>1, <2>3, <2>4, <2>5, <2>6 DEF OrderInv, Steps
  <1>5. CASE ServeStart
    <2>1. call.phase = "sent" /\ Handler(call) = "start" /\ UNCHANGED <<hpc, req, got>>
          /\ proc' = "running"
      BY <1>5 DEF ServeStart
    <2>2. \E fields, values : call' = Answered(fields, values)
      BY <1>5, Zenon DEF ServeStart
    <2>3. \A m \in Steps : At(m)' => At(m) /\ call'.phase = "ok"
      BY <2>1, <2>2, AnsweredCall
    <2>4. \A m \in Steps : At(m) => m = "start"
      BY <2>1, AsksHandler DEF At
    <2>5. At("start")
      BY <2>1, ServedMethod DEF At, NoCall, Steps
    <2> QED BY <1>2, <2>1, <2>3, <2>4, <2>5 DEF OrderInv, Steps
  <1>6. ASSUME call.phase = "sent", UNCHANGED <<hpc, req, got, proc>>,
               call' = IF call.kept THEN [call EXCEPT !.phase = "err"] ELSE NoCall
        PROVE  OrderInv'
    <2>1. \A m \in Steps : At(m)' => At(m) /\ call'.phase = "err"
      BY <1>6, AnsweredCall
    <2> QED BY <1>2, <1>6, <2>1 DEF OrderInv, Steps
  <1>7. CASE ServeFails
    BY <1>6, <1>7 DEF ServeFails
  <1>8. CASE ContainerExits
    BY <1>8 DEF ContainerExits, rpcVars, OrderInv, At
  <1>9. CASE Disconnect
    BY <1>1, <1>6, <1>9 DEF Disconnect, rpcVars
  <1>10. ASSUME NEW s \in Streams,
                \/ \E chunk \in Chunks : PumpWrites(s, chunk)
                \/ PumpDone(s) \/ PumpStops(s)
                \/ HandleWrite(s) \/ HandleWritePanics(s) \/ HandleDone(s)
         PROVE  UNCHANGED <<rpcVars, got, proc>>
    BY <1>10 DEF PumpWrites, PumpDone, PumpStops, HandleWrite, HandleWritePanics, HandleDone
  <1>11. CASE ClientNext
    BY <1>1, <1>3, <1>4, <1>5, <1>7, <1>8, <1>10, <1>11, StepOrderHost DEF ClientNext
  <1> QED
    BY <1>1, <1>9, <1>11 DEF Next, BootStep, UseVM, vars, clientVars

(* A call on a stream is a write or the done, not both. *)
LEMMA WriteIsNotEnd ==
  ASSUME NEW c
  PROVE  /\ \A k : Writes(c, k) => Handler(c) = "write" /\ ~ Ends(c)
         /\ Ends(c) => Handler(c) = "done"
  <1>1. ASSUME NEW k, Writes(c, k) PROVE Handler(c) = "write"
    BY <1>1, MethodTable DEF Writes, Is, Reaches
  <1>2. ASSUME Ends(c) PROVE Handler(c) = "done"
    BY <1>2, MethodTable DEF Ends, Is, Reaches
  <1> QED BY <1>1, <1>2

(* What serving a write makes of its printer. *)
LEMMA WrittenText ==
  ASSUME ColShape, NEW s \in Streams, TextOf(col[s]), NEW k \in Seq(Byte),
         NEW w, w = WriteTo(s, s, k).next
  PROVE  /\ TextOf(w) /\ w.done = col[s].done
         /\ \E n \in 0..Len(w.printed) : col[s].printed = SubSeq(w.printed, 1, n)
  <1> DEFINE buf == col[s].partial \o k
             n == Consumed(Scan(buf))
             out == col[s].printed \o Scan(buf)
             left == SubSeq(buf, n + 1, Len(buf))
  <1>1. w.printed = out /\ w.partial = left /\ w.done = col[s].done
    <2>1. DOMAIN col[s] = {"fed", "from", "partial", "printed", "done"}
      BY DEF ColShape
    <2>2. \A a, b, p, q : LET v == [col[s] EXCEPT !.fed = a, !.from = b, !.printed = p, !.partial = q]
                         IN v.done = col[s].done /\ v.printed = p /\ v.partial = q
      BY <2>1
    <2>3. WriteTo(s, s, k).next = [col[s] EXCEPT !.fed = col[s].fed \o k, !.from = col[s].from \cup {s},
                                                 !.printed = out, !.partial = left]
      BY Zenon DEF WriteTo
    <2> HIDE DEF n, out, left, buf
    <2> QED BY <2>2, <2>3
  <1>2. buf \in Seq(Byte)
    BY ConcatProperties DEF TextOf
  <1>3. n \in Nat /\ Scan(buf) \in Seq(Seq(Byte)) /\ Len(buf) \in Nat
    <2> HIDE DEF buf
    <2> QED BY <1>2, ScanType, LenProperties
  <1>4. left \in Seq(Byte)
    <2> HIDE DEF buf, n
    <2>1. \A i \in (n + 1)..Len(buf) : buf[i] \in Byte
      BY <1>2, <1>3, ElementOfSeq
    <2>2. SubSeq(buf, n + 1, Len(buf)) \in Seq(Byte)
      BY <1>2, <1>3, <2>1, SubSeqProperties
    <2> QED BY <2>2 DEF left
  <1>5. out \in Seq(Seq(Byte)) /\ \E m \in 0..Len(out) : col[s].printed = SubSeq(out, 1, m)
    <2> DEFINE more == Scan(buf)
    <2>1. more \in Seq(Seq(Byte)) /\ col[s].printed \in Seq(Seq(Byte))
      BY <1>3 DEF TextOf
    <2> HIDE DEF more
    <2>2. col[s].printed \o more \in Seq(Seq(Byte))
      BY <2>1, ConcatProperties
    <2>3. \E m \in 0..Len(col[s].printed \o more) :
            col[s].printed = SubSeq(col[s].printed \o more, 1, m)
      BY <2>1, Continued
    <2> QED BY <2>2, <2>3 DEF more
  <1> HIDE DEF out, left
  <1> QED BY <1>1, <1>4, <1>5 DEF TextOf

(* What serving done makes of its printer. *)
LEMMA EndedText ==
  ASSUME ColShape, NEW s \in Streams, TextOf(col[s]), NEW w, w = DoneTo(s, s)
  PROVE  /\ TextOf(w) /\ w.done = TRUE
         /\ \E n \in 0..Len(w.printed) : col[s].printed = SubSeq(w.printed, 1, n)
  <1> DEFINE old == col[s].printed
             out == IF col[s].partial = <<>> THEN old ELSE Append(old, col[s].partial)
             e == <<>>
  <1>1. w.printed = out /\ w.partial = e /\ w.done = TRUE
    <2>1. DOMAIN col[s] = {"fed", "from", "partial", "printed", "done"}
      BY DEF ColShape
    <2>2. \A a, b, p, q : LET v == [col[s] EXCEPT !.printed = a, !.partial = b, !.from = p, !.done = q]
                         IN v.done = q /\ v.printed = a /\ v.partial = b
      BY <2>1
    <2>3. DoneTo(s, s) = [col[s] EXCEPT !.printed = out, !.partial = e,
                                        !.from = col[s].from \cup {s}, !.done = TRUE]
      BY Zenon DEF DoneTo
    <2> HIDE DEF out, e
    <2> QED BY <2>2, <2>3
  <1>2. e \in Seq(Byte)
    BY EmptySeq
  <1>3. old \in Seq(Seq(Byte)) /\ col[s].partial \in Seq(Byte)
    BY DEF TextOf
  <1> HIDE DEF old
  <1>4. out \in Seq(Seq(Byte))
    BY <1>3, AppendProperties
  <1>5. CASE out = Append(old, col[s].partial)
    <2>1. \E n \in 0..Len(Append(old, col[s].partial)) :
            old = SubSeq(Append(old, col[s].partial), 1, n)
      BY <1>3, Continued
    <2> HIDE DEF out
    <2> QED BY <1>1, <1>2, <1>4, <1>5, <2>1 DEF TextOf, old
  <1>6. CASE out = old
    <2>1. old = SubSeq(old, 1, Len(old)) /\ Len(old) \in 0..Len(old)
      BY <1>3, SubSeqProperties, LenProperties, SeqEqual
    <2> HIDE DEF out
    <2>2. \E n \in 0..Len(old) : old = SubSeq(old, 1, n)
      BY <2>1, Zenon
    <2> QED BY <1>1, <1>2, <1>4, <1>6, <2>2 DEF TextOf, old
  <1> QED BY <1>5, <1>6

(* What serving a call on a stream does, to which printer. *)
LEMMA WriteServed ==
  ASSUME StreamInv, PrintInv, TextInv, NEW s \in Streams, HandleWrite(s) \/ HandleWritePanics(s)
  PROVE  /\ wire[s] # NoCall /\ UNCHANGED <<rpcVars, got, proc, code, sink>>
         /\ \E w : /\ col' = [col EXCEPT ![s] = w]
                   /\ TextOf(w) /\ w.done = col[s].done
                   /\ \E n \in 0..Len(w.printed) : col[s].printed = SubSeq(w.printed, 1, n)
  <1> DEFINE k == Unpack(ByteStream_write_Params, wire[s].msg, "chunk")
             w == WriteTo(s, s, k).next
  <1>1. /\ wire[s] # NoCall /\ Handler(wire[s]) = "write"
        /\ UNCHANGED <<rpcVars, got, proc, code, sink>>
        /\ col' = [col EXCEPT ![sink[s]] = WriteTo(sink[s], s, k).next]
    BY DEF HandleWrite, HandleWritePanics
  <1>2. sink[s] = s
    BY <1>1 DEF StreamInv, Idle, Connected
  <1>3. k \in Seq(Byte)
    BY <1>1, WriteArrives, ClientConstants DEF PrintInv
  <1>4. col' = [col EXCEPT ![s] = w]
    BY <1>1, <1>2
  <1> HIDE DEF k
  <1>5. /\ TextOf(w) /\ w.done = col[s].done
        /\ \E n \in 0..Len(w.printed) : col[s].printed = SubSeq(w.printed, 1, n)
    <2> HIDE DEF w
    <2> QED BY <1>3, WrittenText DEF StreamInv, TextInv, w
  <1> HIDE DEF w
  <1> QED BY <1>1, <1>4, <1>5

(* What serving done does: the text before it reached this printer, and it ends. *)
LEMMA DoneServed ==
  ASSUME StreamInv, TextInv, NEW s \in Streams, HandleDone(s)
  PROVE  /\ wire[s] # NoCall /\ UNCHANGED <<rpcVars, got, proc, code, sink>>
         /\ \E w : /\ col' = [col EXCEPT ![s] = w]
                   /\ TextOf(w) /\ w.done = TRUE
                   /\ \E n \in 0..Len(w.printed) : col[s].printed = SubSeq(w.printed, 1, n)
  <1> DEFINE w == DoneTo(s, s)
  <1>1. /\ wire[s] # NoCall /\ UNCHANGED <<rpcVars, got, proc, code, sink>>
        /\ col' = [col EXCEPT ![sink[s]] = DoneTo(sink[s], s)]
    BY DEF HandleDone
  <1>2. sink[s] = s
    BY <1>1 DEF StreamInv, Idle, Connected
  <1>3. col' = [col EXCEPT ![s] = w]
    BY <1>1, <1>2
  <1>4. /\ TextOf(w) /\ w.done = TRUE
        /\ \E n \in 0..Len(w.printed) : col[s].printed = SubSeq(w.printed, 1, n)
    <2> HIDE DEF w
    <2> QED BY EndedText DEF StreamInv, TextInv, w
  <1> HIDE DEF w
  <1> QED BY <1>1, <1>3, <1>4

(* Every step of the session leaves what is shown lines, and done the last. *)
LEMMA StepText ==
  ASSUME StreamInv, PrintInv, TextInv, Next \/ UNCHANGED vars
  PROVE  TextInv'
  <1>1. CASE UNCHANGED col
    BY <1>1 DEF TextInv
  <1>2. ASSUME NEW s \in Streams, NEW w, col' = [col EXCEPT ![s] = w], TextOf(w)
        PROVE  TextInv'
    <2>1. \A c \in Streams : TextOf(col'[c])
      BY <1>2 DEF StreamInv, ColShape, TextInv
    <2> QED BY <2>1 DEF TextInv
  <1>3. ASSUME NEW s \in Streams, HandleWrite(s) \/ HandleWritePanics(s) \/ HandleDone(s)
        PROVE  TextInv'
    <2>1. \E w : col' = [col EXCEPT ![s] = w] /\ TextOf(w)
      BY <1>3, WriteServed, DoneServed
    <2> QED BY <1>2, <2>1
  <1>4. ASSUME NEW s \in Streams,
               (\E chunk \in Chunks : PumpWrites(s, chunk)) \/ PumpDone(s) \/ PumpStops(s)
        PROVE  UNCHANGED col
    BY <1>4 DEF PumpWrites, PumpDone, PumpStops
  <1>5. CASE \/ \E r \in Requests : RunContainer(r)
             \/ CallCreate \/ CallStart \/ CallExitCode \/ ReturnOK \/ ReturnErr
    BY <1>1, <1>5 DEF RunContainer, CallCreate, CallStart, CallExitCode, ReturnOK, ReturnErr, ioVars
  <1>6. CASE \/ ServeContainerService \/ ServeCreate \/ ServeStart \/ ServeExitCode \/ ServeFails
             \/ ContainerExits
    BY <1>1, <1>6 DEF ServeContainerService, ServeCreate, ServeStart, ServeExitCode, ServeFails,
                      ContainerExits, ioVars
  <1>7. CASE ClientNext
    BY <1>1, <1>3, <1>4, <1>5, <1>6, <1>7 DEF ClientNext
  <1> QED
    BY <1>1, <1>7 DEF Next, BootStep, Disconnect, UseVM, vars, clientVars, ioVars

(* Every step of the session keeps the ends of the streams in their place. *)
LEMMA StepEnd ==
  ASSUME CallInv, StreamInv, PrintInv, OrderInv, EndInv, TextInv, Next \/ UNCHANGED vars
  PROVE  EndInv'
  <1> DEFINE Fine(s) ==
         /\ pump[s] # "none" \/ wire[s] # NoCall => proc # "none"
         /\ pump[s] = "done" \/ (wire[s] # NoCall /\ Ends(wire[s])) \/ col[s].done => proc = "exited"
         /\ col[s].done => pump[s] = "ended" /\ wire[s] = NoCall
  <1>1. \A s \in Streams : Fine(s)
    BY DEF EndInv
  <1>2. SUFFICES ASSUME NEW c \in Streams PROVE Fine(c)'
    BY DEF EndInv
  <1>3. CASE UNCHANGED ioVars /\ proc' \in {proc, "exited"}
    BY <1>1, <1>3 DEF ioVars
  <1>4. CASE \/ \E r \in Requests : RunContainer(r)
             \/ CallCreate \/ CallStart \/ CallExitCode \/ ReturnOK \/ ReturnErr
    BY <1>3, <1>4 DEF RunContainer, CallCreate, CallStart, CallExitCode, ReturnOK, ReturnErr
  <1>5. CASE \/ ServeContainerService \/ ServeCreate \/ ServeExitCode \/ ServeFails
             \/ ContainerExits
    BY <1>3, <1>5 DEF ServeContainerService, ServeCreate, ServeExitCode, ServeFails, ContainerExits
  <1>6. CASE ServeStart
    <2>1. At("start") /\ call.phase = "sent"
      BY <1>6, ServedMethod DEF ServeStart, At, NoCall, Steps
    <2>2. proc = "none"
      BY <2>1 DEF OrderInv
    <2>3. wire[c] = NoCall /\ ~ col[c].done
      BY <1>1, <2>2
    <2> QED BY <1>6, <2>3 DEF ServeStart
  <1>7. ASSUME NEW s \in Streams, NEW p, NEW x, c # s,
               pump' = [pump EXCEPT ![s] = p] \/ pump' = pump,
               wire' = [wire EXCEPT ![s] = x] \/ wire' = wire,
               proc' = proc, col'[c] = col[c]
        PROVE  Fine(c)'
    <2>1. pump'[c] = pump[c] /\ wire'[c] = wire[c]
      BY <1>7 DEF StreamInv
    <2> QED BY <1>1, <1>7, <2>1
  <1>8. ASSUME NEW s \in Streams, NEW k \in Chunks, PumpWrites(s, k) PROVE Fine(c)'
    <2> DEFINE x == Sent("ByteStream", "write", ByteStream_write_Params, [chunk |-> k])
    <2>1. /\ wire' = [wire EXCEPT ![s] = x] /\ UNCHANGED <<pump, proc, col>> /\ pump[s] = "run"
      BY <1>8 DEF PumpWrites
    <2>2. x # NoCall /\ ~ Ends(x)
      BY SentCall, WriteIsNotEnd DEF Writes
    <2> HIDE DEF x
    <2>3. CASE c = s
      BY <1>1, <2>1, <2>2, <2>3 DEF StreamInv
    <2>4. CASE c # s
      BY <1>7, <2>1, <2>4
    <2> QED BY <2>3, <2>4
  <1>9. ASSUME NEW s \in Streams, PumpDone(s) PROVE Fine(c)'
    <2> DEFINE x == Sent("ByteStream", "done", <<>>, <<>>)
    <2>1. /\ wire' = [wire EXCEPT ![s] = x] /\ pump' = [pump EXCEPT ![s] = "done"]
          /\ UNCHANGED <<proc, col>> /\ pump[s] = "run" /\ proc = "exited"
      BY <1>9 DEF PumpDone
    <2> HIDE DEF x
    <2>2. CASE c = s
      BY <1>1, <2>1, <2>2 DEF StreamInv
    <2>3. CASE c # s
      BY <1>7, <2>1, <2>3
    <2> QED BY <2>2, <2>3
  <1>10. ASSUME NEW s \in Streams, PumpStops(s) PROVE Fine(c)'
    <2>1. /\ pump' = [pump EXCEPT ![s] = "ended"]
          /\ UNCHANGED <<proc, col, wire>> /\ pump[s] = "run"
      BY <1>10 DEF PumpStops
    <2>2. CASE c = s
      BY <1>1, <2>1, <2>2 DEF StreamInv
    <2>3. CASE c # s
      BY <1>7, <2>1, <2>3
    <2> QED BY <2>2, <2>3
  <1>11. ASSUME NEW s \in Streams, HandleWrite(s) PROVE Fine(c)'
    <2>1. wire' = [wire EXCEPT ![s] = NoCall] /\ pump' = pump
      BY <1>11 DEF HandleWrite
    <2>2. wire[s] # NoCall /\ proc' = proc
      BY <1>11, WriteServed
    <2>3. PICK w : col' = [col EXCEPT ![s] = w] /\ w.done = col[s].done
      BY <1>11, WriteServed
    <2>4. CASE c = s
      BY <1>1, <2>1, <2>2, <2>3, <2>4 DEF StreamInv, ColShape
    <2>5. CASE c # s
      BY <1>7, <2>1, <2>2, <2>3, <2>5 DEF StreamInv, ColShape
    <2> QED BY <2>4, <2>5
  <1>12. ASSUME NEW s \in Streams, HandleWritePanics(s) PROVE Fine(c)'
    <2>1. wire' = [p \in Streams |-> NoCall] /\ pump' = [p \in Streams |-> "ended"]
      BY <1>12 DEF HandleWritePanics
    <2>2. wire[s] # NoCall /\ proc' = proc
      BY <1>12, WriteServed
    <2>3. PICK w : col' = [col EXCEPT ![s] = w] /\ w.done = col[s].done
      BY <1>12, WriteServed
    <2>4. col'[c].done = col[c].done
      BY <2>3 DEF StreamInv, ColShape
    <2> QED BY <1>1, <2>1, <2>2, <2>4
  <1>13. ASSUME NEW s \in Streams, HandleDone(s) PROVE Fine(c)'
    <2>1. /\ wire' = [wire EXCEPT ![s] = NoCall] /\ pump' = [pump EXCEPT ![s] = "ended"]
          /\ Handler(wire[s]) = "done"
      BY <1>13 DEF HandleDone
    <2>2. wire[s] # NoCall /\ proc' = proc
      BY <1>13, DoneServed
    <2>3. PICK w : col' = [col EXCEPT ![s] = w]
      BY <1>13, DoneServed
    <2>4. proc = "exited"
      BY <1>1, <2>1, <2>2, WriteIsNotEnd DEF PrintInv, WireInv
    <2>5. CASE c = s
      BY <1>1, <2>1, <2>2, <2>4, <2>5 DEF StreamInv
    <2>6. CASE c # s
      BY <1>7, <2>1, <2>2, <2>3, <2>6 DEF StreamInv, ColShape
    <2> QED BY <2>5, <2>6
  <1>14. CASE Disconnect
    <2>1. /\ wire'[c] = NoCall /\ pump'[c] = IF pump[c] = "none" THEN "none" ELSE "ended"
          /\ UNCHANGED <<proc, col>>
      BY <1>14 DEF Disconnect
    <2> QED BY <1>1, <2>1
  <1> HIDE DEF Fine
  <1>15. CASE ClientNext
    BY <1>4, <1>5, <1>6, <1>8, <1>9, <1>10, <1>11, <1>12, <1>13, <1>15 DEF ClientNext
  <1> QED
    BY <1>3, <1>14, <1>15 DEF Next, BootStep, UseVM, vars, clientVars

(* The host lives until it panics. *)
LEMMA AliveStays ==
  ASSUME BootNext, run # "dead" PROVE run' # "dead"
  BY DEF BootNext, RunVM, HandOff, RunFails, ManagerGone, WatcherEnds, ManagerStarts, VMStarts,
         Listen, ManagerExits, GuestStops, AgentBoots, AgentLoop, DialFails, Wake, Dial, ServeEnds,
         Delivery, TakeAgent, TakeProxy, TakeBroken, ReadProxy, hostVars

(* RunContainer has not been called: nothing is asked, made or shown. *)
LEMMA InitProgress == Init => ProgressInv /\ Promise!Init
  <1> SUFFICES ASSUME Init PROVE ProgressInv /\ Promise!Init
    OBVIOUS
  <1>1. OrderInv
    BY DEF Init, ClientInit, OrderInv, At
  <1>2. EndInv
    BY DEF Init, ClientInit, EndInv, Collector
  <1> DEFINE e == <<>>
  <1>3. e \in Seq(Byte) /\ e \in Seq(Seq(Byte))
    BY EmptySeq
  <1>4. ASSUME NEW s \in Streams
        PROVE  col[s].printed = e /\ col[s].partial = e /\ col[s].done = FALSE
    BY DEF Init, ClientInit, Collector
  <1> HIDE DEF e
  <1>5. TextInv
    BY <1>3, <1>4 DEF TextInv, TextOf
  <1>6. /\ [s \in Streams |-> col[s].printed] = [s \in Streams |-> <<>>]
        /\ [s \in Streams |-> col[s].done] = [s \in Streams |-> FALSE]
    BY <1>4 DEF e
  <1>7. run # "dead"
    BY DEF Init, BootInit
  <1>8. Promise!Init
    BY <1>6, <1>7 DEF Init, ClientInit, Promise!Init
  <1> QED BY <1>1, <1>2, <1>5, <1>8 DEF ProgressInv

(* How far RunContainer has come, always. *)
LEMMA ProgressInvariant == Spec => []ProgressInv
  <1>1. SessionInv /\ ProgressInv /\ [Next]_vars => ProgressInv'
    BY StepOrder, StepEnd, StepText DEF SessionInv, ClientInv, ProgressInv
  <1> QED BY <1>1, InitProgress, SessionInvariant, PTL DEF Spec

(* Every step of RunContainer, the agent and the streams is one that was   *)
(* promised, or does not show.                                             *)
LEMMA StepPromise ==
  ASSUME SessionInv, ProgressInv, Next \/ UNCHANGED vars
  PROVE  Promise!Next \/ UNCHANGED Promise!vars
  <1> DEFINE printed == [s \in Streams |-> col[s].printed]
             ended == [s \in Streams |-> col[s].done]
             dead == (run = "dead")
  <1>1. /\ CallInv /\ ResultInv /\ StreamInv /\ PrintInv /\ OrderInv /\ EndInv /\ TextInv
    BY DEF SessionInv, ClientInv, ProgressInv
  <1>2. ASSUME UNCHANGED <<req, got, proc, code, col, result>>, dead' = dead
        PROVE  UNCHANGED Promise!vars
    BY <1>2 DEF Promise!vars
  <1>3. ASSUME NEW s \in Streams, NEW w, col' = [col EXCEPT ![s] = w],
               \E n \in 0..Len(w.printed) : col[s].printed = SubSeq(w.printed, 1, n)
        PROVE  /\ Promise!Grows(s)
               /\ ended' = [ended EXCEPT ![s] = w.done]
    <2>1. col'[s] = w /\ \A c \in Streams \ {s} : col'[c] = col[c]
      BY <1>1, <1>3 DEF StreamInv, ColShape
    <2>2. printed' = [printed EXCEPT ![s] = printed'[s]]
      BY <2>1
    <2>3. ended' = [ended EXCEPT ![s] = w.done]
      BY <2>1
    <2>4. printed'[s] = w.printed /\ printed[s] = col[s].printed
      BY <2>1
    <2>5. \E n \in 0..Len(printed'[s]) : printed[s] = SubSeq(printed'[s], 1, n)
      BY <1>3, <2>4, Zenon
    <2> QED BY <2>2, <2>3, <2>5, Zenon DEF Promise!Grows
  <1>4. /\ \A s \in Streams : ended[s] = col[s].done
        /\ UNCHANGED <<run, col>> => UNCHANGED <<printed, ended, dead>>
    OBVIOUS
  <1>5. ASSUME NEW r \in Requests, RunContainer(r) PROVE Promise!Ask(r)
    <2>1. /\ hpc = "idle" /\ run # "dead" /\ req' = r
          /\ UNCHANGED <<run, got, proc, code, col, result>>
      BY <1>5 DEF RunContainer, Linked, bootVars, hostVars, ioVars
    <2>2. req = Nothing
      BY <1>1, <2>1 DEF OrderInv
    <2> QED BY <2>1, <2>2 DEF Promise!Ask
  <1>6. CASE CallCreate \/ CallStart \/ CallExitCode
    BY <1>2, <1>6 DEF CallCreate, CallStart, CallExitCode, bootVars, hostVars, ioVars
  <1>7. ASSUME hpc \in Steps PROVE req # Nothing /\ result = "none"
    <2>1. req \in [oci : STRING, image : STRING, id : STRING, rootfsPath : STRING,
                   containerStateDisk : STRING]
      BY <1>1, <1>7, ClientConstants DEF CallInv, Steps
    <2>2. "oci" \in DOMAIN req
      BY <2>1
    <2>3. DOMAIN Nothing = {}
      BY EmptySeq, LenProperties DEF Nothing
    <2> QED BY <1>1, <1>7, <2>2, <2>3 DEF ResultInv, Steps
  <1>8. CASE ReturnOK
    <2>1. /\ hpc = "exitCode" /\ call.phase = "ok" /\ run # "dead"
          /\ result' = Unpack(Task_exitCode_Results, call.res, "code")
          /\ UNCHANGED <<run, req, got, proc, code, col>>
      BY <1>8 DEF ReturnOK, bootVars, hostVars, ioVars
    <2>2. proc = "exited" /\ result' = code
      BY <1>1, <2>1 DEF ResultInv
    <2>3. req # Nothing /\ result = "none"
      BY <1>7, <2>1 DEF Steps
    <2>4. UNCHANGED <<printed, ended, dead>> /\ ~ dead
      BY <1>4, <2>1
    <2> HIDE DEF printed, ended, dead
    <2> QED BY <2>1, <2>2, <2>3, <2>4 DEF Promise!Return, Promise!Next, printed, ended, dead
  <1>9. CASE ReturnErr
    <2>1. /\ hpc \in Steps /\ run # "dead" /\ result' = "err"
          /\ UNCHANGED <<run, req, got, proc, code, col>>
      BY <1>9 DEF ReturnErr, Steps, bootVars, hostVars, ioVars
    <2>2. UNCHANGED <<printed, ended, dead>> /\ ~ dead
      BY <1>4, <2>1
    <2>3. req # Nothing /\ result = "none"
      BY <1>7, <2>1
    <2> HIDE DEF printed, ended, dead
    <2> QED BY <2>1, <2>2, <2>3 DEF Promise!Return, Promise!Next, printed, ended, dead
  <1>10. CASE ServeContainerService \/ ServeExitCode \/ ServeFails
    BY <1>2, <1>10 DEF ServeContainerService, ServeExitCode, ServeFails, bootVars, hostVars, ioVars
  <1>11. CASE ServeCreate
    <2>1. At("create") /\ call.phase = "sent"
      <3>1. call.phase = "sent" /\ Handler(call) = "create"
        BY <1>11 DEF ServeCreate
      <3>2. call # NoCall
        BY <3>1 DEF NoCall
      <3> QED BY <1>1, <3>1, <3>2, ServedMethod DEF At, Steps
    <2>2. got = Nothing /\ got' = req /\ req # Nothing
      BY <1>1, <1>11, <2>1, MadeAsAsked DEF OrderInv
    <2>3. UNCHANGED <<run, req, proc, code, col, result>>
      BY <1>11 DEF ServeCreate, bootVars, hostVars, ioVars
    <2>4. UNCHANGED <<printed, ended, dead>>
      BY <1>4, <2>3
    <2> HIDE DEF printed, ended, dead
    <2> QED BY <2>2, <2>3, <2>4 DEF Promise!Make, Promise!Next, printed, ended, dead
  <1>12. CASE ServeStart
    <2>1. At("start") /\ call.phase = "sent"
      BY <1>1, <1>12, ServedMethod DEF ServeStart, At, NoCall, Steps
    <2>2. got # Nothing /\ proc = "none"
      BY <1>1, <2>1 DEF OrderInv
    <2>3. UNCHANGED <<run, req, got, code, col, result>> /\ proc' = "running"
      BY <1>12 DEF ServeStart, bootVars, hostVars
    <2>4. UNCHANGED <<printed, ended, dead>>
      BY <1>4, <2>3
    <2> HIDE DEF printed, ended, dead
    <2> QED BY <2>2, <2>3, <2>4 DEF Promise!Start, Promise!Next, printed, ended, dead
  <1>13. CASE ContainerExits
    <2>1. /\ proc = "running" /\ proc' = "exited" /\ code' \in {"status"}
          /\ UNCHANGED <<run, req, got, col, result>>
      BY <1>13 DEF ContainerExits, bootVars, hostVars, rpcVars, ioVars
    <2>2. UNCHANGED <<printed, ended, dead>>
      BY <1>4, <2>1
    <2> HIDE DEF printed, ended, dead
    <2> QED BY <2>1, <2>2 DEF Promise!Exit, Promise!Next, printed, ended, dead
  <1>14. ASSUME NEW s \in Streams,
                (\E chunk \in Chunks : PumpWrites(s, chunk)) \/ PumpDone(s) \/ PumpStops(s)
         PROVE  UNCHANGED Promise!vars
    BY <1>2, <1>14 DEF PumpWrites, PumpDone, PumpStops, bootVars, hostVars, rpcVars
  <1>15. ASSUME NEW s \in Streams, HandleWrite(s) \/ HandleWritePanics(s) PROVE Promise!Show(s)
    <2>1. wire[s] # NoCall /\ UNCHANGED <<req, got, proc, code, result>>
      BY <1>1, <1>15, WriteServed DEF rpcVars
    <2>2. PICK w : /\ col' = [col EXCEPT ![s] = w] /\ w.done = col[s].done
                   /\ \E n \in 0..Len(w.printed) : col[s].printed = SubSeq(w.printed, 1, n)
      BY <1>1, <1>15, WriteServed
    <2>3. Promise!Grows(s) /\ ended' = [ended EXCEPT ![s] = col[s].done]
      BY <1>3, <2>2
    <2>4. ended' = ended
      BY <1>4, <2>3
    <2>5. proc # "none" /\ ~ col[s].done
      BY <1>1, <2>1 DEF EndInv
    <2>6. ~ dead /\ dead' \in BOOLEAN
      BY <1>15 DEF HandleWrite, HandleWritePanics, Linked
    <2>7. ~ ended[s]
      BY <1>4, <2>5
    <2> QED BY <2>1, <2>3, <2>4, <2>5, <2>6, <2>7 DEF Promise!Show
  <1>16. ASSUME NEW s \in Streams, HandleDone(s) PROVE Promise!Finish(s)
    <2>1. wire[s] # NoCall /\ UNCHANGED <<req, got, proc, code, result>>
      BY <1>1, <1>16, DoneServed DEF rpcVars
    <2>2. PICK w : /\ col' = [col EXCEPT ![s] = w] /\ w.done = TRUE
                   /\ \E n \in 0..Len(w.printed) : col[s].printed = SubSeq(w.printed, 1, n)
      BY <1>1, <1>16, DoneServed
    <2>3. Promise!Grows(s) /\ ended' = [ended EXCEPT ![s] = TRUE]
      BY <1>3, <2>2
    <2>4. Handler(wire[s]) = "done" /\ run # "dead" /\ run' = run
      BY <1>16 DEF HandleDone, Linked, bootVars, hostVars
    <2>5. proc = "exited" /\ ~ col[s].done
      BY <1>1, <2>1, <2>4, WriteIsNotEnd DEF EndInv, PrintInv, WireInv
    <2>6. ~ ended[s] /\ ~ dead /\ dead' = dead
      BY <1>4, <2>4, <2>5
    <2> QED BY <2>1, <2>3, <2>5, <2>6 DEF Promise!Finish
  <1>17. CASE ClientNext
    BY <1>5, <1>6, <1>8, <1>9, <1>10, <1>11, <1>12, <1>13, <1>14, <1>15, <1>16, <1>17
      DEF ClientNext, Promise!Next
  <1>18. CASE BootStep
    <2>1. UNCHANGED <<req, got, proc, code, col, result>>
      BY <1>18 DEF BootStep, Disconnect, clientVars, rpcVars, ioVars
    <2>2. dead' = dead
      BY <1>18, DeadStays, AliveStays DEF BootStep
    <2> QED BY <1>2, <2>1, <2>2
  <1>19. ASSUME UNCHANGED clientVars, run' = run PROVE UNCHANGED Promise!vars
    BY <1>2, <1>19 DEF clientVars, rpcVars, ioVars
  <1>20. CASE NetworkNext /\ UNCHANGED clientVars
    <2>1. run' = run
      BY <1>20 DEF NetworkNext, GetNetwork, ConfigureInterface, SetAddress, SetUp, SetRoute,
                   ConfigureFails, bootVars, hostVars
    <2> QED BY <1>19, <1>20, <2>1
  <1>21. CASE DebugNext /\ UNCHANGED clientVars
    <2>1. run' = run
      BY <1>21 DEF DebugNext, GetDebug, Ping, OpenByteStream, StartBenchmark, BenchDials,
                   BenchWrites, BenchFails, BenchDone, bootVars, hostVars
    <2> QED BY <1>19, <1>21, <2>1
  <1>22. CASE UNCHANGED vars
    BY <1>19, <1>22 DEF vars, bootVars, hostVars
  <1> QED
    BY <1>17, <1>18, <1>20, <1>21, <1>22 DEF Next, UseVM

(* RunContainer, with every call, capability, pump and connection behind   *)
(* it, keeps its promise (container.go:71-135): one container, of what was *)
(* asked for; each stream's lines from its start to its end; one result, a *)
(* code only when the container has ended with it.  An error, a timeout or *)
(* a lost session may leave any of it out, but changes none of it.         *)
THEOREM SessionKeepsPromise == Spec => KeepsPromise
  <1>1. SessionInv /\ ProgressInv /\ [Next]_vars => [Promise!Next]_(Promise!vars)
    BY StepPromise
  <1> QED
    BY <1>1, InitProgress, SessionInvariant, ProgressInvariant, PTL DEF Spec, KeepsPromise, Promise!Spec
=============================================================================
