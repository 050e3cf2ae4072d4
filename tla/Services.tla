------------------------------ MODULE Services ------------------------------
(***************************************************************************)
(* The agent's Network and Debug services (network_service.go,             *)
(* network_link.go, debug_service.go): ConfigureInterface, whose netlink   *)
(* requests are steps of their own, StartBenchmarkVsock, whose connection  *)
(* goes the way of the agent's, and the calls that only answer.  The       *)
(* stream OpenByteStream returns counts bytes for the log only, and its    *)
(* calls are left out.                                                     *)
(* Every Agent.Network() makes a server of its own, so that configuration  *)
(* calls of two clients interleave.  AddrReplace replaces an equal address *)
(* and otherwise adds one; RouteReplace has one default route to replace.  *)
(***************************************************************************)
EXTENDS Boot, Schema

CONSTANTS
  NetCalls,      \* the ConfigureInterface calls
  NetArgs,       \* their arguments
  BenchArgs,     \* the arguments of StartBenchmarkVsock
  DefaultChunk   \* 64 * 1024

VARIABLES
  net,           \* per call: its arguments and where its handler is
  addrs,         \* addresses of the interface
  up,            \* the interface is up
  route,         \* gateway of the default route
  overlap,       \* history: two configuration calls were under way at once
  last,          \* history: the configuration call that began last
  bench,         \* the benchmark: arguments, control, bytes written, connection
  known          \* per field of an answer: what the host has read there, if anything

netVars == <<net, addrs, up, route, overlap, last>>
serviceVars == <<netVars, bench, known>>

Nil == "nil"
Fields == {"debug", "network", "message", "stream", "bytesPerSec", "durationNanos"}
NoArgs == [ifName |-> "", cidr |-> "", gateway |-> ""]

ServicesInit ==
  /\ net = [n \in NetCalls |-> [pc |-> "none", args |-> NoArgs]]
  /\ addrs = {} /\ up = FALSE /\ route = "none"
  /\ overlap = FALSE /\ last = "none"
  /\ bench = [pc |-> "none", port |-> 0, total |-> 0, chunk |-> 0, wrote |-> 0, conn |-> 0]
  /\ known = [f \in Fields |-> Nil]

Goto(n, label) == net' = [net EXCEPT ![n].pc = label]
Min2(a, b) == IF a < b THEN a ELSE b
-----------------------------------------------------------------------------
(* Mutated forms: what a plausible slip in the code would make of a step.  *)

(* The link is not set up before the route is. *)
SetAddressOnly(n) ==
  /\ VMUp /\ net[n].pc = "addr"
  /\ addrs' = addrs \cup {net[n].args.cidr}
  /\ Goto(n, "route")
  /\ UNCHANGED <<bootVars, up, route, overlap, last, bench, known>>

(* A default route that is there is kept. *)
SetRouteOnce(n) ==
  /\ VMUp /\ net[n].pc = "route" /\ net[n].args.gateway # "bad"
  /\ route' = IF route = "none" THEN net[n].args.gateway ELSE route
  /\ Goto(n, "done")
  /\ UNCHANGED <<bootVars, addrs, up, overlap, last, bench, known>>
-----------------------------------------------------------------------------
(* The host reads the results of a call to the handler of that method,     *)
(* which fills in some fields of its result struct.                        *)
Read(iface, method, results, values) ==
  LET c == Call(iface, method, <<>>, <<>>)
      answer == Answer(c, results, values)
  IN /\ Handler(c) = method
     /\ known' = [f \in Fields |-> IF f \in DOMAIN results THEN Unpack(results, answer, f)
                                   ELSE known[f]]

(* Agent.Network, Agent.Debug, Debug.Ping and Debug.OpenByteStream. *)
GetNetwork ==
  /\ Linked /\ known["network"] = Nil
  /\ Read("Agent", "network", Agent_network_Results, [network |-> "network"])
  /\ UNCHANGED <<bootVars, netVars, bench>>

GetDebug ==
  /\ Linked /\ known["debug"] = Nil
  /\ Read("Agent", "debug", Agent_debug_Results, [debug |-> "debug"])
  /\ UNCHANGED <<bootVars, netVars, bench>>

Ping ==
  /\ Linked /\ known["debug"] = "debug"
  /\ Read("Debug", "ping", Debug_ping_Results, [message |-> "pong"])
  /\ UNCHANGED <<bootVars, netVars, bench>>

OpenByteStream ==
  /\ Linked /\ known["debug"] = "debug"
  /\ Read("Debug", "openByteStream", Debug_openByteStream_Results, [stream |-> "stream"])
  /\ UNCHANGED <<bootVars, netVars, bench>>
-----------------------------------------------------------------------------
(* ConfigureInterface: the arguments are read; LinkByName, ParseAddr, ... *)
ConfigureInterface(n, a) ==
  /\ Linked /\ known["network"] = "network" /\ net[n].pc = "none"
  /\ LET c == Call("Network", "configureInterface", Network_configureInterface_Params, a)
         args == [f \in DOMAIN a |-> Unpack(Network_configureInterface_Params, c.msg, f)]
     IN /\ Handler(c) = "configureInterface"
        /\ net' = [net EXCEPT ![n] =
                     [pc |-> IF args.ifName = "missing" \/ args.cidr = "bad" THEN "failed"
                             ELSE "addr", args |-> args]]
  /\ overlap' = (overlap \/ \E m \in NetCalls : net[m].pc \in {"addr", "up", "route"})
  /\ last' = n
  /\ UNCHANGED <<bootVars, addrs, up, route, bench, known>>

(* ... AddrReplace, ... *)
SetAddress(n) ==
  /\ VMUp /\ net[n].pc = "addr"
  /\ addrs' = addrs \cup {net[n].args.cidr}
  /\ Goto(n, "up")
  /\ UNCHANGED <<bootVars, up, route, overlap, last, bench, known>>

(* ... LinkSetUp, also of lo, ... *)
SetUp(n) ==
  /\ VMUp /\ net[n].pc = "up"
  /\ up' = TRUE
  /\ Goto(n, "route")
  /\ UNCHANGED <<bootVars, addrs, route, overlap, last, bench, known>>

(* ... ParseIP and RouteReplace; the dial of the gateway that follows      *)
(* changes nothing.                                                        *)
SetRoute(n) ==
  /\ VMUp /\ net[n].pc = "route" /\ net[n].args.gateway # "bad"
  /\ route' = net[n].args.gateway
  /\ Goto(n, "done")
  /\ UNCHANGED <<bootVars, addrs, up, overlap, last, bench, known>>

(* Any of the steps may fail, and what was done stays. *)
ConfigureFails(n) ==
  /\ VMUp /\ net[n].pc \in {"addr", "up", "route"}
  /\ Goto(n, "failed")
  /\ UNCHANGED <<bootVars, addrs, up, route, overlap, last, bench, known>>
-----------------------------------------------------------------------------
(* StartBenchmarkVsock: checks and defaults, ... *)
StartBenchmark(a) ==
  /\ Linked /\ known["debug"] = "debug" /\ bench.pc = "none"
  /\ LET c == Call("Debug", "startBenchmarkVsock", Debug_startBenchmarkVsock_Params, a)
         v(f) == Unpack(Debug_startBenchmarkVsock_Params, c.msg, f)
     IN /\ Handler(c) = "startBenchmarkVsock"
        /\ bench' = [bench EXCEPT
             !.pc = IF v("port") = 0 \/ v("totalBytes") = 0 THEN "failed" ELSE "dial",
             !.port = v("port"), !.total = v("totalBytes"),
             !.chunk = IF v("chunkBytes") = 0 THEN DefaultChunk ELSE v("chunkBytes")]
  /\ UNCHANGED <<bootVars, netVars, known>>

(* ... dialVsock, once, ... *)
BenchDials(way) ==
  /\ bench.pc = "dial" /\ Connect(bench.port, way)
  /\ bench' = [bench EXCEPT !.pc = "write", !.conn = Len(conns')]
  /\ UNCHANGED <<cfg, hostVars, mgr, ports, agentVars, netVars, known>>

ToWrite(b) == Min2(b.chunk, b.total - b.wrote)

(* ... and the loop: a write is whole, or short with an error. *)
BenchWrites ==
  /\ bench.pc = "write" /\ VMUp /\ bench.wrote < bench.total
  /\ bench' = [bench EXCEPT !.wrote = @ + ToWrite(bench)]
  /\ UNCHANGED <<bootVars, netVars, known>>

BenchFails ==
  /\ VMUp
  /\ \/ bench.pc = "dial" /\ bench' = [bench EXCEPT !.pc = "failed"]
     \/ /\ bench.pc = "write" /\ bench.wrote < bench.total
        /\ \E n \in 0..(ToWrite(bench) - 1) :
             bench' = [bench EXCEPT !.pc = "failed", !.wrote = @ + n]
  /\ UNCHANGED <<bootVars, netVars, known>>

BenchDone ==
  /\ VMUp /\ bench.pc = "write" /\ ~(bench.wrote < bench.total)
  /\ bench' = [bench EXCEPT !.pc = "done"]
  /\ IF Linked THEN Read("Debug", "startBenchmarkVsock", Debug_startBenchmarkVsock_Results,
                         [bytesPerSec |-> "rate", durationNanos |-> "time"])
     ELSE known' = known
  /\ UNCHANGED <<bootVars, netVars>>

NetworkNext ==
  \/ GetNetwork
  \/ \E n \in NetCalls : \/ \E a \in NetArgs : ConfigureInterface(n, a)
                         \/ SetAddress(n) \/ SetUp(n) \/ SetRoute(n) \/ ConfigureFails(n)

DebugNext ==
  \/ GetDebug \/ Ping \/ OpenByteStream
  \/ \E a \in BenchArgs : StartBenchmark(a)
  \/ \E way \in {"ok", "lost", "broken"} : BenchDials(way)
  \/ BenchWrites \/ BenchFails \/ BenchDone
-----------------------------------------------------------------------------
ServicesTypeOK ==
  /\ \A n \in NetCalls : net[n].pc \in {"none", "addr", "up", "route", "done", "failed"}
  /\ up \in BOOLEAN /\ bench.conn \in 0..Len(conns)

(* What the host reads in an answer is what the handler has put there. *)
AnswersArrive ==
  \A f \in Fields :
    known[f] \in {Nil, CASE f = "message" -> "pong" [] f = "bytesPerSec" -> "rate"
                         [] f = "durationNanos" -> "time" [] OTHER -> f}

(* A configuration call that succeeded has left its own address and        *)
(* gateway on an interface that is up, and so has the later of two calls   *)
(* as long as they did not overlap; addresses of earlier calls stay        *)
(* beside it.                                                              *)
ConfiguredUnlessOverlap ==
  last # "none" /\ net[last].pc = "done" /\ ~overlap
    => /\ up /\ net[last].args.cidr \in addrs
       /\ route = net[last].args.gateway

(* Whatever calls overlap or fail, a default route is never there without  *)
(* an address on an interface that is up.                                  *)
RouteUsable == route # "none" => up /\ addrs # {}
=============================================================================
