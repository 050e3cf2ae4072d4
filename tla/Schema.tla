------------------------------- MODULE Schema -------------------------------
(***************************************************************************)
(* The RPC bindings (api/gen/go/capnp/agent.capnp.go) as far as the host   *)
(* and the agent use them: for each interface the method ids its client    *)
(* stubs send, with the size of the argument struct they allocate, and the *)
(* handlers its server side finds at an id, with the size of the result    *)
(* struct; for each struct the place every field is set at and read from.  *)
(* A struct holds pointers and data bytes; a cell is one of either.        *)
(***************************************************************************)
EXTENDS Integers, Sequences, FiniteSets

Send(id, data, ptrs) == [id |-> id, size |-> <<data, ptrs>>]
Impl(id, handler, data, ptrs) == [id |-> id, handler |-> handler, size |-> <<data, ptrs>>]

ByteStream == [write |-> Send(0, 0, 1), done |-> Send(1, 0, 0)]
Debug == [ping |-> Send(0, 0, 0), openByteStream |-> Send(1, 0, 0),
          startBenchmarkVsock |-> Send(2, 16, 0)]
Network == [configureInterface |-> Send(0, 0, 3), setupVsockProxy |-> Send(1, 8, 0)]
Task == [stdin |-> Send(0, 0, 0), exitCode |-> Send(1, 0, 0)]
Container == [start |-> Send(0, 0, 2)]
ContainerService == [create |-> Send(0, 0, 5)]
Agent == [debug |-> Send(0, 0, 0), network |-> Send(1, 0, 0), containerService |-> Send(2, 0, 0)]

ByteStream_Methods == {Impl(0, "write", 0, 0), Impl(1, "done", 0, 0)}
Debug_Methods == {Impl(0, "ping", 0, 1), Impl(1, "openByteStream", 0, 1),
                  Impl(2, "startBenchmarkVsock", 16, 0)}
Network_Methods == {Impl(0, "configureInterface", 0, 0), Impl(1, "setupVsockProxy", 0, 0)}
Task_Methods == {Impl(0, "stdin", 0, 1), Impl(1, "exitCode", 8, 0)}
Container_Methods == {Impl(0, "start", 0, 1)}
ContainerService_Methods == {Impl(0, "create", 0, 1)}
Agent_Methods == {Impl(0, "debug", 0, 1), Impl(1, "network", 0, 1),
                  Impl(2, "containerService", 0, 1)}

Stub(iface) ==
  CASE iface = "ByteStream" -> ByteStream [] iface = "Debug" -> Debug
    [] iface = "Network" -> Network [] iface = "Task" -> Task
    [] iface = "Container" -> Container [] iface = "ContainerService" -> ContainerService
    [] iface = "Agent" -> Agent

Methods(iface) ==
  CASE iface = "ByteStream" -> ByteStream_Methods [] iface = "Debug" -> Debug_Methods
    [] iface = "Network" -> Network_Methods [] iface = "Task" -> Task_Methods
    [] iface = "Container" -> Container_Methods
    [] iface = "ContainerService" -> ContainerService_Methods [] iface = "Agent" -> Agent_Methods
-----------------------------------------------------------------------------
(* The fields: where the setter writes and where the getter reads. *)

Ptr(i) == [kind |-> "ptr", from |-> i, width |-> 1]
UInt(offset, width) == [kind |-> "data", from |-> offset, width |-> width]
Field(set, get) == [set |-> set, get |-> get]
Both(place) == Field(place, place)

(* Stderr() reads the first pointer, as a copied line would. *)
Container_start_ParamsCopied ==
  [stdout |-> Both(Ptr(0)), stderr |-> Field(Ptr(1), Ptr(0))]

(* Stderr lies behind the end of the struct the stub allocates. *)
Container_start_ParamsShifted == [stdout |-> Both(Ptr(0)), stderr |-> Both(Ptr(2))]

ByteStream_write_Params == [chunk |-> Both(Ptr(0))]
Debug_ping_Results == [message |-> Both(Ptr(0))]
Debug_openByteStream_Results == [stream |-> Both(Ptr(0))]
Debug_startBenchmarkVsock_Params ==
  [port |-> Both(UInt(0, 4)), totalBytes |-> Both(UInt(8, 8)), chunkBytes |-> Both(UInt(4, 4))]
Debug_startBenchmarkVsock_Results ==
  [bytesPerSec |-> Both(UInt(0, 8)), durationNanos |-> Both(UInt(8, 8))]
Network_configureInterface_Params ==
  [ifName |-> Both(Ptr(0)), cidr |-> Both(Ptr(1)), gateway |-> Both(Ptr(2))]
Task_exitCode_Results == [code |-> Both(UInt(0, 4))]
Container_start_Params == [stdout |-> Both(Ptr(0)), stderr |-> Both(Ptr(1))]
Container_start_Results == [task |-> Both(Ptr(0))]
ContainerService_create_Params ==
  [oci |-> Both(Ptr(0)), image |-> Both(Ptr(1)), id |-> Both(Ptr(2)),
   rootfsPath |-> Both(Ptr(3)), containerStateDisk |-> Both(Ptr(4))]
ContainerService_create_Results == [container |-> Both(Ptr(0))]
Agent_debug_Results == [debug |-> Both(Ptr(0))]
Agent_network_Results == [network |-> Both(Ptr(0))]
Agent_containerService_Results == [service |-> Both(Ptr(0))]
-----------------------------------------------------------------------------
(* A message is the function from the cells of its struct to <<value, n>>, *)
(* the n-th part of the value set there.  A field that is set outside the  *)
(* struct is not in it, and one that is read from cells which do not hold  *)
(* one whole value is garbled.                                             *)

Garbled == "garbled"
Cells(place) == {<<place.kind, place.from + k>> : k \in 0..(place.width - 1)}
Struct(size) == ({"data"} \X (0..(size[1] - 1))) \cup ({"ptr"} \X (0..(size[2] - 1)))

Pack(size, fields, values) ==
  [c \in Struct(size) \cap UNION {Cells(fields[f].set) : f \in DOMAIN fields} |->
     LET f == CHOOSE f \in DOMAIN fields : c \in Cells(fields[f].set)
     IN <<values[f], c[2] - fields[f].set.from>>]

Unpack(fields, msg, f) ==
  LET g == fields[f].get
      first == msg[<<g.kind, g.from>>][1]
  IN IF Cells(g) \subseteq DOMAIN msg /\ \A c \in Cells(g) : msg[c] = <<first, c[2] - g.from>>
     THEN first ELSE Garbled

(* A call as it is sent, the handler it reaches, an answer, a result. *)
Call(iface, method, fields, values) ==
  LET s == Stub(iface)[method] IN
  [iface |-> iface, id |-> s.id, msg |-> Pack(s.size, fields, values)]

ImplOf(call) == CHOOSE m \in Methods(call.iface) : m.id = call.id
Handler(call) == ImplOf(call).handler
Answer(call, fields, values) == Pack(ImplOf(call).size, fields, values)
=============================================================================
