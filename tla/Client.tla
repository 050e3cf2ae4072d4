------------------------------- MODULE Client -------------------------------
(***************************************************************************)
(* RunContainer and linePrinterStream (vm/container.go) over a session     *)
(* with the agent: the chain of calls, the arguments and capabilities that *)
(* travel through the bindings, who holds a reference to each capability,  *)
(* and the lines printed of what the container writes.  The agent's side   *)
(* of a call is one step here; Containers and Task have its details.       *)
(*                                                                         *)
(* A line too long for the scanner's buffer is left out.  The panic of an  *)
(* out-of-range slice ends the host process.                               *)
(***************************************************************************)
EXTENDS Boot, Schema, Lines

CONSTANTS
  Requests,   \* what RunContainer is asked to run
  Chunks,     \* what one read of a container's pipe may return, never nothing
  MaxBytes    \* bound: no read of a pipe once so many bytes were handled

ASSUME ClientConstants ==
  /\ Requests \subseteq [oci : STRING, image : STRING, id : STRING, rootfsPath : STRING,
                         containerStateDisk : STRING]
  /\ Chunks \subseteq Seq(Byte) \ {<<>>}

Streams == {"stdout", "stderr"}
Caps == {"service", "container", "task"} \cup Streams

VARIABLES
  hpc,        \* RunContainer: the method whose answer it waits for
  req,        \* its arguments
  call,       \* the call that was sent last, until its answer is taken
  result,     \* what RunContainer returned
  got,        \* the arguments the agent's containerServer was made with
  proc,       \* the container's process
  code,       \* its exit code
  refs,       \* per capability: who holds a reference to it (a pump: its stream)
  sink,       \* per pump: the ByteStream it writes to
  pump,       \* per output stream: the agent's pumpToByteStream
  wire,       \* per pump: its call that is under way
  col         \* per ByteStream of the host: its linePrinterStream

rpcVars == <<hpc, req, call, result>>
ioVars == <<sink, pump, wire, col>>
clientVars == <<rpcVars, got, proc, code, refs, ioVars>>

NoCall == [phase |-> "none"]
Nothing == <<>>
Collector == [fed |-> <<>>, from |-> {}, partial |-> <<>>, printed |-> <<>>, done |-> FALSE]

ClientInit ==
  /\ hpc = "idle" /\ req = Nothing /\ call = NoCall /\ result = "none"
  /\ got = Nothing /\ proc = "none" /\ code = "unset"
  /\ refs = [c \in Caps |-> {}]
  /\ sink = [s \in Streams |-> "none"] /\ pump = [s \in Streams |-> "none"]
  /\ wire = [s \in Streams |-> NoCall]
  /\ col = [c \in Streams |-> Collector]
-----------------------------------------------------------------------------
(* linePrinterStream.Write *)

WriteTo(c, s, chunk) ==
  LET buf == col[c].partial \o chunk
      n == Consumed(Scan(buf))
  IN [panics |-> n > Len(buf),
      next |-> [col[c] EXCEPT !.fed = @ \o chunk, !.from = @ \cup {s},
                              !.printed = @ \o Scan(buf),
                              !.partial = SubSeq(buf, n + 1, Len(buf))]]

DoneTo(c, s) ==
  [col[c] EXCEPT !.printed = IF col[c].partial = <<>> THEN @ ELSE Append(@, col[c].partial),
                 !.partial = <<>>, !.from = @ \cup {s}, !.done = TRUE]
-----------------------------------------------------------------------------
(* Mutated forms: what a plausible slip in the code would make of a step.  *)

(* The stream capabilities are used without a reference of their own. *)
HoldNothing(c, to) == refs[c] \ {"args"}

(* An early return before the defers of what was created are in place. *)
KeepsTask(c) == IF c = "task" THEN refs[c] ELSE refs[c] \ {"host", "results"}

(* ExitCode does not wait. *)
ServeExitCodeEarly ==
  /\ Linked /\ call.phase = "sent" /\ Handler(call) = "exitCode"
  /\ call' = IF call.kept
             THEN [call EXCEPT !.phase = "ok",
                               !.res = Answer(call, Task_exitCode_Results, [code |-> code])]
             ELSE NoCall
  /\ UNCHANGED <<bootVars, hpc, req, result, got, proc, code, refs, ioVars>>
-----------------------------------------------------------------------------
(* RunContainer, the host *)

Sent(iface, method, fields, values) ==
  LET c == Call(iface, method, fields, values) IN
  [iface |-> c.iface, id |-> c.id, msg |-> c.msg, phase |-> "sent", kept |-> TRUE, res |-> <<>>]

(* A capability that came with an answer is the host's from then on. *)
Taken(c) == IF c \in {"service", "container", "task"} /\ "results" \in refs[c]
            THEN (refs[c] \ {"results"}) \cup {"host"} ELSE refs[c]

RunContainer(r) ==
  /\ hpc = "idle" /\ Linked
  /\ hpc' = "containerService" /\ req' = r
  /\ call' = Sent("Agent", "containerService", <<>>, <<>>)
  /\ UNCHANGED <<bootVars, result, got, proc, code, refs, ioVars>>

CallCreate ==
  /\ hpc = "containerService" /\ call.phase = "ok" /\ run # "dead"
  /\ Unpack(Agent_containerService_Results, call.res, "service") = "service"
  /\ hpc' = "create"
  /\ call' = Sent("ContainerService", "create", ContainerService_create_Params, req)
  /\ refs' = [c \in Caps |-> Taken(c)]
  /\ UNCHANGED <<bootVars, req, result, got, proc, code, ioVars>>

CallStart ==
  /\ hpc = "create" /\ call.phase = "ok" /\ run # "dead"
  /\ Unpack(ContainerService_create_Results, call.res, "container") = "container"
  /\ hpc' = "start"
  /\ call' = Sent("Container", "start", Container_start_Params,
                  [stdout |-> "stdout", stderr |-> "stderr"])
  /\ refs' = [c \in Caps |-> IF c \in Streams THEN {"host", "args"} ELSE Taken(c)]
  /\ UNCHANGED <<bootVars, req, result, got, proc, code, ioVars>>

CallExitCode ==
  /\ hpc = "start" /\ call.phase = "ok" /\ run # "dead"
  /\ Unpack(Container_start_Results, call.res, "task") = "task"
  /\ hpc' = "exitCode"
  /\ call' = Sent("Task", "exitCode", <<>>, <<>>)
  /\ refs' = [c \in Caps |-> Taken(c)]
  /\ UNCHANGED <<bootVars, req, result, got, proc, code, ioVars>>

(* The deferred releases, in whatever step RunContainer returns. *)
Released(c) == refs[c] \ {"host", "results"}

ReturnOK ==
  /\ hpc = "exitCode" /\ call.phase = "ok" /\ run # "dead"
  /\ hpc' = "returned" /\ result' = Unpack(Task_exitCode_Results, call.res, "code")
  /\ call' = NoCall
  /\ refs' = [c \in Caps |-> Released(c)]
  /\ UNCHANGED <<bootVars, req, got, proc, code, ioVars>>

(* An error answer, the end of ctx (5 minutes, SIGINT) or of the session:  *)
(* RunContainer returns, and a call that is under way goes on without it.  *)
ReturnErr ==
  /\ hpc \in {"containerService", "create", "start", "exitCode"} /\ run # "dead"
  /\ hpc' = "returned" /\ result' = "err"
  /\ call' = IF call.phase = "sent" THEN [call EXCEPT !.kept = FALSE] ELSE NoCall
  /\ refs' = [c \in Caps |-> Released(c)]
  /\ UNCHANGED <<bootVars, req, got, proc, code, ioVars>>
-----------------------------------------------------------------------------
(* The agent's handlers.  The results of a call nobody waits for are       *)
(* released when it is answered.                                           *)

Answered(fields, values) ==
  IF call.kept THEN [call EXCEPT !.phase = "ok", !.res = Answer(call, fields, values)] ELSE NoCall

Granted(cap) == [refs EXCEPT ![cap] = IF call.kept THEN @ \cup {"results"} ELSE @]

ServeContainerService ==
  /\ Linked /\ call.phase = "sent" /\ Handler(call) = "containerService"
  /\ call' = Answered(Agent_containerService_Results, [service |-> "service"])
  /\ refs' = Granted("service")
  /\ UNCHANGED <<bootVars, hpc, req, result, got, proc, code, ioVars>>

Arg(f) == Unpack(ContainerService_create_Params, call.msg, f)

ServeCreate ==
  /\ Linked /\ call.phase = "sent" /\ Handler(call) = "create"
  /\ Arg("id") # "bad id" /\ TrimSpace(Arg("image")) # "" /\ TrimSpace(Arg("rootfsPath")) # ""
  /\ TrimSpace(Arg("containerStateDisk")) # "" /\ Arg("oci") # ""
  /\ call' = Answered(ContainerService_create_Results, [container |-> "container"])
  /\ refs' = Granted("container")
  /\ got' = [f \in DOMAIN ContainerService_create_Params |-> Arg(f)]
  /\ UNCHANGED <<bootVars, hpc, req, result, proc, code, ioVars>>

(* The arguments' references end with the handler; AddRef gives each pump  *)
(* one of its own.                                                         *)
Hold(c, to) == (refs[c] \ {"args"}) \cup {s \in Streams : to[s] = c}

ServeStart ==
  /\ Linked /\ call.phase = "sent" /\ Handler(call) = "start"
  /\ LET to == [s \in Streams |-> Unpack(Container_start_Params, call.msg, s)] IN
     /\ sink' = to
     /\ refs' = [c \in Caps |-> IF c \in Streams THEN Hold(c, to) ELSE Granted("task")[c]]
  /\ pump' = [s \in Streams |-> "run"]
  /\ proc' = "running"
  /\ call' = Answered(Container_start_Results, [task |-> "task"])
  /\ UNCHANGED <<bootVars, hpc, req, result, got, code, wire, col>>

ServeExitCode ==
  /\ Linked /\ call.phase = "sent" /\ Handler(call) = "exitCode"
  /\ proc = "exited"
  /\ call' = Answered(Task_exitCode_Results, [code |-> code])
  /\ UNCHANGED <<bootVars, hpc, req, result, got, proc, code, refs, ioVars>>

(* Create refuses, a step of Start or Wait fails: the host gets an error. *)
ServeFails ==
  /\ Linked /\ call.phase = "sent"
  /\ call' = IF call.kept THEN [call EXCEPT !.phase = "err"] ELSE NoCall
  /\ refs' = [c \in Caps |-> refs[c] \ {"args"}]
  /\ UNCHANGED <<bootVars, hpc, req, result, got, proc, code, ioVars>>

ContainerExits ==
  /\ proc = "running"
  /\ proc' = "exited" /\ code' = "status"
  /\ UNCHANGED <<bootVars, rpcVars, got, refs, ioVars>>
-----------------------------------------------------------------------------
(* The streams *)

PumpWrites(s, chunk) ==
  /\ Linked /\ pump[s] = "run" /\ wire[s] = NoCall
  /\ Len(col["stdout"].fed) + Len(col["stderr"].fed) < MaxBytes
  /\ wire' = [wire EXCEPT ![s] = Sent("ByteStream", "write", ByteStream_write_Params,
                                      [chunk |-> chunk])]
  /\ UNCHANGED <<bootVars, rpcVars, got, proc, code, refs, sink, pump, col>>

(* The pipe has ended.  runc, in the foreground, has it open itself until  *)
(* it exits, which is external to the code and all that puts done behind   *)
(* the exit.                                                               *)
PumpDone(s) ==
  /\ Linked /\ pump[s] = "run" /\ wire[s] = NoCall /\ proc = "exited"
  /\ pump' = [pump EXCEPT ![s] = "done"]
  /\ wire' = [wire EXCEPT ![s] = Sent("ByteStream", "done", <<>>, <<>>)]
  /\ UNCHANGED <<bootVars, rpcVars, got, proc, code, refs, sink, col>>

DropPumpRef(s) == [refs EXCEPT ![sink[s]] = @ \ {s}]

(* The pump ends without done: its pipe was closed (os.ErrClosed).  A      *)
(* write is streamed, so the last one may still be under way.              *)
PumpStops(s) ==
  /\ Linked /\ pump[s] = "run" /\ proc = "exited"
  /\ pump' = [pump EXCEPT ![s] = "ended"]
  /\ refs' = DropPumpRef(s)
  /\ UNCHANGED <<bootVars, rpcVars, got, proc, code, sink, wire, col>>

(* The host's linePrinterStream serves a write, even after RunContainer    *)
(* has returned, ...                                                       *)
HandleWrite(s) ==
  /\ Linked /\ wire[s] # NoCall /\ Handler(wire[s]) = "write"
  /\ LET w == WriteTo(sink[s], s, Unpack(ByteStream_write_Params, wire[s].msg, "chunk")) IN
     /\ ~w.panics
     /\ col' = [col EXCEPT ![sink[s]] = w.next]
  /\ wire' = [wire EXCEPT ![s] = NoCall]
  /\ UNCHANGED <<bootVars, rpcVars, got, proc, code, refs, sink, pump>>

(* ... or panics after printing, and takes the host process with it. *)
HandleWritePanics(s) ==
  /\ Linked /\ wire[s] # NoCall /\ Handler(wire[s]) = "write"
  /\ LET w == WriteTo(sink[s], s, Unpack(ByteStream_write_Params, wire[s].msg, "chunk")) IN
     /\ w.panics
     /\ col' = [col EXCEPT ![sink[s]] = w.next]
  /\ wire' = [p \in Streams |-> NoCall]
  /\ run' = "dead" /\ acceptor' = FALSE
  /\ pump' = [p \in Streams |-> "ended"]
  /\ refs' = [c \in Caps |-> {}]
  /\ UNCHANGED <<cfg, session, mgr, ports, agentVars, conns, rpcVars, got, proc, code, sink>>

HandleDone(s) ==
  /\ Linked /\ wire[s] # NoCall /\ Handler(wire[s]) = "done"
  /\ col' = [col EXCEPT ![sink[s]] = DoneTo(sink[s], s)]
  /\ pump' = [pump EXCEPT ![s] = "ended"]
  /\ wire' = [wire EXCEPT ![s] = NoCall]
  /\ refs' = DropPumpRef(s)
  /\ UNCHANGED <<bootVars, rpcVars, got, proc, code, sink>>

(* The session ends under all of this: the calls that are under way fail, *)
(* and what the agent held of the host's is given up.                      *)
Disconnect ==
  /\ call' = IF call.phase # "sent" THEN call
             ELSE IF call.kept THEN [call EXCEPT !.phase = "err"] ELSE NoCall
  /\ wire' = [s \in Streams |-> NoCall]
  /\ pump' = [s \in Streams |-> IF pump[s] = "none" THEN "none" ELSE "ended"]
  /\ refs' = [c \in Caps |-> refs[c] \ ({"args"} \cup Streams)]
  /\ UNCHANGED <<hpc, req, result, got, proc, code, sink, col>>

ClientNext ==
  \/ \E r \in Requests : RunContainer(r)
  \/ CallCreate \/ CallStart \/ CallExitCode \/ ReturnOK \/ ReturnErr
  \/ ServeContainerService \/ ServeCreate \/ ServeStart \/ ServeExitCode \/ ServeFails
  \/ ContainerExits
  \/ \E s \in Streams : \/ \E chunk \in Chunks : PumpWrites(s, chunk)
                        \/ PumpDone(s) \/ PumpStops(s)
                        \/ HandleWrite(s) \/ HandleWritePanics(s) \/ HandleDone(s)
-----------------------------------------------------------------------------
ClientTypeOK ==
  /\ hpc \in {"idle", "containerService", "create", "start", "exitCode", "returned"}
  /\ call.phase \in {"none", "sent", "ok", "err"}
  /\ proc \in {"none", "running", "exited"}
  /\ refs \in [Caps -> SUBSET ({"host", "results", "args"} \cup Streams)]
  /\ sink \in [Streams -> Streams \cup {"none"}]
  /\ pump \in [Streams -> {"none", "run", "done", "ended"}]

(* While a pump may still write, the agent holds the capability it writes  *)
(* to: the references of Start's arguments end with the handler, and the   *)
(* host's with RunContainer.                                               *)
PumpHoldsStream ==
  \A s \in Streams : pump[s] \in {"run", "done"} /\ Linked => s \in refs[sink[s]]

(* Once RunContainer has returned, in whatever way, and what it started    *)
(* has ended, nobody holds any of its capabilities, so repeated runs do    *)
(* not pile up in the session's tables.                                    *)
NothingLeaked ==
  hpc = "returned" /\ call = NoCall /\ (\A s \in Streams : pump[s] \in {"none", "ended"})
    => \A c \in Caps : refs[c] = {}

(* The container was made with the arguments RunContainer was given, each  *)
(* in its place, and what is printed as one of its streams was written to  *)
(* that stream.                                                            *)
ContainerArgumentsArrive ==
  /\ got # Nothing => got = req
  /\ \A c \in Streams : col[c].from \subseteq {c}

(* RunContainer returns an exit code only when the container has exited    *)
(* and with its code, whichever call failed or was given up on before.     *)
ResultTruthful == result \notin {"none", "err"} => proc = "exited" /\ result = code

(* While the output has no carriage return and the host lives, it has      *)
(* printed the lines it was sent and nothing else.  A chunk may then only  *)
(* end where a line ends: of the newline at the end of a last line the     *)
(* loop counts one too many when it is not there (container.go:43), and    *)
(* one too few when the scanner drops a carriage return before it.         *)
LinesFaithful ==
  \A c \in Streams :
    run # "dead" /\ (\A i \in DOMAIN col[c].fed : col[c].fed[i] # CR)
      => col[c].printed = Split(col[c].fed).lines /\ Split(col[c].fed).rest = <<>>

(* "Holds last partial line between chunks." (container.go:19): output that *)
(* comes in several chunks does not end the host process.                  *)
PartialLineHeld == run # "dead"
=============================================================================
