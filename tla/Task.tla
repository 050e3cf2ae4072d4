-------------------------------- MODULE Task --------------------------------
(***************************************************************************)
(* A started container in the agent (agent/cmd/agent/container_service.go, *)
(* main.go): the runc process, the two pumpToByteStream goroutines that    *)
(* carry its stdout and stderr to the host, the taskServer the host calls  *)
(* for stdin and the exit code, PID 1's reapZombies, and the streams on    *)
(* the host's side.  It begins when Container.start has returned: runc is  *)
(* running, both pumps are reading, the overlay rootfs is mounted.         *)
(*                                                                         *)
(* A chunk is what one Read of a pump returns; the chunks of a stream are  *)
(* numbered as the container writes them.  A call travels on the RPC link  *)
(* in the order it was made on its capability; calls on different          *)
(* capabilities and replies may be handled in any order.                   *)
(***************************************************************************)
EXTENDS Integers, Sequences

CONSTANTS
  Streams,     \* the output streams, stdout and stderr
  Statuses,    \* exit codes of the container
  PipeCap,     \* capacity of a pipe, in chunks
  Window,      \* chunks of a stream that flow control lets be in flight
  MaxChunks,   \* bound: chunks the container writes to a stream
  MaxCalls,    \* bound: calls the host makes on the Task
  WaitError,   \* the outcome of a cmd.Wait that fails
  None         \* no status yet

ASSUME TaskConstants ==
  /\ PipeCap \in Nat \ {0}
  /\ Window \in Nat \ {0}
  /\ MaxChunks \in Nat
  /\ MaxCalls \in Nat
  /\ WaitError \notin Statuses
  /\ None \notin Statuses \cup {WaitError}

DoneMark == 0                       \* the ByteStream.done call on the wire
Chunk == 1..MaxChunks

VARIABLES
  proc,       \* runc: "running", "zombie", "reaped" by cmd.Wait, or "stolen" by reapZombies
  status,     \* its exit code, once it has exited
  reaper,     \* reapZombies is in its loop
  written,    \* chunks written to each stream
  wopen,      \* the container has the stream's write end open
  pipe,       \* chunks in the pipe
  ropen,      \* the agent has the read end open
  pump,       \* control of each pump
  hand,       \* the chunk a pump has read
  wire,       \* write and done calls in flight to the host
  received,   \* chunks the host's stream has handled
  doneSeen,   \* the host's stream has handled done
  link,       \* the RPC connection is up
  queue,      \* calls made on the Task and not answered; one runs at a time
  calls,      \* how many were made
  server,     \* control of the ExitCode handler
  waitRes,    \* exitCode, waitErr of the taskServer, once waitOnce has run
  replies,    \* outcomes ExitCode sent to the host
  mounted,    \* the overlay is mounted at bundle/rootfs
  stdinGiven, \* the host has the stdin ByteStream
  stdinOpen,  \* the agent has stdin's write end open
  stdinBuf    \* chunks in stdin's pipe

procVars == <<proc, status, reaper>>
outVars == <<written, wopen, pipe>>
pumpVars == <<pump, hand>>
hostVars == <<wire, received, doneSeen>>
callVars == <<queue, calls, server, waitRes, replies, mounted>>
stdinVars == <<stdinGiven, stdinOpen, stdinBuf>>
vars == <<procVars, outVars, ropen, pumpVars, hostVars, link, callVars, stdinVars>>

(* reapZombies has returned (Wait4 found no child before this one), or it  *)
(* has not yet run as far as its Wait4.                                    *)
Init ==
  /\ proc = "running" /\ status = None /\ reaper \in BOOLEAN
  /\ written = [s \in Streams |-> 0]
  /\ wopen = [s \in Streams |-> TRUE]
  /\ pipe = [s \in Streams |-> <<>>]
  /\ ropen = [s \in Streams |-> TRUE]
  /\ pump = [s \in Streams |-> "read"]
  /\ hand = [s \in Streams |-> DoneMark]
  /\ wire = [s \in Streams |-> <<>>]
  /\ received = [s \in Streams |-> <<>>]
  /\ doneSeen = [s \in Streams |-> FALSE]
  /\ link = TRUE
  /\ queue = <<>> /\ calls = 0 /\ server = "idle" /\ waitRes = None /\ replies = <<>>
  /\ mounted = TRUE
  /\ stdinGiven = FALSE /\ stdinOpen = TRUE /\ stdinBuf = 0
-----------------------------------------------------------------------------
(* Mutated forms: what a plausible slip in the code would make of a step.  *)

(* A pipe that cmd.Wait closed is taken for the end of the output. *)
PumpClosedSaysDone(s) ==
  /\ pump[s] = "read"
  /\ ~ropen[s]
  /\ pump' = [pump EXCEPT ![s] = "done"]
  /\ UNCHANGED <<procVars, outVars, ropen, hand, hostVars, link, callVars, stdinVars>>

(* Every ExitCode call runs waitFn: waitOnce dropped. *)
ServeExitCodeTwice ==
  /\ server = "idle"
  /\ queue # <<>> /\ Head(queue) = "exitCode"
  /\ server' = "wait"
  /\ UNCHANGED <<procVars, outVars, ropen, pumpVars, hostVars, link, queue, calls,
                 waitRes, replies, mounted, stdinVars>>

(* The wait is retried when the status is not there to take. *)
WaitRetries ==
  /\ server = "wait"
  /\ proc = "zombie" /\ proc' = "reaped" /\ waitRes' = status
  /\ server' = "close"
  /\ UNCHANGED <<status, reaper, outVars, ropen, pumpVars, hostVars, link, queue,
                 calls, replies, mounted, stdinVars>>

(* The read ends are left open after the wait. *)
ClosePipesKeepsReaders ==
  /\ server = "close"
  /\ server' = "cleanup"
  /\ stdinOpen' = FALSE
  /\ UNCHANGED <<procVars, outVars, ropen, pumpVars, hostVars, link, queue, calls,
                 waitRes, replies, mounted, stdinGiven, stdinBuf>>

(* cleanup runs as soon as ExitCode is called. *)
ServeExitCodeUnmounts ==
  /\ server = "idle"
  /\ queue # <<>> /\ Head(queue) = "exitCode"
  /\ server' = IF waitRes = None THEN "wait" ELSE "answer"
  /\ mounted' = FALSE
  /\ UNCHANGED <<procVars, outVars, ropen, pumpVars, hostVars, link, queue, calls,
                 waitRes, replies, stdinVars>>

(* A status that is not there to take counts as success. *)
WaitLenient ==
  /\ server = "wait"
  /\ \/ proc = "zombie" /\ proc' = "reaped" /\ waitRes' = status
     \/ proc \in {"stolen", "reaped"} /\ waitRes' \in Statuses /\ UNCHANGED proc
  /\ server' = "close"
  /\ UNCHANGED <<status, reaper, outVars, ropen, pumpVars, hostVars, link, queue,
                 calls, replies, mounted, stdinVars>>

(* The pump's calls are plain ones nobody waits for, with no flow control. *)
PumpWritesUnbounded(s) ==
  /\ pump[s] = "write"
  /\ link
  /\ wire' = [wire EXCEPT ![s] = Append(@, hand[s])]
  /\ pump' = [pump EXCEPT ![s] = "read"]
  /\ hand' = [hand EXCEPT ![s] = DoneMark]
  /\ UNCHANGED <<procVars, outVars, ropen, received, doneSeen, link, callVars, stdinVars>>
-----------------------------------------------------------------------------
(* The container: runc and the processes under it. *)

(* A write to stdout or stderr, which blocks on a full pipe. *)
ContainerWrites(s) ==
  /\ wopen[s] /\ ropen[s]
  /\ written[s] < MaxChunks /\ Len(pipe[s]) < PipeCap
  /\ written' = [written EXCEPT ![s] = @ + 1]
  /\ pipe' = [pipe EXCEPT ![s] = Append(@, written[s] + 1)]
  /\ UNCHANGED <<procVars, wopen, ropen, pumpVars, hostVars, link, callVars, stdinVars>>

(* The last process that has the stream open closes it.  A process runc    *)
(* leaves behind may have it open longer than runc lives.                  *)
ContainerCloses(s) ==
  /\ wopen[s]
  /\ wopen' = [wopen EXCEPT ![s] = FALSE]
  /\ UNCHANGED <<procVars, written, pipe, ropen, pumpVars, hostVars, link, callVars,
                 stdinVars>>

ContainerReads ==
  /\ proc = "running" /\ stdinBuf > 0
  /\ stdinBuf' = stdinBuf - 1
  /\ UNCHANGED <<procVars, outVars, ropen, pumpVars, hostVars, link, callVars,
                 stdinGiven, stdinOpen>>

ContainerExits ==
  /\ proc = "running"
  /\ proc' = "zombie"
  /\ status' \in Statuses
  /\ UNCHANGED <<reaper, outVars, ropen, pumpVars, hostVars, link, callVars, stdinVars>>

(* reapZombies: Wait4(-1) takes any child that has exited, and the loop    *)
(* ends with ECHILD when there is none at all.                             *)
ReapZombies ==
  /\ reaper
  /\ \/ proc = "zombie" /\ proc' = "stolen" /\ UNCHANGED reaper
     \/ proc \in {"reaped", "stolen"} /\ reaper' = FALSE /\ UNCHANGED proc
  /\ UNCHANGED <<status, outVars, ropen, pumpVars, hostVars, link, callVars, stdinVars>>
-----------------------------------------------------------------------------
(* pumpToByteStream. *)

PumpReads(s) ==
  /\ pump[s] = "read"
  /\ ropen[s] /\ pipe[s] # <<>>
  /\ hand' = [hand EXCEPT ![s] = Head(pipe[s])]
  /\ pipe' = [pipe EXCEPT ![s] = Tail(@)]
  /\ pump' = [pump EXCEPT ![s] = "write"]
  /\ UNCHANGED <<procVars, written, wopen, ropen, hostVars, link, callVars, stdinVars>>

(* dst.Write: a streaming call, sent when flow control allows; it fails    *)
(* when the connection is gone, and the pump returns.                      *)
PumpWrites(s) ==
  /\ pump[s] = "write"
  /\ \/ /\ link /\ Len(wire[s]) < Window
        /\ wire' = [wire EXCEPT ![s] = Append(@, hand[s])]
        /\ pump' = [pump EXCEPT ![s] = "read"]
        /\ UNCHANGED ropen
     \/ /\ ~link
        /\ pump' = [pump EXCEPT ![s] = "gone"]
        /\ ropen' = [ropen EXCEPT ![s] = FALSE]
        /\ UNCHANGED wire
  /\ hand' = [hand EXCEPT ![s] = DoneMark]
  /\ UNCHANGED <<procVars, outVars, received, doneSeen, link, callVars, stdinVars>>

(* Read returns io.EOF: nothing is left and nobody can write. *)
PumpEOF(s) ==
  /\ pump[s] = "read"
  /\ ropen[s] /\ pipe[s] = <<>> /\ ~wopen[s]
  /\ pump' = [pump EXCEPT ![s] = "done"]
  /\ UNCHANGED <<procVars, outVars, ropen, hand, hostVars, link, callVars, stdinVars>>

(* Read returns os.ErrClosed: cmd.Wait has closed the read end.  What is   *)
(* left in the pipe is lost and the host is not told.                      *)
PumpClosed(s) ==
  /\ pump[s] = "read"
  /\ ~ropen[s]
  /\ pump' = [pump EXCEPT ![s] = "gone"]
  /\ UNCHANGED <<procVars, outVars, ropen, hand, hostVars, link, callVars, stdinVars>>

(* dst.Done, then its result, which is ignored; the deferred Close. *)
PumpDone(s) ==
  /\ \/ /\ pump[s] = "done" /\ link
        /\ wire' = [wire EXCEPT ![s] = Append(@, DoneMark)]
        /\ pump' = [pump EXCEPT ![s] = "await"]
        /\ UNCHANGED ropen
     \/ /\ \/ pump[s] \in {"done", "await"} /\ ~link
           \/ pump[s] = "await" /\ doneSeen[s]
        /\ pump' = [pump EXCEPT ![s] = "gone"]
        /\ ropen' = [ropen EXCEPT ![s] = FALSE]
        /\ UNCHANGED wire
  /\ UNCHANGED <<procVars, outVars, hand, received, doneSeen, link, callVars, stdinVars>>

Pump(s) == PumpReads(s) \/ PumpWrites(s) \/ PumpEOF(s) \/ PumpClosed(s) \/ PumpDone(s)

(* The host's ByteStream handles the next call made on it. *)
HostHandles(s) ==
  /\ wire[s] # <<>>
  /\ wire' = [wire EXCEPT ![s] = Tail(@)]
  /\ IF Head(wire[s]) = DoneMark
     THEN doneSeen' = [doneSeen EXCEPT ![s] = TRUE] /\ UNCHANGED received
     ELSE received' = [received EXCEPT ![s] = Append(@, Head(wire[s]))] /\ UNCHANGED doneSeen
  /\ UNCHANGED <<procVars, outVars, ropen, pumpVars, link, callVars, stdinVars>>
-----------------------------------------------------------------------------
(* The taskServer.  No handler calls call.Go(), so calls run one by one. *)

(* The host calls Stdin or ExitCode. *)
HostCalls(m) ==
  /\ link /\ calls < MaxCalls
  /\ calls' = calls + 1
  /\ queue' = Append(queue, m)
  /\ UNCHANGED <<procVars, outVars, ropen, pumpVars, hostVars, link, server, waitRes,
                 replies, mounted, stdinVars>>

ServeStdin ==
  /\ server = "idle"
  /\ queue # <<>> /\ Head(queue) = "stdin"
  /\ queue' = Tail(queue)
  /\ stdinGiven' = TRUE
  /\ UNCHANGED <<procVars, outVars, ropen, pumpVars, hostVars, link, calls, server,
                 waitRes, replies, mounted, stdinOpen, stdinBuf>>

ServeExitCode ==
  /\ server = "idle"
  /\ queue # <<>> /\ Head(queue) = "exitCode"
  /\ server' = IF waitRes = None THEN "wait" ELSE "answer"
  /\ UNCHANGED <<procVars, outVars, ropen, pumpVars, hostVars, link, queue, calls,
                 waitRes, replies, mounted, stdinVars>>

(* cmd.Wait, first half: the process's status, or ECHILD once reapZombies  *)
(* has taken it, which is no ExitError.                                    *)
Wait ==
  /\ server = "wait"
  /\ \/ proc = "zombie" /\ proc' = "reaped" /\ waitRes' = status
     \/ proc \in {"stolen", "reaped"} /\ waitRes' = WaitError /\ UNCHANGED proc
  /\ server' = "close"
  /\ UNCHANGED <<status, reaper, outVars, ropen, pumpVars, hostVars, link, queue,
                 calls, replies, mounted, stdinVars>>

(* cmd.Wait, second half: it closes the pipes StdinPipe, StdoutPipe and    *)
(* StderrPipe made.                                                        *)
ClosePipes ==
  /\ server = "close"
  /\ server' = "cleanup"
  /\ ropen' = [s \in Streams |-> FALSE]
  /\ stdinOpen' = FALSE
  /\ UNCHANGED <<procVars, outVars, pumpVars, hostVars, link, queue, calls, waitRes,
                 replies, mounted, stdinGiven, stdinBuf>>

(* cleanup: Unmount, whose error (busy, say) is ignored. *)
Cleanup ==
  /\ server = "cleanup"
  /\ server' = "answer"
  /\ mounted' \in {mounted, FALSE}
  /\ UNCHANGED <<procVars, outVars, ropen, pumpVars, hostVars, link, queue, calls,
                 waitRes, replies, stdinVars>>

Answer ==
  /\ server = "answer"
  /\ server' = "idle"
  /\ queue' = Tail(queue)
  /\ replies' = IF link THEN Append(replies, waitRes) ELSE replies
  /\ UNCHANGED <<procVars, outVars, ropen, pumpVars, hostVars, link, calls, waitRes,
                 mounted, stdinVars>>

Server == ServeStdin \/ ServeExitCode \/ Wait \/ ClosePipes \/ Cleanup \/ Answer

(* stdinStreamServer.Write: it fails once the pipe is closed and blocks    *)
(* while the pipe is full.                                                 *)
StdinWrite ==
  /\ stdinGiven /\ link /\ stdinOpen
  /\ stdinBuf < PipeCap
  /\ stdinBuf' = stdinBuf + 1
  /\ UNCHANGED <<procVars, outVars, ropen, pumpVars, hostVars, link, callVars,
                 stdinGiven, stdinOpen>>

StdinDone ==
  /\ stdinGiven /\ link
  /\ stdinOpen' = FALSE
  /\ UNCHANGED <<procVars, outVars, ropen, pumpVars, hostVars, link, callVars,
                 stdinGiven, stdinBuf>>

(* The RPC connection is lost: calls in flight to the host are dropped,    *)
(* and of the calls that wait for the taskServer any suffix may be.        *)
LinkDrops ==
  /\ link
  /\ link' = FALSE
  /\ wire' = [s \in Streams |-> <<>>]
  /\ \E n \in (IF server = "idle" THEN 0 ELSE 1)..Len(queue) : queue' = SubSeq(queue, 1, n)
  /\ UNCHANGED <<procVars, outVars, ropen, pumpVars, received, doneSeen, calls, server,
                 waitRes, replies, mounted, stdinVars>>

Next ==
  \/ \E s \in Streams : ContainerWrites(s) \/ ContainerCloses(s)
  \/ ContainerReads \/ ContainerExits
  \/ ReapZombies
  \/ \E s \in Streams : Pump(s) \/ HostHandles(s)
  \/ \E m \in {"stdin", "exitCode"} : HostCalls(m)
  \/ Server
  \/ StdinWrite \/ StdinDone
  \/ LinkDrops

Spec == Init /\ [][Next]_vars

(* Goroutines and RPC handlers that can run do run.  The container may end *)
(* at any time; it reads its stdin and, if it has come to the end of that, *)
(* ends (like cat).  Nothing makes the host call, or the container write.  *)
Fairness ==
  /\ \A s \in Streams : WF_vars(Pump(s)) /\ WF_vars(HostHandles(s))
  /\ WF_vars(Server)
  /\ WF_vars(ContainerReads)
  /\ WF_vars(~stdinOpen /\ stdinBuf = 0 /\ ContainerExits)

FairSpec == Spec /\ Fairness
-----------------------------------------------------------------------------
(* What is true of a task. *)

TaskTypes ==
  /\ proc \in {"running", "zombie", "reaped", "stolen"}
  /\ status \in Statuses \cup {None}
  /\ server \in {"idle", "wait", "close", "cleanup", "answer"}
  /\ waitRes \in Statuses \cup {WaitError, None}
  /\ calls \in 0..MaxCalls /\ stdinBuf \in 0..PipeCap

CallTypes ==
  /\ queue \in Seq({"stdin", "exitCode"})
  /\ replies \in Seq(Statuses \cup {WaitError})

FlagTypes ==
  /\ reaper \in BOOLEAN /\ link \in BOOLEAN /\ mounted \in BOOLEAN
  /\ stdinGiven \in BOOLEAN /\ stdinOpen \in BOOLEAN

StreamTypes ==
  /\ wopen \in [Streams -> BOOLEAN] /\ ropen \in [Streams -> BOOLEAN]
  /\ doneSeen \in [Streams -> BOOLEAN]
  /\ pump \in [Streams -> {"read", "write", "done", "await", "gone"}]
  /\ written \in [Streams -> 0..MaxChunks] /\ hand \in [Streams -> 0..MaxChunks]
  /\ pipe \in [Streams -> Seq(Chunk)]
  /\ wire \in [Streams -> Seq(0..MaxChunks)]
  /\ received \in [Streams -> Seq(Chunk)]

Left(s) == Len(pipe[s])                \* chunks no pump has read
OnWire(s) == Len(wire[s])              \* calls in flight

BuffersBounded(s) ==
  /\ Left(s) <= PipeCap
  /\ OnWire(s) <= Window + (IF pump[s] = "await" THEN 1 ELSE 0)

(* Every variable keeps its type; pipes and flow control keep their bounds. *)
TypeOK ==
  /\ TaskTypes /\ CallTypes /\ FlagTypes /\ StreamTypes
  /\ \A s \in Streams : BuffersBounded(s)

(* done tells the host that the output is complete: the pump calls it only *)
(* at EOF, never because cmd.Wait closed the pipe under it.                *)
DoneIsComplete ==
  \A s \in Streams : doneSeen[s] => Len(received[s]) = written[s] /\ ~wopen[s]

(* Every ExitCode call gets the same answer: the container's own exit code *)
(* or, only if reapZombies took the status first, the wait error.          *)
ExitTruthful ==
  \A i \in 1..Len(replies) :
    replies[i] = IF proc = "stolen" THEN WaitError ELSE status

(* The rootfs overlay is never unmounted under a running container. *)
UnmountAfterExit == ~mounted => proc # "running"

(* A task keeps what AbstractTask promises the host: whatever the pumps,   *)
(* the reaper, repeated calls, cmd.Wait's closing of the pipes and a lost  *)
(* connection do, every step is one of the promise's or does not show.  So *)
(* the host sees a prefix of what the container wrote, in order and once,  *)
(* and an outcome once settled never changes.                              *)
Promise == INSTANCE AbstractTask WITH
  Outcomes <- Statuses \cup {WaitError}, running <- (proc = "running"),
  out <- written, open <- wopen, got <- received, complete <- doneSeen,
  outcome <- waitRes, answers <- replies
KeepsPromise == Promise!Spec

(* What the end-to-end test expects (e2e_test.go): when ExitCode answers,  *)
(* the host has all that the container wrote.                              *)
OutputBeforeExitCode ==
  replies # <<>> => \A s \in Streams : Len(received[s]) = written[s]

(* Every call on the Task is answered or dropped with the connection, once *)
(* the container has exited or its stdin is closed.                        *)
CallsAnswered == (queue # <<>> /\ (proc # "running" \/ ~stdinOpen)) ~> queue = <<>>

(* No pump outlives the task for long: closing the pipes ends it even when *)
(* a process left behind by the container keeps its stdout open.           *)
PumpsEnd == waitRes # None ~> \A s \in Streams : pump[s] = "gone"
=============================================================================
