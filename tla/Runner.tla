------------------------------- MODULE Runner -------------------------------
(***************************************************************************)
(* VMRunner.Run and the VMContext it returns (vm/runner.go): one call of   *)
(* Run with every goroutine it starts, the channels between them, the      *)
(* readiness socket, the vmmanager child process and the caller.           *)
(*                                                                         *)
(*   run        the goroutine that called Run (lines 323-519)              *)
(*   acceptor   accepts deliveries on the readiness socket (365-414)       *)
(*   waited     the goroutine that sends cmd.Wait() to procWaitCh (417)    *)
(*   forwarder  copies acceptCh to the client's proxyCh (495-500)          *)
(*   watcher    tears the VM down when vmmanager exits (502-515)           *)
(*                                                                         *)
(* vmmanager delivers each vsock connection it accepts from the guest as   *)
(* one connection on the readiness socket, carrying the vsock port and the *)
(* file descriptor.  A delivery is "broken" when vmmanager connects and    *)
(* then closes without a usable message (its sendmsg failed, or it died in *)
(* between).  What a step does to several channels at once is what one     *)
(* goroutine does between two points where it can block.                   *)
(***************************************************************************)
EXTENDS Integers, Sequences, SequencesExt

CONSTANTS
  AcceptCap,     \* capacity of acceptCh (32 in the code)
  ProxyCap,      \* capacity of proxyCh (64 in the code)
  MaxConns,      \* bound: deliveries vmmanager makes in one run
  ClientDrains,  \* does the caller read ProxyConnCh() (main.go does not)
  NoConn         \* "no connection"

ASSUME RunnerConstants ==
  /\ AcceptCap \in Nat \ {0}
  /\ ProxyCap \in Nat \ {0}
  /\ MaxConns \in Nat
  /\ ClientDrains \in BOOLEAN

Kinds == {"agent", "proxy", "broken"}
Conn == [id : 1..MaxConns, kind : Kinds]

ASSUME NoConnAssumption == NoConn \notin Conn

VARIABLES
  run,          \* control of the Run goroutine
  failure,      \* why Run returned an error, or "none"
  cancelled,    \* ctx is done
  lock,         \* the VM lock file: "free" or "held" by this runner
  releases,     \* history: how many times lock.Release was called
  mgr,          \* the vmmanager process
  waited,       \* procWaitCh: "empty", "full", or its value "taken"
  listening,    \* the readiness listener is open
  sockFile,     \* the readiness socket path exists
  backlog,      \* deliveries connected and not yet accepted
  sent,         \* number of deliveries made so far
  acceptor,     \* control of the acceptor goroutine
  hand,         \* the delivery the acceptor is working on
  accepted,     \* history: the descriptors received, in order
  acceptCh,     \* acceptCh's buffer
  acceptClosed, \* acceptCh is closed
  acceptDone,   \* acceptDone is closed
  readyErr,     \* readyErrCh holds an error
  ready,        \* readyCh holds the latency
  agentRWC,     \* the connection the agent RPC runs on
  rpc,          \* the RPC connection on it
  pending,      \* pendingProxyConns
  forwarder,    \* control of the forwarding goroutine
  fhand,        \* the connection it holds
  proxyCh,      \* proxyCh's buffer
  proxyClosed,  \* proxyCh is closed
  watcher,      \* control of the goroutine that waits for vmmanager's exit
  closedBy,     \* who ran closeOnce's function, or "nobody"
  waitCh,       \* VMContext.waitCh
  delivered     \* history: connections the client has read from proxyCh

acceptVars == <<acceptor, hand, accepted, acceptClosed, acceptDone>>
sockVars == <<listening, sockFile, backlog, sent>>
lockVars == <<lock, releases, closedBy>>
proxyVars == <<forwarder, fhand, proxyClosed, delivered>>
vars == <<run, failure, cancelled, lock, releases, mgr, waited, listening,
          sockFile, backlog, sent, acceptor, hand, accepted, acceptCh,
          acceptClosed, acceptDone, readyErr, ready, agentRWC, rpc, pending,
          forwarder, fhand, proxyCh, proxyClosed, watcher, closedBy, waitCh,
          delivered>>

(* A socket file may be left from a run that crashed. *)
Init ==
  /\ run = "start" /\ failure = "none" /\ cancelled = FALSE
  /\ lock = "free" /\ releases = 0 /\ closedBy = "nobody"
  /\ mgr = "none" /\ waited = "empty"
  /\ listening = FALSE /\ sockFile \in BOOLEAN /\ backlog = <<>> /\ sent = 0
  /\ acceptor = "off" /\ hand = NoConn /\ accepted = <<>>
  /\ acceptCh = <<>> /\ acceptClosed = FALSE /\ acceptDone = FALSE
  /\ readyErr = FALSE /\ ready = FALSE
  /\ agentRWC = NoConn /\ rpc = "none" /\ pending = <<>>
  /\ forwarder = "off" /\ fhand = NoConn
  /\ proxyCh = <<>> /\ proxyClosed = FALSE /\ delivered = <<>>
  /\ watcher = "off" /\ waitCh = "empty"
-----------------------------------------------------------------------------
(* Pieces several handlers share. *)

(* The deferred lock.Release of a Run that returns an error. *)
ReleaseLock ==
  /\ lock' = "free"
  /\ releases' = releases + 1
  /\ UNCHANGED closedBy

(* readyListener.Close(): pending deliveries are dropped and the socket    *)
(* file of a net.Listen("unix") listener is unlinked.                      *)
CloseListener ==
  /\ listening' = FALSE
  /\ sockFile' = FALSE
  /\ backlog' = <<>>
  /\ UNCHANGED sent

(* cmd.Process.Kill() and Signal(SIGTERM): vmmanager has yet to die. *)
SignalManager == mgr' = IF mgr = "running" THEN "dying" ELSE mgr

(* Mutated form: Close without closeOnce. *)
CloseTwice(who) ==
  /\ closedBy' = who
  /\ rpc' = "closed"
  /\ lock' = "free"
  /\ releases' = releases + 1

(* VMContext.Close(): closeOnce, then the RPC connection, its descriptor   *)
(* and the lock.                                                           *)
Close(who) ==
  IF closedBy = "nobody"
  THEN /\ closedBy' = who
       /\ rpc' = "closed"
       /\ lock' = "free"
       /\ releases' = releases + 1
  ELSE UNCHANGED <<closedBy, rpc, lock, releases>>
-----------------------------------------------------------------------------
(* Mutated forms: what a plausible slip in the code would make of a step.  *)

(* Every agent-port connection becomes agentRWC: "agentRWC == nil" dropped. *)
TakeAcceptedAgain ==
  /\ run = "select"
  /\ acceptCh # <<>>
  /\ acceptCh' = Tail(acceptCh)
  /\ LET c == Head(acceptCh) IN
     IF c.kind = "agent"
     THEN agentRWC' = c /\ ready' = TRUE /\ UNCHANGED pending
     ELSE pending' = Append(pending, c) /\ UNCHANGED <<agentRWC, ready>>
  /\ UNCHANGED <<run, failure, cancelled, lockVars, mgr, waited, sockVars,
                 acceptVars, readyErr, rpc, proxyVars, proxyCh, watcher, waitCh>>

(* An error path kills vmmanager and does not wait for it. *)
ReapAtOnce ==
  /\ run = "reap"
  /\ run' = "drain"
  /\ CloseListener
  /\ UNCHANGED <<failure, cancelled, lockVars, mgr, waited, acceptVars, acceptCh,
                 readyErr, ready, agentRWC, rpc, pending, proxyVars, proxyCh, watcher,
                 waitCh>>

(* An error path waits for the acceptor without closing its listener. *)
ReapKeepsListener ==
  /\ run = "reap"
  /\ waited = "full" /\ waited' = "taken"
  /\ run' = "drain"
  /\ UNCHANGED <<failure, cancelled, lockVars, mgr, sockVars, acceptVars, acceptCh,
                 readyErr, ready, agentRWC, rpc, pending, proxyVars, proxyCh, watcher,
                 waitCh>>

(* acceptCh made without a bound. *)
PushAcceptedUnbounded ==
  /\ acceptor = "push"
  /\ acceptCh' = Append(acceptCh, hand)
  /\ hand' = NoConn
  /\ acceptor' = "accept"
  /\ UNCHANGED <<run, failure, cancelled, lockVars, mgr, waited, sockVars, accepted,
                 acceptClosed, acceptDone, readyErr, ready, agentRWC, rpc, pending,
                 proxyVars, proxyCh, watcher, waitCh>>

(* The watcher forgets readyListener.Close(). *)
WatchExitKeepsListener ==
  /\ watcher = "proc"
  /\ waited = "full" /\ waited' = "taken"
  /\ watcher' = "drain"
  /\ UNCHANGED <<run, failure, cancelled, lockVars, mgr, sockVars, acceptVars, acceptCh,
                 readyErr, ready, agentRWC, rpc, pending, proxyVars, proxyCh, waitCh>>

(* The watcher does not wait for acceptDone. *)
WatchDrainAtOnce ==
  /\ watcher = "drain"
  /\ watcher' = "close"
  /\ sockFile' = FALSE
  /\ UNCHANGED <<run, failure, cancelled, lockVars, mgr, waited, listening, backlog,
                 sent, acceptVars, acceptCh, readyErr, ready, agentRWC, rpc, pending,
                 proxyVars, proxyCh, waitCh>>
-----------------------------------------------------------------------------
(* Run, up to the start of vmmanager. *)

AcquireLock ==
  /\ run = "start"
  /\ \/ run' = "prepare" /\ lock' = "held" /\ UNCHANGED failure
     \/ run' = "failed" /\ failure' = "lock" /\ UNCHANGED lock
  /\ UNCHANGED <<cancelled, releases, closedBy, mgr, waited, sockVars, acceptVars,
                 acceptCh, readyErr, ready, agentRWC, rpc, pending, proxyVars,
                 proxyCh, watcher, waitCh>>

(* Command (validation, stat of the manager binary), MkdirAll, Remove of a *)
(* stale socket file, Listen.                                              *)
Prepare ==
  /\ run = "prepare"
  /\ \/ /\ run' = "spawn"
        /\ listening' = TRUE /\ sockFile' = TRUE
        /\ UNCHANGED <<failure, lockVars>>
     \/ /\ run' = "failed" /\ failure' = "setup"
        /\ sockFile' \in {sockFile, FALSE}
        /\ ReleaseLock
        /\ UNCHANGED listening
  /\ UNCHANGED <<cancelled, mgr, waited, backlog, sent, acceptVars, acceptCh,
                 readyErr, ready, agentRWC, rpc, pending, proxyVars, proxyCh,
                 watcher, waitCh>>

(* cmd.Start(), which refuses a context that is done already. *)
Spawn ==
  /\ run = "spawn"
  /\ \/ /\ ~cancelled
        /\ run' = "select" /\ mgr' = "running" /\ acceptor' = "accept"
        /\ UNCHANGED <<failure, lockVars, sockVars>>
     \/ /\ run' = "failed" /\ failure' = "spawn"
        /\ CloseListener
        /\ ReleaseLock
        /\ UNCHANGED <<mgr, acceptor>>
  /\ UNCHANGED <<cancelled, waited, hand, accepted, acceptClosed, acceptDone,
                 acceptCh, readyErr, ready, agentRWC, rpc, pending, proxyVars,
                 proxyCh, watcher, waitCh>>
-----------------------------------------------------------------------------
(* Run's select loop: any case that is ready may be taken. *)

TakeAccepted ==
  /\ run = "select"
  /\ acceptCh # <<>>
  /\ acceptCh' = Tail(acceptCh)
  /\ LET c == Head(acceptCh) IN
     IF c.kind = "agent" /\ agentRWC = NoConn
     THEN agentRWC' = c /\ ready' = TRUE /\ UNCHANGED pending
     ELSE pending' = Append(pending, c) /\ UNCHANGED <<agentRWC, ready>>
  /\ UNCHANGED <<run, failure, cancelled, lockVars, mgr, waited, sockVars,
                 acceptVars, readyErr, rpc, proxyVars, proxyCh, watcher, waitCh>>

(* acceptCh closed: Run returns at once, without stopping vmmanager.       *)
TakeClosed ==
  /\ run = "select"
  /\ acceptCh = <<>> /\ acceptClosed
  /\ run' = "failed" /\ failure' = "closed"
  /\ ReleaseLock
  /\ UNCHANGED <<cancelled, mgr, waited, sockVars, acceptVars, acceptCh, readyErr,
                 ready, agentRWC, rpc, pending, proxyVars, proxyCh, watcher, waitCh>>

TakeReady ==
  /\ run = "select"
  /\ ready
  /\ ready' = FALSE
  /\ run' = IF agentRWC # NoConn THEN "bootstrap" ELSE "select"
  /\ UNCHANGED <<failure, cancelled, lockVars, mgr, waited, sockVars, acceptVars,
                 acceptCh, readyErr, agentRWC, rpc, pending, proxyVars, proxyCh,
                 watcher, waitCh>>

(* readyErrCh or ctx.Done(): kill vmmanager, then wait for it. *)
TakeErrorOrCancel ==
  /\ run = "select"
  /\ \/ readyErr /\ readyErr' = FALSE /\ failure' = "accept"
     \/ cancelled /\ failure' = "cancelled" /\ UNCHANGED readyErr
  /\ run' = "reap"
  /\ SignalManager
  /\ UNCHANGED <<cancelled, lockVars, waited, sockVars, acceptVars, acceptCh, ready,
                 agentRWC, rpc, pending, proxyVars, proxyCh, watcher, waitCh>>

TakeExit ==
  /\ run = "select"
  /\ waited = "full" /\ waited' = "taken"
  /\ run' = "drain" /\ failure' = "exited"
  /\ CloseListener
  /\ UNCHANGED <<cancelled, lockVars, mgr, acceptVars, acceptCh, readyErr, ready,
                 agentRWC, rpc, pending, proxyVars, proxyCh, watcher, waitCh>>

(* <-procWaitCh of an error path, then readyListener.Close(). *)
Reap ==
  /\ run = "reap"
  /\ waited = "full" /\ waited' = "taken"
  /\ run' = "drain"
  /\ CloseListener
  /\ UNCHANGED <<failure, cancelled, lockVars, mgr, acceptVars, acceptCh, readyErr,
                 ready, agentRWC, rpc, pending, proxyVars, proxyCh, watcher, waitCh>>

(* <-acceptDone of an error path, Remove(socket), return, deferred Release. *)
Drain ==
  /\ run = "drain"
  /\ acceptDone
  /\ run' = "failed"
  /\ sockFile' = FALSE
  /\ ReleaseLock
  /\ UNCHANGED <<failure, cancelled, mgr, waited, listening, backlog, sent, acceptVars,
                 acceptCh, readyErr, ready, agentRWC, rpc, pending, proxyVars,
                 proxyCh, watcher, waitCh>>
-----------------------------------------------------------------------------
(* Run, from the agent's connection to the VMContext. *)

Bootstrap ==
  /\ run = "bootstrap"
  /\ \/ run' = "handoff" /\ rpc' = "open" /\ UNCHANGED <<failure, mgr>>
     \/ run' = "reap" /\ rpc' = "closed" /\ failure' = "bootstrap" /\ SignalManager
  /\ UNCHANGED <<cancelled, lockVars, waited, sockVars, acceptVars, acceptCh, readyErr,
                 ready, agentRWC, pending, proxyVars, proxyCh, watcher, waitCh>>

(* vmCtx.proxyCh <- accepted, for each pending connection. *)
HandOff ==
  /\ run = "handoff"
  /\ pending # <<>> /\ Len(proxyCh) < ProxyCap
  /\ proxyCh' = Append(proxyCh, Head(pending))
  /\ pending' = Tail(pending)
  /\ UNCHANGED <<run, failure, cancelled, lockVars, mgr, waited, sockVars, acceptVars,
                 acceptCh, readyErr, ready, agentRWC, rpc, proxyVars, watcher, waitCh>>

(* The two goroutines start, lockHeld = false, return vmCtx. *)
ReturnContext ==
  /\ run = "handoff"
  /\ pending = <<>>
  /\ run' = "running" /\ forwarder' = "recv" /\ watcher' = "proc"
  /\ UNCHANGED <<failure, cancelled, lockVars, mgr, waited, sockVars, acceptVars,
                 acceptCh, readyErr, ready, agentRWC, rpc, pending, fhand, proxyCh,
                 proxyClosed, waitCh, delivered>>

Run ==
  \/ AcquireLock \/ Prepare \/ Spawn
  \/ TakeAccepted \/ TakeClosed \/ TakeReady \/ TakeErrorOrCancel \/ TakeExit
  \/ Reap \/ Drain
  \/ Bootstrap \/ HandOff \/ ReturnContext
-----------------------------------------------------------------------------
(* The acceptor goroutine. *)

Accept ==
  /\ acceptor = "accept"
  /\ listening /\ backlog # <<>>
  /\ acceptor' = "recv"
  /\ hand' = Head(backlog)
  /\ backlog' = Tail(backlog)
  /\ UNCHANGED <<run, failure, cancelled, lockVars, mgr, waited, listening, sockFile,
                 sent, accepted, acceptClosed, acceptDone, acceptCh, readyErr, ready,
                 agentRWC, rpc, pending, proxyVars, proxyCh, watcher, waitCh>>

(* Accept returns an error: net.ErrClosed after readyListener.Close(), any *)
(* other one is offered to readyErrCh.  Either way the goroutine returns.  *)
AcceptFails ==
  /\ acceptor = "accept"
  /\ \/ ~listening /\ UNCHANGED readyErr
     \/ listening /\ readyErr' = TRUE
  /\ acceptor' = "finish"
  /\ UNCHANGED <<run, failure, cancelled, lockVars, mgr, waited, sockVars, hand,
                 accepted, acceptClosed, acceptDone, acceptCh, ready, agentRWC, rpc,
                 pending, proxyVars, proxyCh, watcher, waitCh>>

(* recvFD, and the error return for a broken delivery. *)
RecvFD ==
  /\ acceptor = "recv"
  /\ IF hand.kind = "broken"
     THEN /\ acceptor' = "finish" /\ hand' = NoConn /\ readyErr' = TRUE
          /\ UNCHANGED accepted
     ELSE /\ acceptor' = "push" /\ accepted' = Append(accepted, hand)
          /\ UNCHANGED <<hand, readyErr>>
  /\ UNCHANGED <<run, failure, cancelled, lockVars, mgr, waited, sockVars,
                 acceptClosed, acceptDone, acceptCh, ready, agentRWC, rpc, pending,
                 proxyVars, proxyCh, watcher, waitCh>>

(* acceptCh <- ProxyConn{...}, which blocks while the buffer is full. *)
PushAccepted ==
  /\ acceptor = "push"
  /\ Len(acceptCh) < AcceptCap
  /\ acceptCh' = Append(acceptCh, hand)
  /\ hand' = NoConn
  /\ acceptor' = "accept"
  /\ UNCHANGED <<run, failure, cancelled, lockVars, mgr, waited, sockVars, accepted,
                 acceptClosed, acceptDone, readyErr, ready, agentRWC, rpc, pending,
                 proxyVars, proxyCh, watcher, waitCh>>

(* The deferred calls, last one first: close(acceptDone), close(acceptCh). *)
AcceptorReturns ==
  /\ \/ acceptor = "finish" /\ acceptor' = "closing"
        /\ acceptDone' = TRUE /\ UNCHANGED acceptClosed
     \/ acceptor = "closing" /\ acceptor' = "gone"
        /\ acceptClosed' = TRUE /\ UNCHANGED acceptDone
  /\ UNCHANGED <<run, failure, cancelled, lockVars, mgr, waited, sockVars, hand,
                 accepted, acceptCh, readyErr, ready, agentRWC, rpc, pending,
                 proxyVars, proxyCh, watcher, waitCh>>

Acceptor == Accept \/ AcceptFails \/ RecvFD \/ PushAccepted \/ AcceptorReturns
-----------------------------------------------------------------------------
(* The forwarding goroutine. *)

TakeForward ==
  /\ forwarder = "recv"
  /\ acceptCh # <<>>
  /\ forwarder' = "push"
  /\ fhand' = Head(acceptCh)
  /\ acceptCh' = Tail(acceptCh)
  /\ UNCHANGED <<run, failure, cancelled, lockVars, mgr, waited, sockVars, acceptVars,
                 readyErr, ready, agentRWC, rpc, pending, proxyCh, proxyClosed,
                 delivered, watcher, waitCh>>

PushForward ==
  /\ forwarder = "push"
  /\ Len(proxyCh) < ProxyCap
  /\ forwarder' = "recv"
  /\ proxyCh' = Append(proxyCh, fhand)
  /\ fhand' = NoConn
  /\ UNCHANGED <<run, failure, cancelled, lockVars, mgr, waited, sockVars, acceptVars,
                 acceptCh, readyErr, ready, agentRWC, rpc, pending, proxyClosed,
                 delivered, watcher, waitCh>>

CloseProxyCh ==
  /\ forwarder = "recv"
  /\ acceptCh = <<>> /\ acceptClosed
  /\ forwarder' = "gone"
  /\ proxyClosed' = TRUE
  /\ UNCHANGED <<run, failure, cancelled, lockVars, mgr, waited, sockVars, acceptVars,
                 acceptCh, readyErr, ready, agentRWC, rpc, pending, fhand, proxyCh,
                 delivered, watcher, waitCh>>

Forwarder == TakeForward \/ PushForward \/ CloseProxyCh
-----------------------------------------------------------------------------
(* The goroutine that waits for vmmanager's exit. *)

WatchExit ==
  /\ watcher = "proc"
  /\ waited = "full" /\ waited' = "taken"
  /\ watcher' = "drain"
  /\ CloseListener
  /\ UNCHANGED <<run, failure, cancelled, lockVars, mgr, acceptVars, acceptCh, readyErr,
                 ready, agentRWC, rpc, pending, proxyVars, proxyCh, waitCh>>

WatchDrain ==
  /\ watcher = "drain"
  /\ acceptDone
  /\ watcher' = "close"
  /\ sockFile' = FALSE
  /\ UNCHANGED <<run, failure, cancelled, lockVars, mgr, waited, listening, backlog,
                 sent, acceptVars, acceptCh, readyErr, ready, agentRWC, rpc, pending,
                 proxyVars, proxyCh, waitCh>>

WatchClose ==
  /\ watcher = "close"
  /\ watcher' = "send"
  /\ Close("watcher")
  /\ UNCHANGED <<run, failure, cancelled, mgr, waited, sockVars, acceptVars, acceptCh,
                 readyErr, ready, agentRWC, pending, proxyVars, proxyCh, waitCh>>

WatchSend ==
  /\ watcher = "send"
  /\ watcher' = "gone"
  /\ waitCh' = "full"
  /\ UNCHANGED <<run, failure, cancelled, lockVars, mgr, waited, sockVars, acceptVars,
                 acceptCh, readyErr, ready, agentRWC, rpc, pending, proxyVars, proxyCh>>

Watcher == WatchExit \/ WatchDrain \/ WatchClose \/ WatchSend
-----------------------------------------------------------------------------
(* vmmanager, seen from the runner. *)

(* sendConnectionFDOverUnixSocket: one delivery of kind k.                 *)
ManagerSends(k) ==
  /\ mgr \in {"running", "dying"}
  /\ listening
  /\ sent < MaxConns
  /\ sent' = sent + 1
  /\ backlog' = Append(backlog, [id |-> sent + 1, kind |-> k])
  /\ UNCHANGED <<run, failure, cancelled, lockVars, mgr, waited, listening, sockFile,
                 acceptVars, acceptCh, readyErr, ready, agentRWC, rpc, pending,
                 proxyVars, proxyCh, watcher, waitCh>>

(* vmmanager ends: on a signal, on its own, or with a VM that fails to start. *)
ManagerExits ==
  /\ mgr \in {"running", "dying"}
  /\ mgr' = "exited"
  /\ UNCHANGED <<run, failure, cancelled, lockVars, waited, sockVars, acceptVars,
                 acceptCh, readyErr, ready, agentRWC, rpc, pending, proxyVars,
                 proxyCh, watcher, waitCh>>

(* exec.CommandContext kills the process once ctx is done. *)
ContextKills ==
  /\ cancelled /\ mgr = "running"
  /\ mgr' = "dying"
  /\ UNCHANGED <<run, failure, cancelled, lockVars, waited, sockVars, acceptVars,
                 acceptCh, readyErr, ready, agentRWC, rpc, pending, proxyVars,
                 proxyCh, watcher, waitCh>>

(* procWaitCh <- cmd.Wait(). *)
WaitReturns ==
  /\ mgr = "exited" /\ waited = "empty"
  /\ waited' = "full"
  /\ UNCHANGED <<run, failure, cancelled, lockVars, mgr, sockVars, acceptVars, acceptCh,
                 readyErr, ready, agentRWC, rpc, pending, proxyVars, proxyCh, watcher,
                 waitCh>>
-----------------------------------------------------------------------------
(* The caller of Run. *)

Cancel ==
  /\ ~cancelled
  /\ cancelled' = TRUE
  /\ UNCHANGED <<run, failure, lockVars, mgr, waited, sockVars, acceptVars, acceptCh,
                 readyErr, ready, agentRWC, rpc, pending, proxyVars, proxyCh, watcher,
                 waitCh>>

ClientKill ==
  /\ run = "running"
  /\ SignalManager
  /\ UNCHANGED <<run, failure, cancelled, lockVars, waited, sockVars, acceptVars,
                 acceptCh, readyErr, ready, agentRWC, rpc, pending, proxyVars,
                 proxyCh, watcher, waitCh>>

ClientClose ==
  /\ run = "running"
  /\ Close("client")
  /\ UNCHANGED <<run, failure, cancelled, mgr, waited, sockVars, acceptVars, acceptCh,
                 readyErr, ready, agentRWC, pending, proxyVars, proxyCh, watcher, waitCh>>

ClientReads ==
  /\ ClientDrains
  /\ run = "running" /\ proxyCh # <<>>
  /\ delivered' = Append(delivered, Head(proxyCh))
  /\ proxyCh' = Tail(proxyCh)
  /\ UNCHANGED <<run, failure, cancelled, lockVars, mgr, waited, sockVars, acceptVars,
                 acceptCh, readyErr, ready, agentRWC, rpc, pending, forwarder, fhand,
                 proxyClosed, watcher, waitCh>>

Next ==
  \/ Run
  \/ Acceptor
  \/ Forwarder
  \/ Watcher
  \/ \E k \in Kinds : ManagerSends(k)
  \/ ManagerExits \/ ContextKills \/ WaitReturns
  \/ Cancel \/ ClientKill \/ ClientClose \/ ClientReads

Spec == Init /\ [][Next]_vars

(* Goroutines that can run do run, a signalled process dies, os/exec       *)
(* reacts to its context and to the child's exit, and a caller that drains *)
(* ProxyConnCh keeps doing so.  Nothing makes the guest connect, an open   *)
(* listener fail, the manager exit by itself, or the caller cancel, kill   *)
(* or close.                                                               *)
Fairness ==
  /\ WF_vars(Run) /\ WF_vars(Forwarder) /\ WF_vars(Watcher)
  /\ WF_vars(Accept \/ (~listening /\ AcceptFails) \/ RecvFD \/ PushAccepted
               \/ AcceptorReturns)
  /\ WF_vars(mgr = "dying" /\ ManagerExits)
  /\ WF_vars(ContextKills) /\ WF_vars(WaitReturns)
  /\ WF_vars(ClientReads)

FairSpec == Spec /\ Fairness
-----------------------------------------------------------------------------
(* What is true of a run. *)

Held(c) == IF c = NoConn THEN <<>> ELSE <<c>>

(* vmmanager is gone, its socket is closed and unlinked, and no goroutine  *)
(* will accept a delivery any more.                                        *)
TornDown == mgr = "exited" /\ ~listening /\ ~sockFile /\ acceptDone

(* Where Run can wait for ever, a buffer being full with nobody to read    *)
(* it: the hand-off loop (492-494) before anyone has proxyCh, and          *)
(* "<-acceptDone" of an error path (434-455) while the acceptor is in      *)
(* "acceptCh <-".                                                          *)
Stuck ==
  \/ run = "handoff" /\ pending # <<>> /\ Len(proxyCh) = ProxyCap
  \/ run = "drain" /\ acceptor = "push" /\ Len(acceptCh) = AcceptCap

(* TypeOK's parts: where each goroutine and process is, ... *)
ControlTypes ==
  /\ run \in {"start", "prepare", "spawn", "select", "reap", "drain", "bootstrap",
              "handoff", "running", "failed"}
  /\ failure \in {"none", "lock", "setup", "spawn", "closed", "accept", "cancelled",
                  "exited", "bootstrap"}
  /\ lock \in {"free", "held"} /\ releases \in Nat
  /\ closedBy \in {"nobody", "client", "watcher"}
  /\ mgr \in {"none", "running", "dying", "exited"}
  /\ waited \in {"empty", "full", "taken"}
  /\ acceptor \in {"off", "accept", "recv", "push", "finish", "closing", "gone"}
  /\ rpc \in {"none", "open", "closed"}
  /\ forwarder \in {"off", "recv", "push", "gone"}
  /\ watcher \in {"off", "proc", "drain", "close", "send", "gone"}
  /\ waitCh \in {"empty", "full"}

(* ... the flags, ... *)
FlagTypes ==
  {cancelled, listening, sockFile, acceptClosed, acceptDone, readyErr, ready, proxyClosed}
    \subseteq BOOLEAN

(* ... and the connections with the channels they travel through. *)
ChannelTypes ==
  /\ backlog \in Seq(Conn) /\ sent \in 0..MaxConns
  /\ hand \in Conn \cup {NoConn} /\ accepted \in Seq(Conn)
  /\ acceptCh \in Seq(Conn) /\ Len(acceptCh) <= AcceptCap
  /\ agentRWC \in Conn \cup {NoConn} /\ pending \in Seq(Conn)
  /\ fhand \in Conn \cup {NoConn}
  /\ proxyCh \in Seq(Conn) /\ Len(proxyCh) <= ProxyCap
  /\ delivered \in Seq(Conn)

(* Every variable keeps its type, and neither channel outgrows its buffer. *)
TypeOK == ControlTypes /\ FlagTypes /\ ChannelTypes

(* Where the connections for the client are, the one nearest to it first. *)
Route ==
  delivered \o proxyCh \o Held(fhand) \o pending \o acceptCh
    \o (IF acceptor = "push" THEN <<hand>> ELSE <<>>)

(* The client sees the guest's connections once each and in the order the  *)
(* acceptor received them, through three goroutines and the switch from    *)
(* Run's select loop (pendingProxyConns) to the forwarder; the agent's RPC *)
(* runs on the first connection to the agent port and on no other.         *)
RoutedInOrder ==
  \/ agentRWC = NoConn /\ Route = accepted
  \/ \E k \in 1..Len(accepted) :
       /\ agentRWC = accepted[k] /\ agentRWC.kind = "agent"
       /\ \A i \in 1..(k - 1) : accepted[i].kind # "agent"
       /\ Route = RemoveAt(accepted, k)

(* WaitCh reports the exit last: vmmanager is reaped, the readiness socket *)
(* is gone, the acceptor has returned, the RPC is closed and the lock is   *)
(* released by then (502-515), so whoever waits may start the VM again.    *)
ExitReportOrder == waitCh = "full" => TornDown /\ rpc = "closed" /\ lock = "free"

(* The VM lock outlives vmmanager and its socket on every path of Run and  *)
(* of VMContext but two: a caller that calls Close() before WaitCh fires,  *)
(* and the return at line 427 when acceptCh is closed before readiness.    *)
LockCoversRun ==
  mgr # "none" /\ lock = "free" => TornDown \/ closedBy = "client" \/ failure = "closed"

(* lock.Release runs at most once for the lock this Run took, though four  *)
(* parties call it (the deferred Release, client and watcher through       *)
(* Close): a second Release would unlink the next runner's lock file.      *)
ReleasedOnce == releases <= 1

(* Once Run has returned a VMContext, the exit of vmmanager is reported on *)
(* WaitCh, whatever the channels hold.                                     *)
ShutdownReported == run = "running" /\ mgr = "exited" ~> waitCh = "full"

(* Cancelling the context ends the run: Run returns its error, or the      *)
(* VMContext it returned reports the exit, unless Run is stuck on a full   *)
(* channel.                                                                *)
CancelEnds == cancelled ~> (run = "failed" \/ waitCh = "full" \/ Stuck)
-----------------------------------------------------------------------------
(* The inductive invariant behind the safety properties. *)

(* What a goroutine is about to send is a connection. *)
HandsFull ==
  /\ acceptor \in {"recv", "push"} => hand \in Conn
  /\ forwarder = "push" => fhand \in Conn

(* The lock is this Run's from Acquire to the one Release. *)
LockAccounted ==
  /\ lock = "held" <=>
       \/ run \in {"prepare", "spawn", "select", "reap", "drain", "bootstrap", "handoff"}
       \/ run = "running" /\ closedBy = "nobody"
  /\ releases = IF (run = "failed" /\ failure # "lock") \/ closedBy # "nobody" THEN 1 ELSE 0
  /\ closedBy # "nobody" => run = "running" /\ rpc = "closed"

(* Why Run fails tells how far it came. *)
FailureExplained ==
  /\ failure # "none" <=> run \in {"failed", "reap", "drain"}
  /\ failure \in {"lock", "setup", "spawn", "closed"} => run = "failed"
  /\ run \in {"start", "prepare", "spawn"} \/ failure \in {"lock", "setup", "spawn"}
       => mgr = "none"

(* Who passed a "<-procWaitCh" and a "<-acceptDone" finds the VM torn down. *)
TearDownOrder ==
  /\ waited # "empty" => mgr = "exited"
  /\ run = "drain" \/ watcher \in {"drain", "close", "send", "gone"}
       => mgr = "exited" /\ ~listening
  /\ run = "failed" /\ failure \in {"accept", "cancelled", "exited", "bootstrap"} => TornDown
  /\ watcher \in {"close", "send", "gone"} => TornDown

(* The watcher lives in a VMContext, closes it, and only then reports. *)
WatcherOrder ==
  /\ watcher # "off" <=> run = "running"
  /\ watcher \in {"send", "gone"} => closedBy # "nobody"
  /\ closedBy = "watcher" => watcher \in {"send", "gone"}
  /\ waitCh = "full" => watcher = "gone"

(* Which channels are still, or again, empty where Run and the forwarder   *)
(* are, and what Run has put aside before it met the agent's connection.   *)
ChannelOrder ==
  /\ run \in {"start", "prepare", "spawn"} => acceptor = "off"
  /\ run \notin {"handoff", "running"} => proxyCh = <<>>
  /\ run = "running" <=> forwarder # "off"
  /\ run = "running" => pending = <<>>
  /\ run # "running" => delivered = <<>>
  /\ forwarder # "push" => fhand = NoConn
  /\ agentRWC = NoConn => \A i \in 1..Len(pending) : pending[i].kind # "agent"

RunnerInv ==
  /\ TypeOK
  /\ HandsFull
  /\ ChannelOrder
  /\ RoutedInOrder
  /\ LockAccounted
  /\ FailureExplained
  /\ TearDownOrder
  /\ WatcherOrder
=============================================================================
