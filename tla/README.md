# Verification of vmrunner

TLA+ models of the vmrunner repository (a container runner for macOS backed by
Linux microVMs), TLC configurations that check them on small instances, and
TLAPS proofs of their main safety properties. `PROJECT.json` maps every
definition to the lines it models and lists runs, mutants, findings, hazards
and theorems.

## The system

| Part | Source | State | Operations |
|---|---|---|---|
| VM lock | `vm/lock/lock.go` | lock file, flock, pid record | `Acquire`, `Release` |
| VM runner | `vm/runner.go` | vmmanager child, readiness socket, `acceptCh`, `proxyCh`, `readyErrCh`, `procWaitCh`, `waitCh`, RPC connection, lock | `Run` and its four goroutines; `VMContext.Close`, `Kill`, `WaitCh`, `ProxyConnCh` |
| Launcher | `vm/cmd/vm/main.go`, `vm/state.go`, `vm/disk_ext4.go` | root image, state disk, VM directory | `main`, `EnsureVMRootImage`, `CreateExt4Disk` |
| Image cache | `vm/image_shared.go`, `vm/image_disk.go` | extracted rootfs, raw disks, ref-to-digest files | `PrepareSharedContainerRootFS`, `PrepareImageExt4Disk` |
| Host container client | `vm/container.go` | partial line of each stream | `RunContainer`, `linePrinterStream` |
| vmmanager | `manager/Sources/vmmanager/main.swift` | virtual machine, vsock listeners, kept connections | argument parsing, VM start, delivery of vsock descriptors |
| Agent boot | `agent/cmd/agent/main.go`, `runtime_mounts.go`, `vsock.go` | mounts, RPC connection | dial loop, `serveRPC`, `reapZombies`, `handleSignals` |
| Container service | `agent/cmd/agent/container_service.go` | bundles, overlay mounts, runc processes, pipes | `Create`, `Start`, `Stdin`, `ExitCode`, stdin stream, pumps |
| Network, debug | `agent/cmd/agent/network_*.go`, `debug_service.go` | interface, byte counters | `ConfigureInterface`, `SetupVsockProxy`, benchmarks |
| RPC bindings | `api/gen/go/capnp/agent.capnp.go` | – | client stubs, server method tables, fields of the argument and result structs |

How they meet: the launcher prepares files and calls `Run`; `Run` takes the lock,
listens on a unix socket and starts vmmanager; vmmanager boots the guest, accepts
the agent's vsock connection and sends its descriptor over the unix socket; `Run`
bootstraps Cap'n Proto on it and hands further connections to `ProxyConnCh`. The
launcher then asks the agent to create and start a container, receives its output
through `ByteStream` calls the agent makes, and asks for the exit code.

What is hard: `Run`'s goroutines around bounded channels and their tear-down;
processes that die and leave locks, sockets, half-made files or a vmmanager
behind; `os/exec` closing pipes under their readers; PID 1's reaper competing
with `os/exec`; RPC handlers that run one at a time per capability. What makes
each part correct:

* lock: at most one runner per VM directory, never refused by a dead one;
* runner: connections routed once and in order, the lock held as long as
  vmmanager lives, exit and cancellation always answered;
* launcher and image cache: a VM boots on whole files, and a running VM keeps its
  files; a disk from the cache is whole and of the image that was asked for;
* configuration and boot: what the host was told reaches vmmanager and the agent
  through three sets of defaults, and a `Run` that waits for the agent gets it or
  ends;
* container client: it prints the lines the container wrote, returns its exit code
  and keeps nothing it was lent;
* services: an interface ends up with the address and the route of one call;
* container service: a container runs its own spec on its own rootfs, and every
  mount is undone or accounted for, with ids reused and starts failing;
* task: output in order and complete, the true exit code, no unmount under a
  running container, no goroutine left.

## Modules

| Module | Models | Proofs | TLC |
|---|---|---|---|
| `VMLock` | `vm/lock/lock.go`, one action per system call; implements `AbstractLock`, what runners may rely on | `VMLockProofs` | `MCVMLock` |
| `Runner` | `VMRunner.Run` and `VMContext` | `RunnerProofs` | `MCRunner` |
| `Task` | a started container in the agent and its streams to the host; implements `AbstractTask`, what the host is promised | `TaskProofs` | `MCTask` |
| `Containers` | `Create`, `Start` and the cleanup, for several starts that may share an id | `ContainersProofs` | `MCContainers` |
| `Launch` | concurrent invocations of the vm command and their files; takes the lock as `AbstractLock` lets it | `HostFilesProofs` | `MCLaunch`, in `HostFiles` |
| `ImageCache` | `PrepareImageExt4Disk`: the cache of disks and references | `HostFilesProofs` | `MCLaunch`, in `HostFiles` |
| `Config` | the configuration on its way from flags to the agent, as operators | `TransportProofs` | `MCSession`, in `Boot` |
| `Boot` | `Run`, vmmanager, the guest and the agent up to the RPC session and through its loss | `SessionProofs` | `MCBoot`; `MCSession`, in `Session` |
| `Schema` | the RPC bindings: ids, struct sizes, field places | `TransportProofs` | `MCSession`, in `Client` and `Services` |
| `Lines` | the loop of `linePrinterStream.Write` over a text: what it prints, what it counts as consumed | `LinesProofs` | `MCSession`, in `Client` |
| `Client` | `RunContainer` and `linePrinterStream`, capabilities and their references | `SessionProofs` | `MCSession`, in `Session` |
| `Services` | the network and debug services | `SessionProofs` | `MCSession`, in `Session` |
| `Session` | composes `Boot`, `Client` and `Services`; implements `AbstractRun`, what the launcher is promised | `SessionProofs` | `MCSession` |

**VMLock.** `pc[p]` is where process `p` is between `Acquire` and `Release`,
`fd[p]` the inode it has open, `path` the inode at the lock path, `owner` the
flock of each inode, `record` the pid in each file. `Crash` is the kernel closing
a dead process's descriptor. `Acquire` ignores the errors of `Truncate` and
`Fprintf`, and `Release` that of `Remove`: each may fail here, and the history
variable `unwritten` has the files whose last holder could do neither of the
first two, in which an earlier holder's pid may still stand. `overlapped` is a history variable: some `Release`
has unlinked a file that another process had open. `AbstractLock` has no path,
inode, descriptor or flock: who asks for the lock, who has it, who gave it up and
has yet to take the file away, and whether that has broken it. `KeepsLock` is that
specification with `asking`, `holders` and `leaving` read off `pc` and `broken <-
overlapped`.

**Runner.** One variable per goroutine for its control, one per channel for its
buffer, plus `closed` flags. An action is what a goroutine does between two
points where it can block, so `<-procWaitCh`, `<-acceptDone` and each channel
send are steps of their own. The select loop is `TakeAccepted`, `TakeClosed`,
`TakeReady`, `TakeErrorOrCancel` and `TakeExit`; any that is ready may be taken.
Deliveries are records with an identity and a kind: `agent` (the agent's port),
`proxy` (another port) or `broken` (no usable message). `Prepare` stands for
`Command` (validation included), `MkdirAll`, `Remove` and `Listen`, each of which
may fail. Descriptors that error paths leave open are not tracked.

**Task.** Starts when `Container.start` has returned. `Pump(s)` is
`pumpToByteStream`; a chunk is what one `Read` returns. `wire[s]` holds the calls
on a stream's capability, which arrive in order; streams and replies are
independent of each other, as handlers of different capabilities are on the host.
`Wait` and `ClosePipes` are the two halves of `cmd.Wait`. `reaper` starts either
way: `reapZombies` may already have returned. The container, Cap'n Proto's
connection loss and flow control are external. `AbstractTask` has no process,
pipe, pump or connection: chunks come in order and without a gap, done only at
the end, one outcome for every call. `KeepsPromise` is that specification under
the mapping `running <- proc = "running"`, `got <- received`, `outcome <- waitRes`
and so on; it is what `RunContainer` may rely on.

**Containers.** `pc[s]` is where the call `s` of `Start` is, then where its task
is: `ensure` and `lower` before the two calls of `ensureOverlayStateMounted`,
`bundle` before config.json is written, `overlay` before the overlay's mount,
`exec` before `cmd.Start`, `reply` before the task is returned. An error at any
step is `StartFails`: `leaked` when the overlay is mounted by then, else `failed`.
`config` is kept per filesystem, the state disk and what lies under its mount
point, so that a mount can hide a file. The cleanup ignores the error of `Unmount`:
the answered task is then `kept`, with its overlay. `overlays[i]` is the stack of mounts at an
id's `bundle/rootfs`. runc is external. `crossed` records starts of one id that
overlap. `WaitRunc` and `Cleanup` summarise what `Task` models in detail.

**Launch.** `pc[p]` is the step of `main`; files are absent, partial or whole.
The lock is what `AbstractLock` says of it and `VMLock` shows: to open the file
(`ask`), to have the lock (`locked`, with vmmanager `vm`), to have given it up and
not yet removed the file (`leave`) are steps of their own, and a removal of a file
that somebody else has open leaves the lock `broken`; `KeepsLock` is that
refinement. An invocation that ends before its vmmanager leaves it among the
`orphans`: it died, called `os.Exit` right after `Kill`, or its `Run` returned at
`runner.go:427`. `Die` is
every way to end early. Invocations use the default root image and one container
image. `disturbed` records files whose making was interrupted or overlapped;
`wiped` the running VMs whose state disk was recreated.

**ImageCache.** `job[p]` is where a caller is in `PrepareImageExt4Disk`, `refFile`
and `disk` the two kinds of files in the cache directory; the registry may answer
each request with any digest. `os.WriteFile` of a reference is two steps, since it
empties the file first. The names `a/b` and `a_b` become one file name,
`a:2` another. `spoiled` records disks whose making was interrupted or overlapped.
`HostFiles` explores `Launch` and `ImageCache` one at a time: they share no file.

**Config.** One operator per function: `Validate`, `ManagerArgs`, vmmanager's
`ParseArgs`, `BootArgs` and `ListenPorts`, the agent's readers. Text is abstracted
to one word, blank, or two words, which is what the programs treat differently:
the agent cuts the command line at white space. Ports wrap at `PortMax + 1` where
the code converts to `uint32`; Swift's `UInt32(p)` traps instead.

**Boot.** `mgr` is vmmanager and the VM, `gpc` the agent's main loop, `conns` every
vsock connection with its port, what became of its delivery (`ok`, `lost`,
`broken`) and who has it: vmmanager or the host's `acceptCh` and acceptor
(`manager`), the host's list of proxy connections, `proxyCh` and forwarder
(`proxy`), or the caller. The acceptor, select loop and forwarder of `Run`, which
`Runner` has in detail, are the three `Take` actions and `HandOff` here; they
stop where those wait for room in a channel (`AcceptFull`, `ProxyFull`), and
`run = "stuck"` is a `Run` that waits for room for ever, `"closing"` a watcher that
waits until the caller reads. The guest runs before
vmmanager listens, so the first dials may fail. It may also stop: vmmanager sets
no delegate of the virtual machine and goes on (`GuestStops`), and so do `Run` and
`WaitCh`, until vmmanager is killed. `Linked` says that host and agent
speak over the same connection.

**Schema.** A stub is the method id it sends and the size of the struct it
allocates; a server method the handler at an id. A field is where its setter
writes and its getter reads. `Pack` and `Unpack` then compute what arrives, so a
field outside its struct is lost and one that overlaps another is garbled.

**Client.** `hpc` is the call `RunContainer` waits for; `call` travels through
`Schema` to the agent's handler and back. `refs[c]` says who holds capability `c`:
the host (its deferred releases), a call's arguments or results, or a pump (by
`AddRef`). A pump's `done` comes after the container's process here. The code does
not ask for that: it holds because runc, which runs in the foreground, has the
pipes open itself until it exits. `Task` allows a stream to close earlier, and no
property of it needs the order. Each `linePrinterStream` is a record `col[c]` with the bytes it was fed
and the lines it printed. A context that ends leaves the call running in the
agent. `ResultTruthful` is about its result alone and is proved as part of what
follows.

**Lines.** Text is a sequence of the bytes `x`, CR and NL. `Split` is
`bufio.ScanLines` before its carriage returns are dropped, `Scan` the lines the
loop of `linePrinterStream.Write` prints, `Consumed` what it adds up to know where
the rest begins: one byte for every newline, also for one that was not there.
They are recursive functions, so that they can be reasoned about.

**Services.** The netlink requests of `ConfigureInterface` are single steps;
calls from two clients interleave. `known` is what the host has read in answers.
The benchmark's connection is one of `Boot`'s `conns`.

**Session.** A step of `Boot` that ends the session is at the same time the
`Disconnect` of `Client`. A VM with virtiofs runs a container, one with a network
configures it, any other one is measured, each for one configuration (`Callers`).
Configurations come from the launcher's flags (`Flags`) or from other callers of
`Run` (`Direct`). `AbstractRun` is what `RunContainer` promises: a container is made
at most once, of what was asked for, and started once after that; a stream's lines
only grow, from the start to its end, which comes after the container's own; one
result, and a code only when it is the container's. An error promises nothing: the
container may be made, run and print after the launcher was told. `KeepsPromise` is
that specification with `asked <- req`, `made <- got`, `printed` and `ended` read off
`col`, and `dead <- run = "dead"`; calls, capabilities, pumps and connections are
stutters.

## Runs

| Run | Bounds | Shows |
|---|---|---|
| `lock` | 3 contenders, 1 runner without a path, 4 inodes | `TypeOK`, `ExclusionUnlessOverlap`, `NoStaleLock`, `RecordNotForeign` |
| `lock_mutex` | same | `MutualExclusion` fails: `Release` unlinks after it unlocks |
| `runner` | channels of 1, 4 deliveries, the caller drains | `TypeOK`, `RoutedInOrder`, `ExitReportOrder`, `LockCoversRun`, `ReleasedOnce`; live: `ShutdownReported`, `CancelEnds` |
| `runner_unread` | channels of 1, 5 deliveries, the caller does not read | `ShutdownReported` fails: watcher, acceptor and forwarder wait for each other |
| `task` | 1 stream, 2 chunks, buffers of 1, 3 calls | `TypeOK`, `DoneIsComplete`, `ExitTruthful`, `UnmountAfterExit`, and the refinement `KeepsPromise`; live: `CallsAnswered`, `PumpsEnd` |
| `task_output` | 2 streams, 2 chunks each, buffers of 1, 2 calls | `OutputBeforeExitCode` fails: output still in the pipe is lost |
| `containers` | 2 Containers, 2 ids, 3 starts, with and without virtiofs; symmetric | `TypeOK`, `OverlaysAccounted`, `RunsOwnBundle`, `RootfsStays`, `RefusedOnlyByLeftovers` |
| `launch` | 3 invocations; 2 cache callers, 3 references, 2 digests | `TypeOK`, `OneManagerUnlessOrphan`, `PreparedUnlessDisturbed`, `CachedDiskRight` |
| `launch_disk` | same | `StateDiskKept` fails: the disk is recreated before the lock is tried |
| `session` | 20 configurations, channels of 1, 2 vsock connections, ports up to 3, 3 output chunks of 2 or 3 bytes, 2 network calls | `TypeOK`, `ConfigCarried`, `SharedRootfsFound`, `OneSession`, `PumpHoldsStream`, `NothingLeaked`, `ArgumentsArrive`, `LinesFaithful`, `RouteUsable`, `ConfiguredUnlessOverlap`, and the refinement `KeepsPromise` of `AbstractRun` |
| `boot` | 4 configurations, channels of 1, 5 vsock connections | live: `BootSettles`, `DeliveredRouted` |
| `client_panic` | same | `PartialLineHeld` fails: a chunk without a final newline ends the host process |

Why the bounds are enough: with buffers of one element every send meets a full
buffer, and a delivery count of four fills `acceptCh`, `proxyCh` and both hands
while one more is the agent's; three contenders give a holder, a releaser and a
newcomer, the three roles the unlink race needs; a live process has one inode
open and the path names one more, so four inodes never run out; two chunks and a
pipe of one give a chunk in every place between container and host (streams only meet
in `cmd.Wait`, which closes both, and the theorems are for any number of them); three
starts give two that overlap and one that reuses their id, or one that failed and
two after it; three invocations give a running VM and two that prepare its files at once; two
cache callers give a builder and one that meets its half-built disk, and of the
three references two share a file name; two connections give the agent's and a
reconnection or a benchmark's; of the output chunks one ends in a newline, one in
a carriage return and a newline, and one in neither, and pipes are read until
`MaxBytes` = 3 bytes were handled, so each of them can follow another. Five
connections in `boot` are the agent's, two that fill `proxyCh` and the forwarder's
hand, and two that fill `acceptCh` and the acceptor's. The
configurations vary one or two settings from what launcher and tests use, with
one for every case a step of the pipeline tells apart.
Deadlock checking is off for `Runner`, `Task`, `Containers`, `Session` and `Boot`: a run, a
task, the bounded starts and the VM end.

The real capacities are 32 and 64. `CancelEnds` therefore names the states
(`Stuck`) in which `Run` waits for ever on a full channel instead of excluding
them by a bound; they need 33 deliveries unread on an error path or more than 64
before readiness.

## Fairness

`Runner`: weak fairness of each goroutine (the Go scheduler runs what can run),
of the death of a signalled process, of `os/exec`'s reaction to the context and
to the child's exit, and of a caller that drains `ProxyConnCh`. `Task`: weak
fairness of each pump, of the host's stream handlers and of the taskServer, and
of a container that reads its stdin and, once that has ended, ends (it may end before). `Boot`: weak fairness
of `Run` and its goroutines, of vmmanager's start and listener, and of the agent's
loop once it runs; each is a program that only waits where the model's guard
waits. Nothing forces the guest to boot its agent, a connection to end, an open
listener to fail, vmmanager to exit, the caller to cancel or to read
`ProxyConnCh`, which the vm command never does, or the container to write. Hence
the conditions of `BootSettles` (the agent runs, or vmmanager or the acceptor is
gone) and `DeliveredRouted` (or `proxyCh` is full). Four cases in which `Run` waits
for ever are named in `BootSettles`, not assumed away: a lost delivery, an agent
that dials another port, a guest that has stopped, full channels. A guest whose
agent never runs is a fifth, and outside of its condition. `Session`'s
specification has no fairness: its properties are safety.

## Proofs

For every value of the constants:

* `VMLockProofs`: `LockTypes`, `LockExclusion`, `LockNotStale`, `LockRecord`, from
  the inductive invariant `LockInv`. The properties are not inductive alone: that
  a flock excludes needs that a holder owns the flock of the file it has open
  (`HolderOwns`), and that all open descriptors are the file at the path until an
  overlap (`OpenIsLinked`). `LockKeepsLock` is the refinement of `AbstractLock`,
  action by action: a successful `Flock` is a `Take` because the owner of any other
  flock would have this file open, and `Remove` breaks the abstract lock exactly
  when the path names a file that somebody has open.
* `RunnerProofs`: `RunnerTypes`, `RunnerReleasesOnce`, `RunnerReportsLast`,
  `RunnerLockCoversRun`, `RunnerRouted`, from `RunnerInv`. `LockAccounted` counts
  releases by where `Run` and `closeOnce` are, `FailureExplained` says how far a
  failed run came, `TearDownOrder` what holds behind `<-procWaitCh` and
  `<-acceptDone`, `WatcherOrder` that the watcher closes before it reports. That
  connections keep their order needs `ChannelOrder`: `pendingProxyConns` is empty
  once the forwarder runs, so the two never feed `proxyCh` at once.
* `TaskProofs`: `TaskTypeOK`, `TaskDoneIsComplete`, `TaskExitTruthful`,
  `TaskUnmountAfterExit` and the refinement `TaskKeepsPromise`, from `TaskInv`.
  `Numbered` gives every chunk between container and host its place in the
  numbering, `NothingSkipped` says how many there must be where the pump is, and
  `WaitedOnce` that what `cmd.Wait` returned is known to every later step.
  `TaskKeepsPromise` maps each action to a step of `AbstractTask` or a stutter.
* `ContainersProofs`: `ContainersTypeOK`, `ContainersRunOwnBundle`,
  `ContainersRootfsStays` and the action property `ContainersRefused`, from
  `ContainersInv`: a start that was not crossed is alone with its id while it is
  busy (`Alone`), and what it has written and mounted is therefore on top
  (`OwnConfig`, `OwnTop`), the state disk being mounted first in virtiofs mode.
  `ContainersOverlays` counts: `OverlayInv` says that the height of an id's stack
  of mounts is the number of starts that hold one or left theirs behind: they
  failed, nobody waited for them, or the unmount failed.
* `HostFilesProofs`: `LaunchTypeOK`, `LaunchOneManager`, `LaunchPrepared` from
  `LaunchInv` (a file that is not whole is being made or was disturbed; nobody is
  past the step that makes a file without it) and `CacheDiskRight` from `CacheInv`
  (each caller's digest was resolved for its reference or one of the same file
  name). They are stated of `Launch` and of the cache alone; `HostImplementsBoth`
  shows that what the run explores is a behaviour of both. `LaunchKeepsLock`: what
  launches do to the lock is what `AbstractLock` lets them do, deaths and the broken
  lock included. `LaunchOneManager` rests on it: until the lock is broken the one
  holder is the only launch with a vmmanager that is not an orphan.
* `TransportProofs`: `ManagerCarries` says that `parseArgs` inverts `ManagerArgs` but
  for the defaults it fills in; `LauncherConfig` and `LineReads` follow a
  configuration through the kernel command line. `BindingsAgree`, for all values of
  the fields, follows from `RoundTrip` (fields with cells of their own inside a
  struct arrive) and the method tables.
* `LinesProofs`: what the printer's loop makes of a text of any length.
  `SliceOutOfRange`: the expression `partialLine[consumed:]` (`container.go:52`) is
  out of range exactly when the last line is not terminated and the scanner dropped
  no carriage return, which would make up for the newline counted too many.
  `PlainTextWritten`: without a carriage return, that is when the text does not end
  where a line ends, and otherwise all of it was printed. The library's induction
  theorems take an operator as a parameter and cannot be used; here induction is
  stated for a set (one that holds `<<>>` and each of its sequences with an element
  appended holds them all) and derived from `<` being well-founded. That the
  recursive functions have a value on every sequence is proved by way of their
  finite runs (`SplitRun`), and the laws by which a text grows (`SplitAppend`,
  `ConsumedAppend`) carry the rest.
* `SessionProofs`: every safety property of the `session` run, from
  `SessionInv`. Its parts: `BootInv` (listeners and connections are on ports of
  the configuration, the session is the first delivery on the agent's port), `ConfigInv` (the
  configuration in use was checked; what the agent read is vmmanager's line or
  nothing), `CallInv` (the call under way is the one `RunContainer` made last, and
  one it gave up on is kept by nobody), `ResultInv`, `StreamInv` (a pump writes to
  its own stream), `RefInv` (who holds each capability, by where `RunContainer`,
  `Start`'s arguments and the pumps are), `PrintInv` (each printer has printed the
  lines of what it was fed, which is what arrived on the wire while nothing had a
  carriage return), `NetInv` and `AnswerInv`. None of the
  properties is inductive: that nothing leaks, for example, needs to know which
  call is under way when the session ends, and that depends on the bindings.
  `SessionKeepsPromise` is the refinement of `AbstractRun`. It needs a second
  invariant beside `SessionInv`, `ProgressInv`: `OrderInv` (a call is where it is
  because the one before it was answered, so nothing is made or started twice),
  `EndInv` (nothing is on a stream before the start is served, and nothing follows
  the `done` that comes after the exit) and `TextInv` (what a printer shows and
  holds back is text, so that `Write` can only add lines). That a write only
  appends is the lemma `WrittenText`, from the laws of `LinesProofs`.

Each of these inductive invariants was also checked by TLC as an invariant of the
module's run before it was proved.

Assumptions: the named `ASSUME`s of the modules. They are distinct model values,
capacities of at least one, and for `Session` the types of flags, configurations
and requests, chunks that are not empty (`pumpToByteStream` writes only what it
read), and `BootConstants`' second part: a caller of `Run` other than the
launcher that shares a directory mounts it where it says the rootfs is, as the
tests do. `MaxConns`, `MaxBytes` and the like are arbitrary in the theorems.

Only model-checked: liveness (`ShutdownReported`, `CancelEnds`, `CallsAnswered`,
`PumpsEnd`, `BootSettles`, `DeliveredRouted`), which is out of the prover's reach.
The two `KeepsLock` are theorems and in no configuration, and so are `HostImplementsBoth`
and the statements about operators.

## Findings

1. `lock_mutex`: two runners can hold the VM lock, because `Release` removes the
   path after it has unlocked the file.
2. `runner_unread`: when `ProxyConnCh` is not read (the vm command does not), 98
   connections keep `WaitCh` silent and the lock held after vmmanager's exit.
3. `task_output`: `ExitCode` can lose container output.
4. `launch_disk`: a second launch empties the state disk of a running VM.
5. `client_panic`: container output that does not end in a newline when it is read
   makes `RunContainer`'s host process panic.

Named by passing properties rather than by a run of their own: the lock is free
while vmmanager runs after an early `Close()` and after the return at
`runner.go:427` (`LockCoversRun`); an interrupted copy or extraction is used as
if whole (`PreparedUnlessDisturbed`); a killed runner's vmmanager lives on beside
the next one, and so can two launchers' own after a lock file was unlinked under
one of them (`OneManagerUnlessOrphan`); the lock file may name an earlier holder when it
cannot be written (`RecordNotForeign`), and an overlay stays when its unmount fails
(`OverlaysAccounted`); `reapZombies` may cost a container its
exit code (`ExitTruthful`); starts of one id that overlap may run each other's
spec or unmount each other's rootfs (`RunsOwnBundle`, `RootfsStays`); without
virtiofs the first start hides its own config.json, and the comment "Clear stale
runc state for reused IDs." (`container_service.go:134`) has no code under it, so
that an id whose runc was killed is refused (`RefusedOnlyByLeftovers`); an agent
that reconnects is not taken back (`OneSession`), and a lost delivery or a stopped guest leaves `Run`
waiting (`BootSettles`); one broken delivery ends the acceptor for good
(`DeliveredRouted`); EFI boots and values with spaces lead the agent elsewhere
(`SharedRootfsFound`); a carriage return makes the line printer lose its place
(`LinesFaithful`); a cached disk may be half-built or hold another reference's
directory (`CachedDiskRight`).

## Plan

`Runner`'s lock as an `AbstractLock`; and the boot part of `Session` as an abstraction
of `Runner`, whose acceptor, select loop and forwarder are the `Take` actions of
`Boot`.

## Not modelled

* Virtualization.framework, runc, netlink, the capnp runtime and the registry:
  external, present as the actions the code sees of them.
* The entries of an image archive (`extractTarInto`, `safeJoin`), the fields of the
  default OCI spec, logging and timing: data that no property here tells apart.
* `SetupVsockProxy` (a stub), the gateway probe, the byte counter of
  `OpenByteStream`, `BuildImageExt4Disk` (no caller): they change no state another
  operation reads.
* The processes `reapZombies` no longer reaps once it has returned.
* A line of output longer than the scanner's 16 MiB, which ends the stream with an
  error.
* The generated lists, futures and string forms of the bindings, which neither host
  nor agent uses, and the build scripts.
