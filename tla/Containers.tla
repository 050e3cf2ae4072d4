----------------------------- MODULE Containers -----------------------------
(***************************************************************************)
(* ContainerService.Create, Container.Start and the part of Task.ExitCode  *)
(* that ends a start (agent/cmd/agent/container_service.go): the bundle    *)
(* and the OCI config on the state disk, the mounts of the state disk and  *)
(* of the overlay rootfs, and the runc processes that use them.            *)
(*                                                                         *)
(* The RPC server runs the calls on one Container one at a time and those  *)
(* on different Containers concurrently.  The agent keeps no table of ids: *)
(* two Containers may have the same id, and one may be started again, so   *)
(* that several starts share the bundle, the overlay's mount point and the *)
(* runc state of an id.  Each step below is one system call that another   *)
(* start can see, with the calls before it that change nothing shared.     *)
(* All containers use one state disk and one mount point, as the runner    *)
(* gives them.                                                             *)
(***************************************************************************)
EXTENDS Integers, Sequences, FiniteSets

CONSTANTS
  Ids,         \* container ids that containerIDRe accepts
  Conts,       \* the Container capabilities Create may return
  Starts,      \* bound: the Start calls made on them
  None         \* no id, no container, no start

ASSUME ContainersConstants == None \notin Ids \cup Conts \cup Starts

VARIABLES
  virtiofs,    \* agent.virtiofs=1 is on the kernel command line
  id,          \* the id of each Container, None before its Create
  cont,        \* the Container each Start is called on
  pc,          \* control of each Start, and then of the task it returns
  stateOn,     \* the state disk is mounted
  config,      \* per filesystem and id: whose OCI spec bundle/config.json holds
  overlays,    \* per id: the overlays stacked on bundle/rootfs, last on top
  runc,        \* the runc process of each Start
  runcState,   \* per id: the start that owns the directory under runc-root
  loaded,      \* history: the Container whose OCI spec a runc runs
  rootfs,      \* history: the overlay a runc runs on
  crossed      \* history: starts that overlap another start of their id

startVars == <<id, cont, pc, crossed>>
diskVars == <<stateOn, config, overlays>>
runcVars == <<runc, runcState, loaded, rootfs>>
vars == <<virtiofs, startVars, diskVars, runcVars>>

Body == {"ensure", "bundle", "lower", "overlay", "exec", "reply"}

IdOf(s) == IF cont[s] = None THEN None ELSE id[cont[s]]

(* The filesystem a path under the state disk's mount point is on. *)
Here == IF stateOn THEN "state" ELSE "root"

Top(i) == IF overlays[i] = <<>> THEN None ELSE overlays[i][Len(overlays[i])]

(* A start that still uses, or will still change, the files of its id. *)
Busy(s) == pc[s] \in Body \cup {"task", "waited"} \/ runc[s] \in {"starting", "running"}

Init ==
  /\ virtiofs \in BOOLEAN
  /\ id = [c \in Conts |-> None]
  /\ cont = [s \in Starts |-> None]
  /\ pc = [s \in Starts |-> "none"]
  /\ crossed = {}
  /\ stateOn = FALSE
  /\ config = [f \in {"root", "state"} |-> [i \in Ids |-> None]]
  /\ overlays = [i \in Ids |-> <<>>]
  /\ runc = [s \in Starts |-> "none"]
  /\ runcState = [i \in Ids |-> None]
  /\ loaded = [s \in Starts |-> None]
  /\ rootfs = [s \in Starts |-> None]
-----------------------------------------------------------------------------
(* Mutated forms: what a plausible slip in the code would make of a step.  *)

(* Start leaves the state disk to mountOverlayFromRootFS in every mode. *)
StartMountsLater(s, c) ==
  /\ pc[s] = "none"
  /\ id[c] # None
  /\ \A t \in Starts : cont[t] = c => pc[t] \notin Body
  /\ cont' = [cont EXCEPT ![s] = c]
  /\ pc' = [pc EXCEPT ![s] = "bundle"]
  /\ LET others == {t \in Starts : IdOf(t) = id[c] /\ Busy(t)} IN
     crossed' = IF others = {} THEN crossed ELSE crossed \cup others \cup {s}
  /\ UNCHANGED <<virtiofs, id, diskVars, runcVars>>

(* A config.json that is there already is kept. *)
WriteBundleOnce(s) ==
  /\ pc[s] = "bundle"
  /\ pc' = [pc EXCEPT ![s] = "lower"]
  /\ config' = IF config[Here][IdOf(s)] = None
               THEN [config EXCEPT ![Here][IdOf(s)] = cont[s]] ELSE config
  /\ UNCHANGED <<virtiofs, id, cont, crossed, stateOn, overlays, runcVars>>

(* config.json is written from the wrong field of the Container. *)
WriteBundleId(s) ==
  /\ pc[s] = "bundle"
  /\ pc' = [pc EXCEPT ![s] = "lower"]
  /\ config' = [config EXCEPT ![Here][IdOf(s)] = IdOf(s)]
  /\ UNCHANGED <<virtiofs, id, cont, crossed, stateOn, overlays, runcVars>>

(* A busy overlay is taken for one that is mounted, as for the state disk. *)
MountOverlayBusyOK(s) ==
  /\ pc[s] = "overlay"
  /\ pc' = [pc EXCEPT ![s] = "exec"]
  /\ overlays' = [overlays EXCEPT ![IdOf(s)] = IF @ = <<>> THEN <<s>> ELSE @]
  /\ UNCHANGED <<virtiofs, id, cont, crossed, stateOn, config, runcVars>>

(* ExitCode cleans up before it waits. *)
WaitRuncNot(s) ==
  /\ pc[s] = "task"
  /\ pc' = [pc EXCEPT ![s] = "waited"]
  /\ UNCHANGED <<virtiofs, id, cont, crossed, diskVars, runcVars>>
-----------------------------------------------------------------------------
(* Create, for arguments that pass its checks; it refuses others and       *)
(* changes nothing then.                                                   *)
Create(c, i) ==
  /\ id[c] = None
  /\ id' = [id EXCEPT ![c] = i]
  /\ UNCHANGED <<virtiofs, cont, pc, crossed, diskVars, runcVars>>

(* A Start call reaches Container c. *)
Start(s, c) ==
  /\ pc[s] = "none"
  /\ id[c] # None
  /\ \A t \in Starts : cont[t] = c => pc[t] \notin Body
  /\ cont' = [cont EXCEPT ![s] = c]
  /\ pc' = [pc EXCEPT ![s] = IF virtiofs THEN "ensure" ELSE "bundle"]
  /\ LET others == {t \in Starts : IdOf(t) = id[c] /\ Busy(t)} IN
     crossed' = IF others = {} THEN crossed ELSE crossed \cup others \cup {s}
  /\ UNCHANGED <<virtiofs, id, diskVars, runcVars>>

(* ensureOverlayStateMounted, which Start calls first in virtiofs mode and *)
(* mountOverlayFromRootFS calls in every mode: EBUSY counts as mounted.    *)
EnsureState(s) ==
  /\ pc[s] \in {"ensure", "lower"}
  /\ stateOn' = TRUE
  /\ pc' = [pc EXCEPT ![s] = IF @ = "ensure" THEN "bundle" ELSE "overlay"]
  /\ UNCHANGED <<virtiofs, id, cont, crossed, config, overlays, runcVars>>

(* MkdirAll of the bundle, WriteFile of config.json. *)
WriteBundle(s) ==
  /\ pc[s] = "bundle"
  /\ pc' = [pc EXCEPT ![s] = "lower"]
  /\ config' = [config EXCEPT ![Here][IdOf(s)] = cont[s]]
  /\ UNCHANGED <<virtiofs, id, cont, crossed, stateOn, overlays, runcVars>>

(* mount("overlay"): on top of whatever is mounted there. *)
MountOverlay(s) ==
  /\ pc[s] = "overlay"
  /\ pc' = [pc EXCEPT ![s] = "exec"]
  /\ overlays' = [overlays EXCEPT ![IdOf(s)] = Append(@, s)]
  /\ UNCHANGED <<virtiofs, id, cont, crossed, stateOn, config, runcVars>>

(* MkdirAll of runc-root, the three pipes, cmd.Start(). *)
Exec(s) ==
  /\ pc[s] = "exec"
  /\ pc' = [pc EXCEPT ![s] = "reply"]
  /\ runc' = [runc EXCEPT ![s] = "starting"]
  /\ UNCHANGED <<virtiofs, id, cont, crossed, diskVars, runcState, loaded, rootfs>>

(* The pumps start and the task is returned. *)
Reply(s) ==
  /\ pc[s] = "reply"
  /\ pc' = [pc EXCEPT ![s] = "task"]
  /\ UNCHANGED <<virtiofs, id, cont, crossed, diskVars, runcVars>>

(* Any step of Start may fail; Start returns the error and undoes nothing, *)
(* not even the overlay's mount or the start of runc.                      *)
StartFails(s) ==
  /\ pc[s] \in Body
  /\ pc' = [pc EXCEPT ![s] = IF @ \in {"exec", "reply"} THEN "leaked" ELSE "failed"]
  /\ UNCHANGED <<virtiofs, id, cont, crossed, diskVars, runcVars>>
-----------------------------------------------------------------------------
(* ExitCode's waitOnce: cmd.Wait() returns, ... *)
WaitRunc(s) ==
  /\ pc[s] = "task"
  /\ runc[s] \in {"exited", "refused"}
  /\ pc' = [pc EXCEPT ![s] = "waited"]
  /\ UNCHANGED <<virtiofs, id, cont, crossed, diskVars, runcVars>>

(* ... and cleanup unmounts what is on top at bundle/rootfs, if anything.  *)
(* Its error is ignored: an overlay that something still uses stays.       *)
Cleanup(s) ==
  /\ pc[s] = "waited"
  /\ \/ /\ pc' = [pc EXCEPT ![s] = "done"]
        /\ overlays' = [overlays EXCEPT ![IdOf(s)] =
                          IF @ = <<>> THEN @ ELSE SubSeq(@, 1, Len(@) - 1)]
     \/ pc' = [pc EXCEPT ![s] = "kept"] /\ UNCHANGED overlays
  /\ UNCHANGED <<virtiofs, id, cont, crossed, stateOn, config, runcVars>>
-----------------------------------------------------------------------------
(* runc, from how Start uses it.  "runc run" reads bundle/config.json,     *)
(* refuses an id that has a directory under its root, runs the container   *)
(* on bundle/rootfs, and deletes the directory when the container ends.    *)

RuncRuns(s) ==
  /\ runc[s] = "starting"
  /\ config[Here][IdOf(s)] # None /\ runcState[IdOf(s)] = None
  /\ runc' = [runc EXCEPT ![s] = "running"]
  /\ runcState' = [runcState EXCEPT ![IdOf(s)] = s]
  /\ loaded' = [loaded EXCEPT ![s] = config[Here][IdOf(s)]]
  /\ rootfs' = [rootfs EXCEPT ![s] = Top(IdOf(s))]
  /\ UNCHANGED <<virtiofs, startVars, diskVars>>

RuncRefuses(s) ==
  /\ runc[s] = "starting"
  /\ config[Here][IdOf(s)] = None \/ runcState[IdOf(s)] # None
  /\ runc' = [runc EXCEPT ![s] = "refused"]
  /\ UNCHANGED <<virtiofs, startVars, diskVars, runcState, loaded, rootfs>>

RuncExits(s) ==
  /\ runc[s] = "running"
  /\ runc' = [runc EXCEPT ![s] = "exited"]
  /\ runcState' = [runcState EXCEPT ![IdOf(s)] = None]
  /\ UNCHANGED <<virtiofs, startVars, diskVars, loaded, rootfs>>

(* runc is killed (out of memory, SIGKILL) and leaves its directory. *)
RuncKilled(s) ==
  /\ runc[s] = "running"
  /\ runc' = [runc EXCEPT ![s] = "exited"]
  /\ UNCHANGED <<virtiofs, startVars, diskVars, runcState, loaded, rootfs>>

Runc(s) == RuncRuns(s) \/ RuncRefuses(s) \/ RuncExits(s) \/ RuncKilled(s)

Next ==
  \/ \E c \in Conts, i \in Ids : Create(c, i)
  \/ \E s \in Starts, c \in Conts : Start(s, c)
  \/ \E s \in Starts :
       \/ EnsureState(s) \/ WriteBundle(s) \/ MountOverlay(s) \/ Exec(s) \/ Reply(s)
       \/ StartFails(s)
       \/ WaitRunc(s) \/ Cleanup(s)
       \/ Runc(s)

Spec == Init /\ [][Next]_vars
-----------------------------------------------------------------------------
(* Every variable keeps its type. *)
TypeOK ==
  /\ virtiofs \in BOOLEAN /\ stateOn \in BOOLEAN
  /\ id \in [Conts -> Ids \cup {None}]
  /\ cont \in [Starts -> Conts \cup {None}]
  /\ pc \in [Starts -> Body \cup {"none", "task", "waited", "done", "kept", "failed", "leaked"}]
  /\ config \in [{"root", "state"} -> [Ids -> Conts \cup {None}]]
  /\ overlays \in [Ids -> Seq(Starts)]
  /\ runc \in [Starts -> {"none", "starting", "running", "exited", "refused"}]
  /\ runcState \in [Ids -> Starts \cup {None}]
  /\ loaded \in [Starts -> Conts \cup {None}]
  /\ rootfs \in [Starts -> Starts \cup {None}]
  /\ crossed \subseteq Starts

(* As many overlays are stacked at an id's rootfs as starts mounted one    *)
(* and were not cleaned up by ExitCode: whatever starts share the id, no   *)
(* cleanup unmounts twice or without a mount, and what stays behind is     *)
(* from starts that failed after the mount (154-178, 207-212), from tasks  *)
(* whose exit code nobody asked for, and from cleanups whose unmount was   *)
(* refused (203 ignores that).                                             *)
OverlaysAccounted ==
  \A i \in Ids :
    Len(overlays[i]) =
      Cardinality({s \in Starts :
        IdOf(s) = i /\ pc[s] \in {"exec", "reply", "task", "waited", "leaked", "kept"}})

(* A container runs the OCI spec and the overlay of its own start, reused  *)
(* ids and leftovers of earlier starts notwithstanding, as long as no      *)
(* other start of the id is under way.                                     *)
RunsOwnBundle ==
  \A s \in Starts \ crossed :
    loaded[s] # None => loaded[s] = cont[s] /\ rootfs[s] = s

(* A start's rootfs is on top at its mount point until its runc has ended, *)
(* unless another start of the id is under way: no cleanup takes it away.  *)
RootfsStays ==
  \A s \in Starts \ crossed :
    runc[s] \in {"starting", "running"} => Top(IdOf(s)) = s

(* A start that overlaps no other of its id gets past runc unless a runc   *)
(* of that id was killed before it, or it was the one that put the state   *)
(* disk over its own config.json.  The latter does not happen in virtiofs  *)
(* mode, where the disk is mounted before any start creates a bundle, "so  *)
(* files aren't hidden by a later mount" (124-125).  For a killed runc     *)
(* "Clear stale runc state for reused IDs" (134) says the same, but        *)
(* nothing under that comment removes runc-root.                           *)
RefusedOnlyByLeftovers ==
  [][\A s \in Starts \ crossed :
       runc[s] = "starting" /\ runc'[s] = "refused" =>
         \/ runcState[IdOf(s)] # None /\ runc[runcState[IdOf(s)]] = "exited"
         \/ ~virtiofs /\ config["state"][IdOf(s)] = None /\ config["root"][IdOf(s)] = cont[s]]_vars
=============================================================================
