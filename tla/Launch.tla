------------------------------- MODULE Launch -------------------------------
(***************************************************************************)
(* Invocations of the vm command for one VM name (vm/cmd/vm/main.go) and   *)
(* the files they share: the VM's root image (vm/state.go), its container  *)
(* state disk (vm/disk_ext4.go), the extracted rootfs of one container     *)
(* image (vm/image_shared.go) and the VM lock, which AbstractLock says it  *)
(* is and VMLock shows: exclusive until somebody who gives it up unlinks   *)
(* the file another one has opened.  An invocation prepares the files      *)
(* before VMRunner.Run takes the lock.  It may fail, be killed or be       *)
(* interrupted anywhere, and then leaves the files as they are; a          *)
(* vmmanager it has started does not die with it.                          *)
(***************************************************************************)
CONSTANTS
  Procs,   \* invocations of the vm command
  NoProc   \* "no invocation"

ASSUME LaunchConstants == NoProc \notin Procs

VARIABLES
  pc,          \* where each invocation is
  container,   \* was it given a container image
  rootImg,     \* rootfs.raw of the VM directory
  rootWriter,  \* the invocation that truncated it last
  stateDisk,   \* container-state.raw
  sharedRoot,  \* images/<digest>/rootfs
  broken,      \* the lock file was unlinked while somebody else had it open
  mgr,         \* vmmanager processes running, by the invocation that started them
  orphans,     \* of these, the ones whose invocation has gone away
  wiped,       \* history: running VMs whose state disk was recreated
  disturbed    \* history: files whose making was interrupted or overlapped

fileVars == <<container, rootImg, rootWriter, stateDisk, sharedRoot>>
mgrVars == <<broken, mgr, orphans>>
vars == <<pc, fileVars, mgrVars, wiped, disturbed>>

Labels == {"idle", "root", "create", "copy", "disk", "mkfs", "image", "mkdir", "extract",
           "run", "ask", "locked", "vm", "leave"}
FileStates == {"absent", "partial", "whole"}

Init ==
  /\ pc = [p \in Procs |-> "idle"]
  /\ container = [p \in Procs |-> FALSE]
  /\ rootImg = "absent" /\ rootWriter = NoProc
  /\ stateDisk = "absent" /\ sharedRoot = "absent"
  /\ broken = FALSE
  /\ mgr = {} /\ orphans = {} /\ wiped = {} /\ disturbed = {}

At(label) == {p \in Procs : pc[p] = label}
Holders == At("locked") \cup At("vm")
Goto(p, label) == pc' = [pc EXCEPT ![p] = label]
AfterRoot(p) == IF container[p] THEN "disk" ELSE "run"
Outcome(file) == IF file \in disturbed THEN {"partial", "whole"} ELSE {"whole"}
-----------------------------------------------------------------------------
(* Mutated forms: what a plausible slip in the code would make of a step.  *)

(* EnsureVMRootImage goes on before its copy is done. *)
CreateRootEarly(p) ==
  /\ pc[p] = "create"
  /\ Goto(p, AfterRoot(p))
  /\ rootImg' = "partial" /\ rootWriter' = p
  /\ UNCHANGED <<container, stateDisk, sharedRoot, mgrVars, wiped, disturbed>>

(* The lock is given back when Run has returned, vmmanager or not.         *)
ReleaseEarly(p) ==
  /\ p \in Holders
  /\ Goto(p, "leave")
  /\ UNCHANGED <<fileVars, mgrVars, wiped, disturbed>>

(* A vmmanager that is left is noted by what its invocation was doing.     *)
DieNotesPhase(p) ==
  /\ pc[p] # "idle"
  /\ Goto(p, "idle")
  /\ orphans' = IF p \in mgr THEN orphans \cup {pc[p]} ELSE orphans
  /\ UNCHANGED <<fileVars, broken, mgr, wiped, disturbed>>
-----------------------------------------------------------------------------
(* main, from the flags to EnsureVMRootImage.  An invocation that left a   *)
(* vmmanager behind is not reused: another one stands for the next launch. *)
Start(p) ==
  /\ pc[p] = "idle" /\ p \notin mgr
  /\ \E c \in BOOLEAN : container' = [container EXCEPT ![p] = c]
  /\ Goto(p, "root")
  /\ wiped' = wiped \ {p}
  /\ UNCHANGED <<rootImg, rootWriter, stateDisk, sharedRoot, mgrVars, disturbed>>

(* EnsureVMRootImage: a root image that can be stat'ed is taken as it is, ... *)
StatRoot(p) ==
  /\ pc[p] = "root"
  /\ Goto(p, IF rootImg = "absent" THEN "create" ELSE AfterRoot(p))
  /\ UNCHANGED <<fileVars, mgrVars, wiped, disturbed>>

(* ... else OpenFile(O_CREATE|O_TRUNC), which truncates an image another   *)
(* invocation may have made since ...                                      *)
CreateRoot(p) ==
  /\ pc[p] = "create"
  /\ Goto(p, "copy")
  /\ rootImg' = "partial" /\ rootWriter' = p
  /\ disturbed' = IF rootImg = "absent" THEN disturbed ELSE disturbed \cup {"root"}
  /\ UNCHANGED <<container, stateDisk, sharedRoot, mgrVars, wiped>>

(* ... and the copy.  All copiers write the same bytes from the start, so  *)
(* the image is whole once the last one to truncate it is done; an earlier *)
(* one fills what the last one left only if that one died in time.         *)
CopyRoot(p) ==
  /\ pc[p] = "copy"
  /\ Goto(p, AfterRoot(p))
  /\ rootImg' \in IF rootWriter = p THEN {"whole"}
                  ELSE IF rootWriter \in At("copy") THEN {rootImg}
                  ELSE {rootImg, "whole"}
  /\ UNCHANGED <<container, rootWriter, stateDisk, sharedRoot, mgrVars, wiped, disturbed>>

(* CreateExt4Disk: os.Create and Truncate make a blank disk, whoever uses  *)
(* the file ...                                                            *)
CreateDisk(p) ==
  /\ pc[p] = "disk"
  /\ Goto(p, "mkfs")
  /\ stateDisk' = "partial"
  /\ wiped' = wiped \cup {q \in mgr : container[q]}
  /\ disturbed' = IF At("mkfs") = {} THEN disturbed \ {"disk"} ELSE disturbed \cup {"disk"}
  /\ UNCHANGED <<container, rootImg, rootWriter, sharedRoot, mgrVars>>

(* ... and mkfs.ext4 formats it. *)
Mkfs(p) ==
  /\ pc[p] = "mkfs"
  /\ Goto(p, "image")
  /\ stateDisk' \in Outcome("disk")
  /\ UNCHANGED <<container, rootImg, rootWriter, sharedRoot, mgrVars, wiped, disturbed>>

(* PrepareSharedContainerRootFS: a rootfs directory that is there is taken *)
(* as it is, ...                                                           *)
StatImage(p) ==
  /\ pc[p] = "image"
  /\ Goto(p, IF sharedRoot = "absent" THEN "mkdir" ELSE "run")
  /\ UNCHANGED <<fileVars, mgrVars, wiped, disturbed>>

(* ... else the image is loaded, the directory made ... *)
MakeRootfs(p) ==
  /\ pc[p] = "mkdir"
  /\ Goto(p, "extract")
  /\ sharedRoot' = "partial"
  /\ disturbed' = IF sharedRoot = "absent" THEN disturbed ELSE disturbed \cup {"image"}
  /\ UNCHANGED <<container, rootImg, rootWriter, stateDisk, mgrVars, wiped>>

(* ... and the layers extracted into it, file by file. *)
ExtractTar(p) ==
  /\ pc[p] = "extract"
  /\ Goto(p, "run")
  /\ sharedRoot' \in Outcome("image")
  /\ UNCHANGED <<container, rootImg, rootWriter, stateDisk, mgrVars, wiped, disturbed>>

(* VMRunner.Run: Acquire opens the lock file ...                           *)
OpenLock(p) ==
  /\ pc[p] = "run"
  /\ Goto(p, "ask")
  /\ UNCHANGED <<fileVars, mgrVars, wiped, disturbed>>

(* ... and has the lock if nobody else does, or if the others have theirs  *)
(* on a file that is no longer at the path.  A refused invocation ends.    *)
TakeLock(p) ==
  /\ pc[p] = "ask"
  /\ Holders = {} \/ broken
  /\ Goto(p, "locked")
  /\ UNCHANGED <<fileVars, mgrVars, wiped, disturbed>>

(* cmd.Start(). *)
StartManager(p) ==
  /\ pc[p] = "locked"
  /\ Goto(p, "vm")
  /\ mgr' = mgr \cup {p}
  /\ UNCHANGED <<fileVars, broken, orphans, wiped, disturbed>>

ManagerExits(p) ==
  /\ p \in mgr
  /\ mgr' = mgr \ {p} /\ orphans' = orphans \ {p}
  /\ UNCHANGED <<pc, fileVars, broken, wiped, disturbed>>

(* Release, up to Close: by Run that fails before it has started vmmanager *)
(* or has seen it exit, by the goroutine that has seen it exit, or by Run  *)
(* that reads a closed acceptCh and leaves vmmanager running (runner.go:427). *)
ReleaseLock(p) ==
  /\ \/ p \in Holders \ mgr /\ UNCHANGED orphans
     \/ p \in Holders \cap mgr /\ orphans' = orphans \cup {p}
  /\ Goto(p, "leave")
  /\ UNCHANGED <<fileVars, broken, mgr, wiped, disturbed>>

(* Release's Remove, which may fail; then the invocation ends. *)
RemoveLock(p) ==
  /\ pc[p] = "leave"
  /\ Goto(p, "idle")
  /\ broken' \in {broken, broken \/ At("ask") \cup Holders # {}}
  /\ UNCHANGED <<fileVars, mgr, orphans, wiped, disturbed>>

(* The invocation ends anywhere else: a failed step or a refused lock and  *)
(* os.Exit, an interrupt, a kill.  The kernel drops its flock; the files   *)
(* stay, half made or not, and so does its vmmanager.                      *)
Die(p) ==
  /\ pc[p] # "idle"
  /\ Goto(p, "idle")
  /\ orphans' = orphans \cup ({p} \cap mgr)
  /\ disturbed' = disturbed \cup (CASE pc[p] = "copy" -> {"root"}
                                    [] pc[p] = "mkfs" -> {"disk"}
                                    [] pc[p] = "extract" -> {"image"}
                                    [] OTHER -> {})
  /\ UNCHANGED <<fileVars, broken, mgr, wiped>>

Next ==
  \E p \in Procs :
    \/ Start(p)
    \/ StatRoot(p) \/ CreateRoot(p) \/ CopyRoot(p)
    \/ CreateDisk(p) \/ Mkfs(p)
    \/ StatImage(p) \/ MakeRootfs(p) \/ ExtractTar(p)
    \/ OpenLock(p) \/ TakeLock(p) \/ StartManager(p) \/ ReleaseLock(p) \/ RemoveLock(p)
    \/ ManagerExits(p) \/ Die(p)

Spec == Init /\ [][Next]_vars
-----------------------------------------------------------------------------
(* Every variable keeps its type; an orphan is a vmmanager. *)
TypeOK ==
  /\ pc \in [Procs -> Labels] /\ container \in [Procs -> BOOLEAN]
  /\ rootImg \in FileStates /\ stateDisk \in FileStates /\ sharedRoot \in FileStates
  /\ rootWriter \in Procs \cup {NoProc} /\ broken \in BOOLEAN
  /\ mgr \subseteq Procs /\ orphans \subseteq mgr /\ wiped \subseteq Procs
  /\ disturbed \subseteq {"root", "disk", "image"}

(* Two vmmanagers run on one VM directory only if the invocation of one of *)
(* them is gone (it died, called os.Exit right after Kill, or its Run gave *)
(* up on a closed acceptCh), or if a Release unlinked the lock file that   *)
(* another invocation had opened: on every other path the lock is held     *)
(* from before vmmanager starts until it has been seen to exit.            *)
OneManagerUnlessOrphan == \A p, q \in mgr \ orphans : p = q \/ broken

(* A VM boots on a whole root image, a formatted state disk and a whole    *)
(* container rootfs, unless the making of that file was interrupted or     *)
(* overlapped, or another launch is making it again.  The steps that stat  *)
(* a path and take what is there (state.go:104, image_shared.go:34) give   *)
(* no more than this.                                                      *)
PreparedUnlessDisturbed ==
  \A p \in mgr :
    /\ rootImg = "whole" \/ "root" \in disturbed \/ At("copy") # {}
    /\ container[p] /\ pc[p] = "vm" =>
         /\ stateDisk = "whole" \/ "disk" \in disturbed \/ At("mkfs") # {}
         /\ sharedRoot = "whole" \/ "image" \in disturbed \/ At("extract") # {}

(* What the state disk is for: the writable state of a running VM's        *)
(* containers stays while the VM runs.                                     *)
StateDiskKept == wiped \cap mgr = {}
-----------------------------------------------------------------------------
(* An invocation's part in the lock is AbstractLock's, as VMLock's is.     *)
Lock == INSTANCE AbstractLock WITH
  asking <- At("ask"), holders <- Holders, leaving <- At("leave"), broken <- broken
KeepsLock == Lock!Spec
=============================================================================
