------------------------------- MODULE VMLock -------------------------------
(***************************************************************************)
(* The per-VM lock file of vm/lock/lock.go, at the granularity of its      *)
(* system calls.  Every runner process that is launched with the same VM   *)
(* directory calls Acquire on the same path and Release on it later; the   *)
(* calls of different processes interleave freely, and a process may die   *)
(* between any two of them (kill -9, or one of the os.Exit calls of        *)
(* vm/cmd/vm/main.go, which skip the deferred Close).                      *)
(*                                                                         *)
(* The kernel's part is the usual one: a path names at most one inode, an  *)
(* open descriptor keeps its inode alive after the path is unlinked, and   *)
(* flock(LOCK_EX) belongs to the inode, not to the path.                   *)
(***************************************************************************)
EXTENDS FiniteSets

CONSTANTS
  Procs,      \* runner processes started for one VM directory
  Inodes,     \* inodes the file system can give the lock file
  BlankPath,  \* the runners whose LockFilePath is blank (lock.go:14)
  NoProc,     \* "no process"
  NoInode     \* "no inode": the path does not exist, the descriptor is closed

ASSUME LockConstants ==
  /\ BlankPath \subseteq Procs
  /\ NoProc \notin Procs
  /\ NoInode \notin Inodes

VARIABLES
  pc,         \* where each process is between its calls
  fd,         \* the inode each process has open, or NoInode
  path,       \* the inode the lock path names, or NoInode
  owner,      \* the process that holds the flock of each inode, or NoProc
  record,     \* the process whose pid= line each inode holds, or NoProc
  overlapped, \* history: some Release unlinked a file another process had open
  unwritten   \* history: inodes whose last holder could not write its record

vars == <<pc, fd, path, owner, record, overlapped, unwritten>>

Labels == {"idle", "opened", "locked", "held", "unlocked", "unguarded"}

(* The processes Acquire has given the lock to and Release has not taken   *)
(* it back from.  "locked" is inside Acquire, before the pid is written.   *)
Holders == {p \in Procs : pc[p] \in {"locked", "held"}}

Free(i) == path # i /\ \A p \in Procs : fd[p] # i

Init ==
  /\ pc = [p \in Procs |-> "idle"]
  /\ fd = [p \in Procs |-> NoInode]
  /\ path = NoInode
  /\ owner = [i \in Inodes |-> NoProc]
  /\ record = [i \in Inodes |-> NoProc]
  /\ overlapped = FALSE /\ unwritten = {}
-----------------------------------------------------------------------------
(* Mutated forms of the actions below: what a plausible bug would do.      *)

(* The pid line is written as soon as the file is open, before the flock.  *)
OpenWritesRecord(p) ==
  /\ p \notin BlankPath
  /\ pc[p] = "idle"
  /\ pc' = [pc EXCEPT ![p] = "opened"]
  /\ \E i \in Inodes :
       /\ IF path = NoInode THEN Free(i) ELSE i = path
       /\ fd' = [fd EXCEPT ![p] = i]
       /\ path' = i
       /\ record' = [record EXCEPT ![i] = p]
  /\ UNCHANGED <<owner, overlapped, unwritten>>

(* A refused Acquire cleans up like Release does and unlinks the file.     *)
FlockFailsUnlinks(p) ==
  /\ pc[p] = "opened"
  /\ pc' = [pc EXCEPT ![p] = "idle"]
  /\ fd' = [fd EXCEPT ![p] = NoInode]
  /\ path' = NoInode
  /\ UNCHANGED <<owner, record, overlapped, unwritten>>

(* LOCK_UN leaves a value that is no process as the owner.                 *)
UnlockClearsWrongValue(p) ==
  /\ pc[p] = "held"
  /\ pc' = [pc EXCEPT ![p] = "unlocked"]
  /\ owner' = [owner EXCEPT ![fd[p]] = NoInode]
  /\ fd' = [fd EXCEPT ![p] = NoInode]
  /\ UNCHANGED <<path, record, overlapped, unwritten>>

(* The descriptor is inherited by vmmanager, so the flock outlives the     *)
(* runner that took it.                                                    *)
CrashKeepsFlock(p) ==
  /\ pc[p] # "idle"
  /\ pc' = [pc EXCEPT ![p] = "idle"]
  /\ fd' = [fd EXCEPT ![p] = NoInode]
  /\ UNCHANGED <<path, owner, record, overlapped, unwritten>>
-----------------------------------------------------------------------------
(* Acquire with a blank path returns (nil, nil): the runner goes on with   *)
(* no lock at all, and Release of the nil file does nothing.               *)
AcquireBlank(p) ==
  /\ p \in BlankPath
  /\ pc[p] = "idle"
  /\ pc' = [pc EXCEPT ![p] = "unguarded"]
  /\ UNCHANGED <<fd, path, owner, record, overlapped, unwritten>>

ReleaseBlank(p) ==
  /\ pc[p] = "unguarded"
  /\ pc' = [pc EXCEPT ![p] = "idle"]
  /\ UNCHANGED <<fd, path, owner, record, overlapped, unwritten>>

(* OpenFile(path, O_CREATE|O_RDWR): the file at the path, or a new one.    *)
Open(p) ==
  /\ p \notin BlankPath
  /\ pc[p] = "idle"
  /\ pc' = [pc EXCEPT ![p] = "opened"]
  /\ \/ /\ path # NoInode
        /\ fd' = [fd EXCEPT ![p] = path]
        /\ UNCHANGED <<path, record>>
     \/ /\ path = NoInode
        /\ \E i \in Inodes :
             /\ Free(i)
             /\ fd' = [fd EXCEPT ![p] = i]
             /\ path' = i
             /\ record' = [record EXCEPT ![i] = NoProc]
  /\ UNCHANGED <<owner, overlapped, unwritten>>

(* Flock(LOCK_EX|LOCK_NB) succeeds. *)
Flock(p) ==
  /\ pc[p] = "opened"
  /\ owner[fd[p]] = NoProc
  /\ owner' = [owner EXCEPT ![fd[p]] = p]
  /\ pc' = [pc EXCEPT ![p] = "locked"]
  /\ UNCHANGED <<fd, path, record, overlapped, unwritten>>

(* Flock fails: EWOULDBLOCK when another process has it ("vm lock already  *)
(* held"), any other errno otherwise.  Acquire closes the file and returns *)
(* the error; the file stays where it is.                                  *)
FlockFails(p) ==
  /\ pc[p] = "opened"
  /\ pc' = [pc EXCEPT ![p] = "idle"]
  /\ fd' = [fd EXCEPT ![p] = NoInode]
  /\ UNCHANGED <<path, owner, record, overlapped, unwritten>>

(* Truncate, Seek and Fprintf("pid=..."), results ignored: the file names  *)
(* this process, or nobody when only the write fails, or whom it named     *)
(* before when Truncate fails too (a full or failing volume).              *)
WriteRecord(p) ==
  /\ pc[p] = "locked"
  /\ pc' = [pc EXCEPT ![p] = "held"]
  /\ \/ /\ \E r \in {p, NoProc} : record' = [record EXCEPT ![fd[p]] = r]
        /\ unwritten' = unwritten \ {fd[p]}
     \/ unwritten' = unwritten \cup {fd[p]} /\ UNCHANGED record
  /\ UNCHANGED <<fd, path, owner, overlapped>>

(* Release, first half: LOCK_UN and Close. *)
Unlock(p) ==
  /\ pc[p] = "held"
  /\ pc' = [pc EXCEPT ![p] = "unlocked"]
  /\ owner' = [owner EXCEPT ![fd[p]] = NoProc]
  /\ fd' = [fd EXCEPT ![p] = NoInode]
  /\ UNCHANGED <<path, record, overlapped, unwritten>>

(* Release, second half: Remove(path), whatever file is there by now; its  *)
(* error is ignored, and then the file stays.                              *)
Remove(p) ==
  /\ pc[p] = "unlocked"
  /\ pc' = [pc EXCEPT ![p] = "idle"]
  /\ \/ /\ path' = NoInode
        /\ overlapped' = (overlapped \/ \E q \in Procs : path # NoInode /\ fd[q] = path)
     \/ UNCHANGED <<path, overlapped>>
  /\ UNCHANGED <<fd, owner, record, unwritten>>

(* The process ends without Release; the kernel closes its descriptor and  *)
(* with it drops the flock.  The file is not unlinked.                     *)
Crash(p) ==
  /\ pc[p] # "idle"
  /\ pc' = [pc EXCEPT ![p] = "idle"]
  /\ fd' = [fd EXCEPT ![p] = NoInode]
  /\ owner' = [i \in Inodes |-> IF owner[i] = p THEN NoProc ELSE owner[i]]
  /\ UNCHANGED <<path, record, overlapped, unwritten>>

Next ==
  \E p \in Procs :
    \/ AcquireBlank(p) \/ ReleaseBlank(p)
    \/ Open(p) \/ Flock(p) \/ FlockFails(p) \/ WriteRecord(p)
    \/ Unlock(p) \/ Remove(p)
    \/ Crash(p)

Spec == Init /\ [][Next]_vars
-----------------------------------------------------------------------------
(* Every variable keeps its type: descriptors and the path name inodes,    *)
(* flocks and pid records name processes.                                  *)
TypeOK ==
  /\ pc \in [Procs -> Labels]
  /\ fd \in [Procs -> Inodes \cup {NoInode}]
  /\ path \in Inodes \cup {NoInode}
  /\ owner \in [Inodes -> Procs \cup {NoProc}]
  /\ record \in [Inodes -> Procs \cup {NoProc}]
  /\ overlapped \in BOOLEAN /\ unwritten \subseteq Inodes

(* What the lock is for: at most one runner of a VM directory is past      *)
(* Acquire and not yet in Release.                                         *)
MutualExclusion == \A p, q \in Holders : p = q

(* lock.go keeps mutual exclusion as long as no Release unlinks a lock     *)
(* file that another process has already opened: the window between        *)
(* LOCK_UN (line 41) and Remove (line 44) is the only way to two holders,  *)
(* whatever crashes and refused Acquires happen.                           *)
ExclusionUnlessOverlap == ~overlapped => MutualExclusion

(* A dead or finished runner never leaves the VM locked: each flock        *)
(* belongs to a process that is a holder of that very file, so a lock file *)
(* left behind by a crash does not refuse the next Acquire.                *)
NoStaleLock ==
  \A i \in Inodes : owner[i] # NoProc => owner[i] \in Holders /\ fd[owner[i]] = i

(* The pid record of a held lock names another process only if its holder  *)
(* could neither truncate nor write it: no contender that opens the file,  *)
(* is refused or crashes, and no earlier holder, is what a reader finds in *)
(* a file whose holder has written it.                                     *)
RecordNotForeign ==
  \A p \in Procs : pc[p] = "held" /\ fd[p] \notin unwritten => record[fd[p]] \in {p, NoProc}
-----------------------------------------------------------------------------
(* The inductive invariant behind the properties above. *)
(* A process has the file open exactly between OpenFile and Close. *)
OpenIffBusy ==
  \A p \in Procs : fd[p] # NoInode <=> pc[p] \in {"opened", "locked", "held"}

(* A holder owns the flock of the file it has open. *)
HolderOwns == \A p \in Holders : owner[fd[p]] = p

(* Until an overlap, every open descriptor is the file at the path. *)
OpenIsLinked ==
  ~overlapped => \A p \in Procs : fd[p] # NoInode => fd[p] = path

LockInv ==
  /\ TypeOK
  /\ OpenIffBusy
  /\ HolderOwns
  /\ NoStaleLock
  /\ OpenIsLinked
  /\ RecordNotForeign
-----------------------------------------------------------------------------
(* The lock file is the lock AbstractLock describes: nobody but a Release  *)
(* breaks it, and that only while another process has the file open.       *)
InState(labels) == {p \in Procs : pc[p] \in labels}

Lock == INSTANCE AbstractLock WITH
  asking <- InState({"opened"}), holders <- Holders, leaving <- InState({"unlocked"}),
  broken <- overlapped
KeepsLock == Lock!Spec
=============================================================================
