---------------------------- MODULE VMLockProofs ----------------------------
(***************************************************************************)
(* VMLock's properties for every set of runner processes and inodes.  The  *)
(* properties are not inductive on their own: LockInv adds that a process  *)
(* has the file open exactly while it is between OpenFile and Close, that  *)
(* a holder owns the flock of the file it has open, and that before the    *)
(* first overlap every open descriptor is the file at the path.            *)
(***************************************************************************)
EXTENDS VMLock, TLAPS

(* LockInv holds before any runner has called Acquire. *)
LEMMA InitLockInv == Init => LockInv
  BY LockConstants
  DEF Init, LockInv, TypeOK, Labels, OpenIffBusy, HolderOwns, NoStaleLock,
      OpenIsLinked, RecordNotForeign, Holders

(* A process that has a file open has an inode open. *)
LEMMA BusyHasInode ==
  ASSUME LockInv, NEW p \in Procs, pc[p] \in {"opened", "locked", "held"}
  PROVE  fd[p] \in Inodes /\ fd[p] # NoInode
  BY DEF LockInv, TypeOK, OpenIffBusy

(* Every system call of lock.go, and a crash, preserves LockInv. *)
LEMMA StepLockInv == LockInv /\ [Next]_vars => LockInv'
<1> SUFFICES ASSUME LockInv, [Next]_vars
             PROVE  LockInv'
  OBVIOUS
<1> USE LockConstants
<1>1. CASE UNCHANGED vars
  BY <1>1 DEF vars, LockInv, TypeOK, OpenIffBusy, HolderOwns, NoStaleLock,
              OpenIsLinked, RecordNotForeign, Holders
<1>2. ASSUME NEW p \in Procs, AcquireBlank(p) \/ ReleaseBlank(p)
      PROVE  LockInv'
  BY <1>2 DEF AcquireBlank, ReleaseBlank, LockInv, TypeOK, Labels, OpenIffBusy,
              HolderOwns, NoStaleLock, OpenIsLinked, RecordNotForeign, Holders
<1>3. ASSUME NEW p \in Procs, Open(p)
      PROVE  LockInv'
  <2>1. CASE path # NoInode
    BY <1>3, <2>1 DEF Open, LockInv, TypeOK, Labels, OpenIffBusy, HolderOwns,
                      NoStaleLock, OpenIsLinked, RecordNotForeign, Holders
  <2>2. CASE path = NoInode
    <3>1. PICK i \in Inodes :
            /\ Free(i)
            /\ fd' = [fd EXCEPT ![p] = i]
            /\ path' = i
            /\ record' = [record EXCEPT ![i] = NoProc]
      BY <1>3, <2>2 DEF Open
    <3>2. owner' = owner /\ overlapped' = overlapped /\ unwritten' = unwritten
          /\ pc' = [pc EXCEPT ![p] = "opened"] /\ pc[p] = "idle"
      BY <1>3 DEF Open
    <3>3. /\ TypeOK' /\ OpenIffBusy' /\ HolderOwns' /\ NoStaleLock'
      BY <3>1, <3>2 DEF LockInv, TypeOK, Labels, OpenIffBusy, HolderOwns,
                        NoStaleLock, Holders
    <3>4. OpenIsLinked'
      BY <2>2, <3>1, <3>2 DEF LockInv, TypeOK, OpenIsLinked, OpenIffBusy
    <3>5. RecordNotForeign'
      BY <3>1, <3>2 DEF LockInv, TypeOK, RecordNotForeign, Free, OpenIffBusy
    <3>6. QED
      BY <3>3, <3>4, <3>5 DEF LockInv
  <2>3. QED
    BY <2>1, <2>2
<1>4. ASSUME NEW p \in Procs, Flock(p)
      PROVE  LockInv'
  <2>1. fd[p] \in Inodes
    BY <1>4, BusyHasInode DEF Flock
  <2>2. QED
    BY <1>4, <2>1 DEF Flock, LockInv, TypeOK, Labels, OpenIffBusy, HolderOwns,
                      NoStaleLock, OpenIsLinked, RecordNotForeign, Holders
<1>5. ASSUME NEW p \in Procs, FlockFails(p)
      PROVE  LockInv'
  BY <1>5 DEF FlockFails, LockInv, TypeOK, Labels, OpenIffBusy, HolderOwns,
              NoStaleLock, OpenIsLinked, RecordNotForeign, Holders
<1>6. ASSUME NEW p \in Procs, WriteRecord(p)
      PROVE  LockInv'
  <2>1. fd[p] \in Inodes
    BY <1>6, BusyHasInode DEF WriteRecord
  <2>2. \/ unwritten' = unwritten \cup {fd[p]} /\ record' = record
        \/ /\ unwritten' = unwritten \ {fd[p]}
           /\ \E r \in {p, NoProc} : record' = [record EXCEPT ![fd[p]] = r]
    BY <1>6 DEF WriteRecord
  <2>3. RecordNotForeign'
    (* another holder has another file open: flocks have one owner *)
    BY <1>6, <2>1, <2>2, BusyHasInode
    DEF WriteRecord, LockInv, TypeOK, HolderOwns, RecordNotForeign, Holders
  <2>4. QED
    BY <1>6, <2>1, <2>2, <2>3
    DEF WriteRecord, LockInv, TypeOK, Labels, OpenIffBusy, HolderOwns,
        NoStaleLock, OpenIsLinked, Holders
<1>7. ASSUME NEW p \in Procs, Unlock(p)
      PROVE  LockInv'
  <2>1. fd[p] \in Inodes /\ owner[fd[p]] = p
    BY <1>7, BusyHasInode DEF Unlock, LockInv, HolderOwns, Holders
  <2>2. QED
    BY <1>7, <2>1 DEF Unlock, LockInv, TypeOK, Labels, OpenIffBusy, HolderOwns,
                      NoStaleLock, OpenIsLinked, RecordNotForeign, Holders
<1>8. ASSUME NEW p \in Procs, Remove(p)
      PROVE  LockInv'
  <2>1. /\ pc' = [pc EXCEPT ![p] = "idle"] /\ pc[p] = "unlocked"
        /\ UNCHANGED <<fd, owner, record, unwritten>>
        /\ path' \in {path, NoInode} /\ overlapped' \in BOOLEAN
    BY <1>8 DEF Remove, LockInv, TypeOK
  <2>2. OpenIsLinked'
    BY <1>8 DEF Remove, LockInv, TypeOK, OpenIsLinked
  <2>3. TypeOK' /\ OpenIffBusy' /\ HolderOwns' /\ NoStaleLock' /\ RecordNotForeign'
    BY <2>1 DEF LockInv, TypeOK, Labels, OpenIffBusy, HolderOwns, NoStaleLock,
                RecordNotForeign, Holders
  <2>4. QED
    BY <2>2, <2>3 DEF LockInv
<1>9. ASSUME NEW p \in Procs, Crash(p)
      PROVE  LockInv'
  <2>1. TypeOK' /\ OpenIffBusy' /\ OpenIsLinked' /\ RecordNotForeign'
    BY <1>9 DEF Crash, LockInv, TypeOK, Labels, OpenIffBusy, OpenIsLinked,
                RecordNotForeign
  <2>2. HolderOwns'
    BY <1>9, BusyHasInode DEF Crash, LockInv, TypeOK, HolderOwns, Holders
  <2>3. NoStaleLock'
    BY <1>9 DEF Crash, LockInv, TypeOK, NoStaleLock, Holders
  <2>4. QED
    BY <2>1, <2>2, <2>3 DEF LockInv
<1>10. QED
  BY <1>1, <1>2, <1>3, <1>4, <1>5, <1>6, <1>7, <1>8, <1>9 DEF Next

(* The lock file protocol always satisfies LockInv. *)
THEOREM LockInvariant == Spec => []LockInv
  BY InitLockInv, StepLockInv, PTL DEF Spec

(* Descriptors, flocks and records keep their types (lock.go:13-46). *)
THEOREM LockTypes == Spec => []TypeOK
<1>1. LockInv => TypeOK
  BY DEF LockInv
<1>2. QED
  BY <1>1, LockInvariant, PTL

(* However many runners contend and crash, two of them hold the VM lock    *)
(* only after some Release unlinked a file that another runner had opened  *)
(* (lock.go:41-44).                                                        *)
THEOREM LockExclusion == Spec => []ExclusionUnlessOverlap
<1>1. LockInv => ExclusionUnlessOverlap
  <2> SUFFICES ASSUME LockInv, ~overlapped, NEW p \in Holders, NEW q \in Holders
               PROVE  p = q
    BY DEF ExclusionUnlessOverlap, MutualExclusion
  <2>1. fd[p] = path /\ fd[q] = path
    BY BusyHasInode DEF LockInv, OpenIsLinked, Holders
  <2>2. owner[path] = p /\ owner[path] = q
    BY <2>1 DEF LockInv, HolderOwns
  <2>3. QED
    BY <2>2
<1>2. QED
  BY <1>1, LockInvariant, PTL

(* No crash or refused Acquire leaves a flock behind (lock.go:24-30).      *)
THEOREM LockNotStale == Spec => []NoStaleLock
<1>1. LockInv => NoStaleLock
  BY DEF LockInv
<1>2. QED
  BY <1>1, LockInvariant, PTL

(* The pid record of a held lock is nobody's or the holder's own, unless   *)
(* the holder could neither truncate nor write it (lock.go:31-33).         *)
THEOREM LockRecord == Spec => []RecordNotForeign
<1>1. LockInv => RecordNotForeign
  BY DEF LockInv
<1>2. QED
  BY <1>1, LockInvariant, PTL
-----------------------------------------------------------------------------
(* The refinement of AbstractLock *)

(* Somebody is between opening the file and closing it exactly when it is  *)
(* asking for the lock or has it.                                          *)
LEMMA BusyIsInside ==
  ASSUME LockInv
  PROVE  (\E q \in Procs : fd[q] # NoInode) <=> InState({"opened"}) \cup Holders # {}
  BY DEF LockInv, OpenIffBusy, InState, Holders

(* Nobody uses the lock at first. *)
LEMMA InitLock == Init => Lock!Init
  BY DEF Init, Lock!Init, InState, Holders

(* Every system call is a step of the lock, or does not show. *)
LEMMA StepLock ==
  ASSUME LockInv, [Next]_vars
  PROVE  Lock!Next \/ UNCHANGED Lock!vars
<1> DEFINE asking == InState({"opened"})
           leaving == InState({"unlocked"})
<1>1. TypeOK
  BY DEF LockInv
<1>2. ASSUME UNCHANGED <<asking, Holders, leaving, overlapped>>
      PROVE  UNCHANGED Lock!vars
  BY <1>2 DEF Lock!vars
<1>3. CASE UNCHANGED vars
  BY <1>2, <1>3 DEF vars, InState, Holders
<1>4. ASSUME NEW p \in Procs, NEW label, pc' = [pc EXCEPT ![p] = label]
      PROVE  /\ asking' = IF label = "opened" THEN asking \cup {p} ELSE asking \ {p}
             /\ Holders' = IF label \in {"locked", "held"} THEN Holders \cup {p}
                           ELSE Holders \ {p}
             /\ leaving' = IF label = "unlocked" THEN leaving \cup {p} ELSE leaving \ {p}
  BY <1>1, <1>4 DEF TypeOK, InState, Holders
<1>5. ASSUME NEW p \in Procs, pc' = [pc EXCEPT ![p] = "idle"]
      PROVE  asking' = asking \ {p} /\ Holders' = Holders \ {p} /\ leaving' = leaving \ {p}
  BY <1>1, <1>5 DEF TypeOK, InState, Holders
<1>6. ASSUME NEW p \in Procs
      PROVE  /\ p \in asking <=> pc[p] = "opened"
             /\ p \in Holders <=> pc[p] \in {"locked", "held"}
             /\ p \in leaving <=> pc[p] = "unlocked"
  BY DEF InState, Holders
<1> HIDE DEF asking, leaving
<1>7. ASSUME NEW p \in Procs, AcquireBlank(p) \/ ReleaseBlank(p)
      PROVE  UNCHANGED Lock!vars
  <2>1. /\ pc' = [pc EXCEPT ![p] = "unguarded"] \/ pc' = [pc EXCEPT ![p] = "idle"]
        /\ pc[p] \in {"idle", "unguarded"} /\ overlapped' = overlapped
    BY <1>7 DEF AcquireBlank, ReleaseBlank
  <2>2. p \notin asking /\ p \notin Holders /\ p \notin leaving
    BY <1>6, <2>1
  <2>3. asking' = asking \ {p} /\ Holders' = Holders \ {p} /\ leaving' = leaving \ {p}
    BY <1>4, <2>1
  <2> QED BY <1>2, <2>1, <2>2, <2>3
<1>8. ASSUME NEW p \in Procs, Open(p)
      PROVE  Lock!Ask(p)
  <2>1. pc' = [pc EXCEPT ![p] = "opened"] /\ pc[p] = "idle" /\ overlapped' = overlapped
    BY <1>8 DEF Open
  <2>2. /\ asking' = asking \cup {p} /\ Holders' = Holders \ {p} /\ leaving' = leaving \ {p}
        /\ p \notin asking /\ p \notin Holders /\ p \notin leaving
    BY <1>4, <1>6, <2>1
  <2>3. Holders' = Holders /\ leaving' = leaving
    BY <2>2
  <2> QED BY <2>1, <2>2, <2>3 DEF Lock!Ask, asking, leaving
<1>9. ASSUME NEW p \in Procs, Flock(p)
      PROVE  Lock!Take(p)
  <2>1. /\ pc' = [pc EXCEPT ![p] = "locked"] /\ pc[p] = "opened" /\ overlapped' = overlapped
        /\ owner[fd[p]] = NoProc
    BY <1>9 DEF Flock
  <2>2. Holders = {} \/ overlapped
    <3> SUFFICES ASSUME NEW q \in Holders, ~overlapped
                 PROVE  FALSE
      OBVIOUS
    <3>1. fd[p] = path /\ fd[q] = path
      BY <2>1, BusyHasInode DEF LockInv, OpenIsLinked, Holders
    <3>2. owner[path] = q /\ q # NoProc
      BY <3>1, LockConstants DEF LockInv, HolderOwns, Holders
    <3> QED BY <2>1, <3>1, <3>2
  <2>3. /\ asking' = asking \ {p} /\ Holders' = Holders \cup {p} /\ leaving' = leaving \ {p}
        /\ p \notin Holders /\ p \notin leaving
    BY <1>4, <1>6, <2>1
  <2>4. leaving' = leaving
    BY <2>3
  <2> QED BY <2>1, <2>2, <2>3, <2>4 DEF Lock!Take, asking, leaving
<1>10. ASSUME NEW p \in Procs, FlockFails(p) \/ Crash(p)
      PROVE  Lock!Drop(p)
  <2>1. pc' = [pc EXCEPT ![p] = "idle"] /\ overlapped' = overlapped
    BY <1>10 DEF FlockFails, Crash
  <2>2. asking' = asking \ {p} /\ Holders' = Holders \ {p} /\ leaving' = leaving \ {p}
    BY <1>5, <2>1
  <2> QED BY <2>1, <2>2 DEF Lock!Drop, asking, leaving
<1>11. ASSUME NEW p \in Procs, WriteRecord(p)
       PROVE  UNCHANGED Lock!vars
  <2>1. pc' = [pc EXCEPT ![p] = "held"] /\ pc[p] = "locked" /\ overlapped' = overlapped
    BY <1>11 DEF WriteRecord
  <2>2. /\ asking' = asking \ {p} /\ Holders' = Holders \cup {p} /\ leaving' = leaving \ {p}
        /\ p \notin asking /\ p \in Holders /\ p \notin leaving
    BY <1>4, <1>6, <2>1
  <2> QED BY <1>2, <2>1, <2>2
<1>12. ASSUME NEW p \in Procs, Unlock(p)
       PROVE  Lock!Release(p)
  <2>1. pc' = [pc EXCEPT ![p] = "unlocked"] /\ pc[p] = "held" /\ overlapped' = overlapped
    BY <1>12 DEF Unlock
  <2>2. /\ asking' = asking \ {p} /\ Holders' = Holders \ {p} /\ leaving' = leaving \cup {p}
        /\ p \notin asking /\ p \in Holders
    BY <1>4, <1>6, <2>1
  <2>3. asking' = asking
    BY <2>2
  <2> QED BY <2>1, <2>2, <2>3 DEF Lock!Release, asking, leaving
<1>13. ASSUME NEW p \in Procs, Remove(p)
       PROVE  Lock!Unlink(p) \/ Lock!Drop(p)
  <2>1. pc' = [pc EXCEPT ![p] = "idle"] /\ pc[p] = "unlocked"
    BY <1>13 DEF Remove
  <2>2. /\ asking' = asking \ {p} /\ Holders' = Holders \ {p} /\ leaving' = leaving \ {p}
        /\ p \notin asking /\ p \notin Holders /\ p \in leaving
    BY <1>5, <1>6, <2>1
  <2>3. CASE overlapped' = overlapped
    BY <2>2, <2>3 DEF Lock!Drop, asking, leaving
  <2>4. CASE overlapped' = (overlapped \/ \E q \in Procs : path # NoInode /\ fd[q] = path)
    <3>1. overlapped' = (overlapped \/ asking \cup Holders # {})
      <4>1. CASE overlapped
        BY <2>4, <4>1
      <4>2. CASE ~overlapped
        <5>1. (\E q \in Procs : path # NoInode /\ fd[q] = path)
              <=> \E q \in Procs : fd[q] # NoInode
          BY <4>2 DEF LockInv, OpenIsLinked
        <5> QED BY <2>4, <4>2, <5>1, BusyIsInside DEF asking
      <4> QED BY <4>1, <4>2
    <3>2. asking' = asking /\ Holders' = Holders
      BY <2>2
    <3> QED BY <2>2, <3>1, <3>2 DEF Lock!Unlink, asking, leaving
  <2> QED BY <1>13, <2>3, <2>4 DEF Remove
<1>14. QED
  BY <1>3, <1>7, <1>8, <1>9, <1>10, <1>11, <1>12, <1>13 DEF Next, Lock!Next

(* However many runners contend, crash and release (lock.go:13-46), what   *)
(* they have is AbstractLock: one holder at a time, until a Release takes  *)
(* the file away while another one is between opening and closing it.      *)
THEOREM LockKeepsLock == Spec => KeepsLock
<1>1. LockInv /\ [Next]_vars => [Lock!Next]_(Lock!vars)
  BY StepLock
<1>2. QED
  BY <1>1, InitLock, LockInvariant, PTL DEF Spec, KeepsLock, Lock!Spec
=============================================================================
