-------------------------- MODULE HostFilesProofs ---------------------------
(***************************************************************************)
(* The properties of Launch for any number of invocations of the vm        *)
(* command, and of ImageCache for any number of callers, references and    *)
(* digests.  LaunchInv says who holds the lock, and that a file which is   *)
(* there is whole, spoiled or being made; CacheInv says the same of a disk *)
(* in the cache, and where a digest that is on file or in a call's hands   *)
(* came from.                                                              *)
(***************************************************************************)
EXTENDS HostFiles, TLAPS

(* A vmmanager's invocation waits for it, or is gone and has left it; one  *)
(* that waits holds the lock, which is one invocation's until it breaks.   *)
LockIsWait ==
  /\ \A p \in mgr \ orphans : pc[p] = "vm"
  /\ \A p \in mgr : pc[p] \in {"idle", "vm", "leave"}
  /\ broken \/ \A p, q \in Holders : p = q

(* A file that is there is whole, spoiled or being made, ... *)
RootSound ==
  /\ rootImg = "partial" => "root" \in disturbed \/ At("copy") # {}
  /\ At("copy") # {} => rootImg # "absent"
  /\ \A p \in At("copy") : rootWriter = p \/ "root" \in disturbed
DiskSound == stateDisk = "partial" => "disk" \in disturbed \/ At("mkfs") # {}
ImageSound ==
  /\ sharedRoot = "partial" => "image" \in disturbed \/ At("extract") # {}
  /\ At("extract") # {} => sharedRoot # "absent"

(* ... and no invocation gets past the step that makes it without it. *)
PastNeeds ==
  \A p \in Procs :
    /\ pc[p] \notin {"idle", "root", "create"} \/ p \in mgr => rootImg # "absent"
    /\ container[p] /\ pc[p] \in {"mkfs", "image", "mkdir", "extract", "run", "ask", "locked", "vm"} =>
         stateDisk # "absent"
    /\ container[p] /\ pc[p] \in {"run", "ask", "locked", "vm"} => sharedRoot # "absent"
    /\ pc[p] \in {"disk", "mkfs", "image", "mkdir", "extract"} => container[p]

LaunchInv == TypeOK /\ LockIsWait /\ RootSound /\ DiskSound /\ ImageSound /\ PastNeeds

-----------------------------------------------------------------------------
(* LaunchInv holds before the first launch. *)
LEMMA InitLaunchInv == Init => LaunchInv
  BY LaunchConstants
  DEF Init, LaunchInv, TypeOK, Labels, FileStates, LockIsWait, RootSound, DiskSound, ImageSound,
      PastNeeds, At, Holders

(* Every step of an invocation, and its death anywhere, preserves it. *)
LEMMA StepLaunchInv == LaunchInv /\ [Next]_vars => LaunchInv'
<1> SUFFICES ASSUME LaunchInv, [Next]_vars
             PROVE  LaunchInv'
  OBVIOUS
<1> USE LaunchConstants
<1> USE DEF LaunchInv, TypeOK, Labels, FileStates, LockIsWait, RootSound, DiskSound, ImageSound,
            PastNeeds, At, Goto, Holders, fileVars, mgrVars
<1>1. CASE UNCHANGED vars
  BY <1>1 DEF vars
<1>2. ASSUME NEW p \in Procs, Start(p)
      PROVE  LaunchInv'
  BY <1>2 DEF Start
<1>3. ASSUME NEW p \in Procs, StatRoot(p)
      PROVE  LaunchInv'
  BY <1>3 DEF StatRoot, AfterRoot
<1>4. ASSUME NEW p \in Procs, CreateRoot(p)
      PROVE  LaunchInv'
  BY <1>4 DEF CreateRoot
<1>5. ASSUME NEW p \in Procs, CopyRoot(p)
      PROVE  LaunchInv'
  BY <1>5 DEF CopyRoot, AfterRoot
<1>6. ASSUME NEW p \in Procs, CreateDisk(p)
      PROVE  LaunchInv'
  BY <1>6 DEF CreateDisk
<1>7. ASSUME NEW p \in Procs, Mkfs(p)
      PROVE  LaunchInv'
  BY <1>7 DEF Mkfs, Outcome
<1>8. ASSUME NEW p \in Procs, StatImage(p)
      PROVE  LaunchInv'
  BY <1>8 DEF StatImage
<1>9. ASSUME NEW p \in Procs, MakeRootfs(p)
      PROVE  LaunchInv'
  BY <1>9 DEF MakeRootfs
<1>10. ASSUME NEW p \in Procs, ExtractTar(p)
      PROVE  LaunchInv'
  BY <1>10 DEF ExtractTar, Outcome
<1>11. ASSUME NEW p \in Procs, OpenLock(p)
      PROVE  LaunchInv'
  BY <1>11 DEF OpenLock
<1>12. ASSUME NEW p \in Procs, TakeLock(p)
      PROVE  LaunchInv'
  BY <1>12 DEF TakeLock
<1>13. ASSUME NEW p \in Procs, StartManager(p)
      PROVE  LaunchInv'
  BY <1>13 DEF StartManager
<1>14. ASSUME NEW p \in Procs, ReleaseLock(p)
      PROVE  LaunchInv'
  BY <1>14 DEF ReleaseLock
<1>15. ASSUME NEW p \in Procs, RemoveLock(p)
      PROVE  LaunchInv'
  <2>1. /\ pc[p] = "leave" /\ pc' = [pc EXCEPT ![p] = "idle"]
        /\ UNCHANGED <<fileVars, mgr, orphans, wiped, disturbed>>
    BY <1>15 DEF RemoveLock
  <2>2. broken' \in BOOLEAN /\ (broken => broken')
    <3>1. broken' = broken \/ broken' = (broken \/ At("ask") \cup Holders # {})
      BY <1>15 DEF RemoveLock
    <3>2. QED
      BY <3>1, Zenon
  <2>3. QED
    BY <2>1, <2>2
<1>16. ASSUME NEW p \in Procs, ManagerExits(p)
      PROVE  LaunchInv'
  BY <1>16 DEF ManagerExits
<1>17. ASSUME NEW p \in Procs, Die(p)
      PROVE  LaunchInv'
  BY <1>17 DEF Die
<1>18. QED
  BY <1>1, <1>2, <1>3, <1>4, <1>5, <1>6, <1>7, <1>8, <1>9, <1>10, <1>11, <1>12, <1>13,
     <1>14, <1>15, <1>16, <1>17 DEF Next

(* LaunchInv holds whatever invocations do and wherever they die. *)
LEMMA LaunchInvariant == Spec => []LaunchInv
  BY InitLaunchInv, StepLaunchInv, PTL DEF Spec

(* Every file and every invocation stays in a known state. *)
THEOREM LaunchTypeOK == Spec => []TypeOK
<1>1. LaunchInv => TypeOK
  BY DEF LaunchInv
<1>2. QED
  BY <1>1, LaunchInvariant, PTL

(* Of two vmmanagers on one VM directory one has lost its invocation, or a *)
(* Release has unlinked the lock file under another invocation (lock.go,   *)
(* 41-44): however many launches race, fail and die, VMRunner.Run holds    *)
(* the lock around the life of the vmmanager it waits for.                 *)
THEOREM LaunchOneManager == Spec => []OneManagerUnlessOrphan
<1>1. LaunchInv => OneManagerUnlessOrphan
  BY DEF LaunchInv, TypeOK, LockIsWait, OneManagerUnlessOrphan, Holders, At
<1>2. QED
  BY <1>1, LaunchInvariant, PTL

(* An invocation's steps are steps of the lock, or do not show. *)
LEMMA StepLaunchLock ==
  ASSUME LaunchInv, [Next]_vars
  PROVE  Lock!Next \/ UNCHANGED Lock!vars
<1> DEFINE asking == At("ask")
           leaving == At("leave")
<1>1. TypeOK
  BY DEF LaunchInv
<1>2. ASSUME UNCHANGED <<asking, Holders, leaving, broken>>
      PROVE  UNCHANGED Lock!vars
  BY <1>2 DEF Lock!vars
<1>3. CASE UNCHANGED vars
  BY <1>2, <1>3 DEF vars, mgrVars, At, Holders
<1>4. ASSUME NEW p \in Procs, NEW label, Goto(p, label)
      PROVE  /\ asking' = IF label = "ask" THEN asking \cup {p} ELSE asking \ {p}
             /\ Holders' = IF label \in {"locked", "vm"} THEN Holders \cup {p}
                           ELSE Holders \ {p}
             /\ leaving' = IF label = "leave" THEN leaving \cup {p} ELSE leaving \ {p}
  BY <1>1, <1>4 DEF TypeOK, Goto, At, Holders
<1>5. ASSUME NEW p \in Procs
      PROVE  /\ p \in asking <=> pc[p] = "ask"
             /\ p \in Holders <=> pc[p] \in {"locked", "vm"}
             /\ p \in leaving <=> pc[p] = "leave"
  BY DEF At, Holders
<1> HIDE DEF asking, leaving
<1>6. ASSUME NEW p \in Procs,
             \/ Start(p) \/ StatRoot(p) \/ CreateRoot(p) \/ CopyRoot(p)
             \/ CreateDisk(p) \/ Mkfs(p) \/ StatImage(p) \/ MakeRootfs(p) \/ ExtractTar(p)
      PROVE  UNCHANGED Lock!vars
  <2>1. PICK label \in {"root", "create", "copy", "disk", "mkfs", "image", "mkdir", "extract", "run"} :
          Goto(p, label)
    BY <1>6 DEF Start, StatRoot, CreateRoot, CopyRoot, CreateDisk, Mkfs, StatImage,
                MakeRootfs, ExtractTar, AfterRoot
  <2>2. /\ pc[p] \notin {"ask", "locked", "vm", "leave"} /\ broken' = broken
    BY <1>6 DEF Start, StatRoot, CreateRoot, CopyRoot, CreateDisk, Mkfs, StatImage,
                MakeRootfs, ExtractTar, mgrVars
  <2>3. asking' = asking \ {p} /\ Holders' = Holders \ {p} /\ leaving' = leaving \ {p}
    BY <1>4, <2>1
  <2>4. p \notin asking /\ p \notin Holders /\ p \notin leaving
    BY <1>5, <2>2
  <2> QED BY <1>2, <2>2, <2>3, <2>4
<1>7. ASSUME NEW p \in Procs, OpenLock(p)
      PROVE  Lock!Ask(p)
  <2>1. Goto(p, "ask") /\ pc[p] = "run" /\ broken' = broken
    BY <1>7 DEF OpenLock, mgrVars
  <2>2. /\ asking' = asking \cup {p} /\ Holders' = Holders \ {p} /\ leaving' = leaving \ {p}
        /\ p \notin asking /\ p \notin Holders /\ p \notin leaving
    BY <1>4, <1>5, <2>1
  <2>3. Holders' = Holders /\ leaving' = leaving
    BY <2>2
  <2> QED BY <2>1, <2>2, <2>3 DEF Lock!Ask, asking, leaving
<1>8. ASSUME NEW p \in Procs, TakeLock(p)
      PROVE  Lock!Take(p)
  <2>1. Goto(p, "locked") /\ pc[p] = "ask" /\ broken' = broken /\ (Holders = {} \/ broken)
    BY <1>8 DEF TakeLock, mgrVars
  <2>2. /\ asking' = asking \ {p} /\ Holders' = Holders \cup {p} /\ leaving' = leaving \ {p}
        /\ p \notin Holders /\ p \notin leaving
    BY <1>4, <1>5, <2>1
  <2>3. leaving' = leaving
    BY <2>2
  <2> QED BY <2>1, <2>2, <2>3 DEF Lock!Take, asking, leaving
<1>9. ASSUME NEW p \in Procs, StartManager(p)
      PROVE  UNCHANGED Lock!vars
  <2>1. Goto(p, "vm") /\ pc[p] = "locked" /\ broken' = broken
    BY <1>9 DEF StartManager
  <2>2. /\ asking' = asking \ {p} /\ Holders' = Holders \cup {p} /\ leaving' = leaving \ {p}
        /\ p \notin asking /\ p \in Holders /\ p \notin leaving
    BY <1>4, <1>5, <2>1
  <2> QED BY <1>2, <2>1, <2>2
<1>10. ASSUME NEW p \in Procs, ManagerExits(p)
       PROVE  UNCHANGED Lock!vars
  BY <1>2, <1>10 DEF ManagerExits, asking, leaving, At, Holders
<1>11. ASSUME NEW p \in Procs, ReleaseLock(p)
       PROVE  Lock!Release(p)
  <2>1. Goto(p, "leave") /\ p \in Holders /\ broken' = broken
    BY <1>11 DEF ReleaseLock
  <2>2. /\ asking' = asking \ {p} /\ Holders' = Holders \ {p} /\ leaving' = leaving \cup {p}
        /\ p \notin asking
    BY <1>4, <1>5, <2>1
  <2>3. asking' = asking
    BY <2>2
  <2> QED BY <2>1, <2>2, <2>3 DEF Lock!Release, asking, leaving
<1>12. ASSUME NEW p \in Procs, RemoveLock(p)
       PROVE  Lock!Unlink(p) \/ Lock!Drop(p)
  <2>1. Goto(p, "idle") /\ pc[p] = "leave"
    BY <1>12 DEF RemoveLock
  <2>2. /\ asking' = asking \ {p} /\ Holders' = Holders \ {p} /\ leaving' = leaving \ {p}
        /\ p \notin asking /\ p \notin Holders /\ p \in leaving
    BY <1>4, <1>5, <2>1
  <2>3. asking' = asking /\ Holders' = Holders
    BY <2>2
  <2>4. broken' = broken \/ broken' = (broken \/ asking \cup Holders # {})
    BY <1>12 DEF RemoveLock, asking
  <2> QED BY <2>2, <2>3, <2>4 DEF Lock!Unlink, Lock!Drop, asking, leaving
<1>13. ASSUME NEW p \in Procs, Die(p)
       PROVE  Lock!Drop(p)
  <2>1. Goto(p, "idle") /\ broken' = broken
    BY <1>13 DEF Die
  <2>2. asking' = asking \ {p} /\ Holders' = Holders \ {p} /\ leaving' = leaving \ {p}
    BY <1>4, <2>1
  <2> QED BY <2>1, <2>2 DEF Lock!Drop, asking, leaving
<1>14. QED
  BY <1>3, <1>6, <1>7, <1>8, <1>9, <1>10, <1>11, <1>12, <1>13 DEF Next, Lock!Next

(* Launches use the lock as AbstractLock has it, its breaking included: an *)
(* invocation opens the file, takes the lock around Run, unlocks and then  *)
(* unlinks it (lock.go:20-45), and one that dies anywhere drops it.  What  *)
(* LockKeepsLock promises of the lock file is what the launches rely on.   *)
THEOREM LaunchKeepsLock == Spec => KeepsLock
<1>1. Init => Lock!Init
  BY DEF Init, Lock!Init, At, Holders
<1>2. LaunchInv /\ [Next]_vars => [Lock!Next]_(Lock!vars)
  BY StepLaunchLock
<1>3. QED
  BY <1>1, <1>2, LaunchInvariant, PTL DEF Spec, KeepsLock, Lock!Spec

(* A VM boots on whole files unless their making was interrupted,          *)
(* overlapped or is under way again, however many launches race.           *)
THEOREM LaunchPrepared == Spec => []PreparedUnlessDisturbed
<1>1. LaunchInv => PreparedUnlessDisturbed
  BY DEF LaunchInv, TypeOK, FileStates, RootSound, DiskSound, ImageSound, PastNeeds,
         PreparedUnlessDisturbed
<1>2. QED
  BY <1>1, LaunchInvariant, PTL
-----------------------------------------------------------------------------
(* A preparation of an image, and where it may be. *)
Jobs == [pc : {"idle", "lookup", "get", "stat", "extract", "mkfs", "truncate", "record", "returned"},
         ref : Refs \cup {Nothing}, digest : Digests \cup {Nothing}]

CacheTypes ==
  /\ job \in [Callers -> Jobs]
  /\ refFile \in [Keys -> Digests \cup {Nothing}]
  /\ disk \in [Digests -> [state : {"absent", "partial", "whole"}, name : Keys \cup {Nothing}]]
  /\ resolved \in [Refs -> SUBSET Digests] /\ spoiled \subseteq Digests

(* What a call knows of its digest, and what a disk that is there is. *)
ResolvedFor(k, d) == \E q \in Refs : sanitizeImageRef(q) = k /\ d \in resolved[q]

JobKnows(p) ==
  /\ job[p].pc # "idle" => job[p].ref \in Refs
  /\ job[p].pc \in {"stat", "extract", "mkfs", "truncate", "record"} =>
       job[p].digest \in Digests /\ job[p].digest \in resolved[job[p].ref]
  /\ job[p].pc = "returned" => job[p].digest \in Digests /\ ResolvedFor(KeyOf(p), job[p].digest)
  /\ job[p].pc \in {"mkfs", "truncate", "record", "returned"} => disk[job[p].digest].state # "absent"

Making(d) == \E q \in Callers : job[q].pc = "mkfs" /\ job[q].digest = d
DiskSettled(d) ==
  \/ disk[d].state = "absent" \/ d \in spoiled \/ Making(d)
  \/ disk[d].state = "whole" /\ ResolvedFor(disk[d].name, d)

(* What is known of the cache at any time. *)
CacheInv ==
  /\ CacheTypes
  /\ \A p \in Callers : JobKnows(p)
  /\ \A k \in Keys : refFile[k] # Nothing => ResolvedFor(k, refFile[k])
  /\ \A d \in Digests : DiskSettled(d)

(* The image cache by itself. *)
CacheSpec == CacheInit /\ [][CacheNext]_cacheVars
-----------------------------------------------------------------------------
(* The only references with one file name are those the code's             *)
(* replacement of "/", ":" and "@" makes alike.                            *)
LEMMA SameKeyAlike ==
  ASSUME NEW r, NEW q, sanitizeImageRef(r) = sanitizeImageRef(q)
  PROVE  r = q \/ Alike(r, q)
  BY DEF sanitizeImageRef, Alike

(* A call that moves on with a digest keeps job a function of records. *)
LEMMA JobRecord ==
  ASSUME CacheTypes, NEW p \in Callers, NEW d \in Digests, NEW l \in {"returned", "stat"},
         job' = [job EXCEPT ![p].pc = l, ![p].digest = d]
  PROVE  job' \in [Callers -> Jobs]
<1>1. job'[p] \in Jobs
  BY DEF CacheTypes, Jobs
<1>2. \A q \in Callers : q # p => job'[q] = job[q]
  BY DEF CacheTypes
<1>3. job' = [q \in Callers |-> job'[q]]
  BY DEF CacheTypes
<1>4. QED
  BY <1>1, <1>2, <1>3 DEF CacheTypes

(* CacheInv holds of an empty cache. *)
LEMMA InitCacheInv == CacheInit => CacheInv
  BY DEF CacheInit, CacheInv, CacheTypes, Jobs, JobKnows, DiskSettled

(* Every step of a caller, its failure and its death preserve CacheInv. *)
LEMMA StepCacheInv == CacheInv /\ [CacheNext]_cacheVars => CacheInv'
<1> SUFFICES ASSUME CacheInv, [CacheNext]_cacheVars
             PROVE  CacheInv'
  OBVIOUS
<1> USE DEF CacheInv, CacheTypes, Jobs, JobKnows, DiskSettled, ResolvedFor, Making, KeyOf, Step,
            Keys
<1>1. CASE UNCHANGED cacheVars
  BY <1>1 DEF cacheVars
<1>2. ASSUME NEW p \in Callers, NEW r \in Refs, PrepareImageExt4Disk(p, r)
      PROVE  CacheInv'
  BY <1>2 DEF PrepareImageExt4Disk
<1>3. ASSUME NEW p \in Callers, ReadRef(p)
      PROVE  CacheInv'
  <2>1. refFile' = refFile /\ disk' = disk /\ resolved' = resolved /\ spoiled' = spoiled
    BY <1>3 DEF ReadRef
  <2>2. job[p].ref \in Refs /\ KeyOf(p) \in Keys /\ job[p].pc = "lookup"
    BY <1>3 DEF ReadRef
  <2>3. CASE refFile[KeyOf(p)] # Nothing /\ disk[refFile[KeyOf(p)]].state # "absent"
    <3>1. job' = [job EXCEPT ![p].pc = "returned", ![p].digest = refFile[KeyOf(p)]]
      BY <1>3, <2>3 DEF ReadRef
    <3>2. refFile[KeyOf(p)] \in Digests /\ ResolvedFor(KeyOf(p), refFile[KeyOf(p)])
      BY <2>2, <2>3
    <3>3. CacheTypes'
      <4>1. job' \in [Callers -> Jobs]
        BY <3>1, <3>2, JobRecord
      <4>2. QED
        BY <2>1, <4>1
    <3>4. \A q \in Callers : JobKnows(q)'
      BY <2>1, <2>2, <2>3, <3>1, <3>2
    <3>5. \A d \in Digests : DiskSettled(d)'
      BY <2>1, <2>2, <3>1
    <3>6. QED
      BY <2>1, <3>3, <3>4, <3>5
  <2>4. CASE ~(refFile[KeyOf(p)] # Nothing /\ disk[refFile[KeyOf(p)]].state # "absent")
    <3>1. job' = [job EXCEPT ![p].pc = "get"]
      BY <1>3, <2>4 DEF ReadRef
    <3>2. QED
      BY <2>1, <2>2, <3>1
  <2>5. QED
    BY <2>3, <2>4
<1>4. ASSUME NEW p \in Callers, NEW d \in Digests, RemoteGet(p, d)
      PROVE  CacheInv'
  <2>1. /\ job[p].pc = "get" /\ job' = [job EXCEPT ![p].pc = "stat", ![p].digest = d]
        /\ resolved' = [resolved EXCEPT ![job[p].ref] = @ \cup {d}]
        /\ refFile' = refFile /\ disk' = disk /\ spoiled' = spoiled
    BY <1>4 DEF RemoteGet
  <2>2. job[p].ref \in Refs
    BY <2>1
  <2>3. \A q \in Refs : resolved[q] \subseteq resolved'[q]
    BY <2>1, <2>2
  <2>4. CacheTypes' /\ d \in resolved'[job[p].ref]
    <3>1. job' \in [Callers -> Jobs]
      BY <2>1, JobRecord
    <3>2. resolved' \in [Refs -> SUBSET Digests] /\ d \in resolved'[job[p].ref]
      BY <2>1, <2>2
    <3>3. QED
      BY <2>1, <3>1, <3>2
  <2>5. \A k, e : ResolvedFor(k, e) => ResolvedFor(k, e)'
    BY <2>3
  <2>6. \A q \in Callers : JobKnows(q)'
    <3>1. JobKnows(p)'
      BY <2>1, <2>2, <2>4
    <3>2. ASSUME NEW q \in Callers, q # p PROVE JobKnows(q)'
      <4>1. job'[q] = job[q] /\ KeyOf(q)' = KeyOf(q)
        BY <2>1, <3>2
      <4>2. QED
        BY <2>1, <2>3, <2>5, <3>2, <4>1
    <3>3. QED
      BY <3>1, <3>2
  <2>7. ASSUME NEW e \in Digests PROVE DiskSettled(e)'
    <3>1. Making(e) => Making(e)'
      BY <2>1
    <3>2. QED
      BY <2>1, <2>5, <3>1
  <2>8. QED
    BY <2>1, <2>4, <2>5, <2>6, <2>7
<1>5. ASSUME NEW p \in Callers, StatDisk(p)
      PROVE  CacheInv'
  BY <1>5 DEF StatDisk
<1>6. ASSUME NEW p \in Callers, BlankDisk(p)
      PROVE  CacheInv'
  BY <1>6 DEF BlankDisk
<1>7. ASSUME NEW p \in Callers, MkfsFromDir(p)
      PROVE  CacheInv'
  BY <1>7 DEF MkfsFromDir
<1>8. ASSUME NEW p \in Callers, TruncateRef(p)
      PROVE  CacheInv'
  <2>1. job[p].pc = "truncate" /\ job[p].ref \in Refs /\ UNCHANGED <<disk, resolved, spoiled>>
    BY <1>8 DEF TruncateRef
  <2>2. CASE Step(p, "record") /\ refFile' = [refFile EXCEPT ![KeyOf(p)] = Nothing]
    BY <2>1, <2>2
  <2>3. CASE Step(p, "returned") /\ refFile' = refFile
    BY <2>1, <2>3
  <2>4. QED
    BY <1>8, <2>2, <2>3 DEF TruncateRef
<1>9. ASSUME NEW p \in Callers, RecordRef(p)
      PROVE  CacheInv'
  BY <1>9 DEF RecordRef
<1>10. ASSUME NEW p \in Callers, PrepareFails(p)
      PROVE  CacheInv'
  BY <1>10 DEF PrepareFails
<1>11. QED
  BY <1>1, <1>2, <1>3, <1>4, <1>5, <1>6, <1>7, <1>8, <1>9, <1>10 DEF CacheNext

(* A disk handed out for a reference is a whole one of a digest the        *)
(* registry gave for it, with the exceptions CachedDiskRight spells out,   *)
(* for any number of callers that share the cache without a lock.          *)
THEOREM CacheDiskRight == CacheSpec => []CachedDiskRight
<1>1. CacheInv => CachedDiskRight
  BY SameKeyAlike DEF CacheInv, CacheTypes, JobKnows, DiskSettled, ResolvedFor, Making, KeyOf,
     CachedDiskRight
<1>2. QED
  BY <1>1, InitCacheInv, StepCacheInv, PTL DEF CacheSpec

(* What the runs explore, one of the two systems at a time, are behaviours *)
(* of both, so the theorems above speak of them.                           *)
THEOREM HostImplementsBoth == HostSpec => Spec /\ CacheSpec
<1>1. HostInit => Init /\ CacheInit
  BY DEF HostInit
<1>2. [HostNext]_<<vars, cacheVars>> => [Next]_vars /\ [CacheNext]_cacheVars
  BY DEF HostNext
<1>3. QED
  BY <1>1, <1>2, PTL DEF HostSpec, Spec, CacheSpec
=============================================================================
