----------------------------- MODULE ImageCache -----------------------------
(***************************************************************************)
(* PrepareImageExt4Disk and writeImageToDisk (vm/image_disk.go): a cache   *)
(* directory of disks named by manifest digest and, under refs/, of the    *)
(* digest each reference was last resolved to.  Callers in several         *)
(* processes use one cache without a lock, and may die anywhere.  The      *)
(* registry is external: a tag may have another digest at every request.   *)
(* A disk holds its rootfs under the name of the reference it was built    *)
(* for.                                                                    *)
(***************************************************************************)
EXTENDS FiniteSets

CONSTANTS
  Callers,   \* the calling processes
  Refs,      \* image references
  Digests,   \* manifest digests
  Nothing    \* no reference, no digest

VARIABLES
  job,       \* per process: where its call is, reference, digest
  refFile,   \* per refs/<key>.digest: its content, Nothing if there is none or it is empty
  disk,      \* per <digest>.raw: its state, and the name its rootfs is under
  resolved,  \* history: the digests the registry has given for a reference
  spoiled    \* history: disks whose making was interrupted or overlapped

cacheVars == <<job, refFile, disk, resolved, spoiled>>

(* A reference cut at its first separator. *)
SanitizeCut(ref) == IF ref \in {"a/b", "a:2"} THEN "a" ELSE ref

(* "/", ":" and "@" become "_". *)
sanitizeImageRef(ref) == CASE ref = "a/b" -> "a_b" [] ref = "a:2" -> "a_2" [] OTHER -> ref

Keys == {sanitizeImageRef(r) : r \in Refs}

CacheInit ==
  /\ job = [p \in Callers |-> [pc |-> "idle", ref |-> Nothing, digest |-> Nothing]]
  /\ refFile = [k \in Keys |-> Nothing]
  /\ disk = [d \in Digests |-> [state |-> "absent", name |-> Nothing]]
  /\ resolved = [r \in Refs |-> {}] /\ spoiled = {}

KeyOf(p) == sanitizeImageRef(job[p].ref)
Step(p, label) == job' = [job EXCEPT ![p].pc = label]
-----------------------------------------------------------------------------
PrepareImageExt4Disk(p, r) ==
  /\ job[p].pc \in {"idle", "returned"}
  /\ job' = [job EXCEPT ![p] = [pc |-> "lookup", ref |-> r, digest |-> Nothing]]
  /\ UNCHANGED <<refFile, disk, resolved, spoiled>>

(* The fast path: the digest on file, if its disk can be stat'ed ... *)
ReadRef(p) ==
  /\ job[p].pc = "lookup"
  /\ LET d == refFile[KeyOf(p)] IN
     IF d # Nothing /\ disk[d].state # "absent"
     THEN job' = [job EXCEPT ![p].pc = "returned", ![p].digest = d] ELSE Step(p, "get")
  /\ UNCHANGED <<refFile, disk, resolved, spoiled>>

(* ... else what the registry says, ... *)
RemoteGet(p, d) ==
  /\ job[p].pc = "get"
  /\ job' = [job EXCEPT ![p].pc = "stat", ![p].digest = d]
  /\ resolved' = [resolved EXCEPT ![job[p].ref] = @ \cup {d}]
  /\ UNCHANGED <<refFile, disk, spoiled>>

(* ... and again a disk that is there is taken. *)
StatDisk(p) ==
  /\ job[p].pc = "stat"
  /\ Step(p, IF disk[job[p].digest].state = "absent" THEN "extract" ELSE "truncate")
  /\ UNCHANGED <<refFile, disk, resolved, spoiled>>

(* writeImageToDisk: the staging directory, which is the caller's own, and *)
(* os.Create of the disk, ...                                              *)
BlankDisk(p) ==
  /\ job[p].pc = "extract"
  /\ Step(p, "mkfs")
  /\ disk' = [disk EXCEPT ![job[p].digest].state = "partial"]
  /\ spoiled' = IF disk[job[p].digest].state = "absent" THEN spoiled
                ELSE spoiled \cup {job[p].digest}
  /\ UNCHANGED <<refFile, resolved>>

(* ... and mkfs.ext4 -d. *)
MkfsFromDir(p) ==
  /\ job[p].pc = "mkfs"
  /\ Step(p, "truncate")
  /\ \E st \in IF job[p].digest \in spoiled THEN {"partial", "whole"} ELSE {"whole"} :
       disk' = [disk EXCEPT ![job[p].digest] = [state |-> st, name |-> KeyOf(p)]]
  /\ UNCHANGED <<refFile, resolved, spoiled>>

(* os.WriteFile of the reference's digest empties the file first; what     *)
(* goes wrong is ignored.                                                  *)
TruncateRef(p) ==
  /\ job[p].pc = "truncate"
  /\ \/ Step(p, "record") /\ refFile' = [refFile EXCEPT ![KeyOf(p)] = Nothing]
     \/ Step(p, "returned") /\ UNCHANGED refFile
  /\ UNCHANGED <<disk, resolved, spoiled>>

RecordRef(p) ==
  /\ job[p].pc = "record"
  /\ Step(p, "returned")
  /\ refFile' = [refFile EXCEPT ![KeyOf(p)] = job[p].digest]
  /\ UNCHANGED <<disk, resolved, spoiled>>

(* A step fails and the call returns an error, or the process dies; the    *)
(* files stay as they are.                                                 *)
PrepareFails(p) ==
  /\ job[p].pc \notin {"idle", "returned"}
  /\ job' = [job EXCEPT ![p] = [pc |-> "idle", ref |-> Nothing, digest |-> Nothing]]
  /\ spoiled' = IF job[p].pc = "mkfs" THEN spoiled \cup {job[p].digest} ELSE spoiled
  /\ UNCHANGED <<refFile, disk, resolved>>

CacheNext ==
  \E p \in Callers :
    \/ \E r \in Refs : PrepareImageExt4Disk(p, r)
    \/ ReadRef(p) \/ (\E d \in Digests : RemoteGet(p, d)) \/ StatDisk(p)
    \/ BlankDisk(p) \/ MkfsFromDir(p) \/ TruncateRef(p) \/ RecordRef(p) \/ PrepareFails(p)
-----------------------------------------------------------------------------
(* A disk handed out for a reference is a whole one, of a digest the       *)
(* registry has given for that reference, with the rootfs under its name;  *)
(* except that the making of the disk was interrupted or overlapped, or is *)
(* still under way (any file at the path counts as finished, lines 84 and  *)
(* 106), that another reference has the same file name (line 78), or had   *)
(* the same digest first (line 46).  How old the digest is does not        *)
(* matter: the mapping is trusted for ever.                                *)
Alike(r, q) == {r, q} \subseteq {"a/b", "a_b"} \/ {r, q} \subseteq {"a:2", "a_2"}
CachedDiskRight ==
  \A p \in Callers :
    LET r == job[p].ref
        d == job[p].digest
    IN job[p].pc = "returned" =>
         /\ \E q \in Refs : (r = q \/ Alike(r, q)) /\ d \in resolved[q]
         /\ d \in spoiled \/ (\E q \in Callers : job[q].pc = "mkfs" /\ job[q].digest = d) \/
              /\ disk[d].state = "whole"
              /\ \/ disk[d].name = sanitizeImageRef(r)
                 \/ \E q \in Refs \ {r} : d \in resolved[q]
=============================================================================
