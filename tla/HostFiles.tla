----------------------------- MODULE HostFiles ------------------------------
(***************************************************************************)
(* What processes on the host do to files without a lock: launches of one  *)
(* VM (Launch) and callers of the disk cache (ImageCache).  The two work   *)
(* in different directories, so each is followed while the other has not   *)
(* begun.                                                                  *)
(***************************************************************************)
EXTENDS Launch, ImageCache

HostInit == Init /\ CacheInit

HostNext ==
  \/ CacheInit /\ Next /\ UNCHANGED cacheVars
  \/ Init /\ CacheNext /\ UNCHANGED vars

HostSpec == HostInit /\ [][HostNext]_<<vars, cacheVars>>
=============================================================================
