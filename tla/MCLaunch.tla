------------------------------ MODULE MCLaunch ------------------------------
(* HostFiles for TLC: three invocations, so that one can hold the VM while *)
(* two others prepare its files at the same time, and two users of the     *)
(* image cache.  Of the three references two share a file name.            *)
EXTENDS HostFiles, TLC

(* Processes and digests are interchangeable. *)
MCSymmetry == Permutations(Procs) \cup Permutations(Callers) \cup Permutations(Digests)
=============================================================================
