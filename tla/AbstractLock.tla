---------------------------- MODULE AbstractLock ----------------------------
(***************************************************************************)
(* What the lock of a VM directory is to the runners that use it: a thing  *)
(* one of them holds at a time, until somebody who gives it up takes the   *)
(* file away while another one is between opening it and closing it.  From *)
(* then on the lock is broken and any number may hold it.  There is no     *)
(* path, inode, descriptor or flock here; VMLock implements it with them,  *)
(* and Launch, which has the invocations around it, uses it as it is.      *)
(***************************************************************************)
CONSTANT Procs

VARIABLES
  asking,    \* those that have begun to ask for the lock
  holders,   \* those that have it
  leaving,   \* those that gave it up and have not taken the file away yet
  broken     \* the file was taken from somebody who had begun

vars == <<asking, holders, leaving, broken>>

Init == asking = {} /\ holders = {} /\ leaving = {} /\ broken = FALSE

Ask(p) ==
  /\ p \notin asking \cup holders \cup leaving
  /\ asking' = asking \cup {p}
  /\ UNCHANGED <<holders, leaving, broken>>

Take(p) ==
  /\ p \notin holders \cup leaving
  /\ holders = {} \/ broken
  /\ holders' = holders \cup {p} /\ asking' = asking \ {p}
  /\ UNCHANGED <<leaving, broken>>

Release(p) ==
  /\ p \in holders
  /\ holders' = holders \ {p} /\ leaving' = leaving \cup {p}
  /\ UNCHANGED <<asking, broken>>

Unlink(p) ==
  /\ p \in leaving
  /\ leaving' = leaving \ {p}
  /\ broken' = (broken \/ asking \cup holders # {})
  /\ UNCHANGED <<asking, holders>>

(* Refused, dead, or done without taking the file away. *)
Drop(p) ==
  /\ asking' = asking \ {p} /\ holders' = holders \ {p} /\ leaving' = leaving \ {p}
  /\ UNCHANGED broken

Next == \E p \in Procs : Ask(p) \/ Take(p) \/ Release(p) \/ Unlink(p) \/ Drop(p)

Spec == Init /\ [][Next]_vars
=============================================================================
