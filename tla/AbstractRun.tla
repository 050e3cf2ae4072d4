---------------------------- MODULE AbstractRun -----------------------------
(***************************************************************************)
(* What RunContainer promises its caller, whatever becomes of the session. *)
(* A container is made at most once, with exactly what was asked for, and  *)
(* started at most once after that; what a stream shows only grows, from   *)
(* the start to its end, which comes after the container's own; the caller *)
(* gets one result, and a code only once the container has ended with it.  *)
(* An error says nothing of the container: it may be made, started and     *)
(* print after the caller was told.  A dead host shows and returns nothing *)
(* more.  There is no call, capability, pump, chunk or connection here;    *)
(* Session implements it with them.                                        *)
(***************************************************************************)
EXTENDS Sequences, Integers

CONSTANTS Requests, Streams, Codes, Nothing

VARIABLES
  asked,     \* what RunContainer was asked to run
  made,      \* what the agent's container was made with
  proc,      \* its process
  code,      \* the code it ended with
  printed,   \* per stream: the lines shown
  ended,     \* per stream: all was shown
  result,    \* what RunContainer returned
  dead       \* the host process is

vars == <<asked, made, proc, code, printed, ended, result, dead>>

Init ==
  /\ asked = Nothing /\ made = Nothing /\ proc = "none" /\ code = "unset"
  /\ printed = [s \in Streams |-> <<>>] /\ ended = [s \in Streams |-> FALSE]
  /\ result = "none" /\ dead = FALSE

Ask(r) ==
  /\ ~dead /\ asked = Nothing /\ asked' = r
  /\ UNCHANGED <<made, proc, code, printed, ended, result, dead>>

Make ==
  /\ asked # Nothing /\ made = Nothing /\ made' = asked
  /\ UNCHANGED <<asked, proc, code, printed, ended, result, dead>>

Start ==
  /\ made # Nothing /\ proc = "none" /\ proc' = "running"
  /\ UNCHANGED <<asked, made, code, printed, ended, result, dead>>

Exit ==
  /\ proc = "running" /\ proc' = "exited" /\ code' \in Codes
  /\ UNCHANGED <<asked, made, printed, ended, result, dead>>

(* More lines of a stream, and of no other one. *)
Grows(s) ==
  /\ printed' = [printed EXCEPT ![s] = printed'[s]]
  /\ \E n \in 0..Len(printed'[s]) : printed[s] = SubSeq(printed'[s], 1, n)

(* Lines are shown; the host may die of it. *)
Show(s) ==
  /\ ~dead /\ proc # "none" /\ ~ended[s] /\ Grows(s)
  /\ dead' \in BOOLEAN
  /\ UNCHANGED <<asked, made, proc, code, ended, result>>

Finish(s) ==
  /\ ~dead /\ proc = "exited" /\ ~ended[s] /\ Grows(s)
  /\ ended' = [ended EXCEPT ![s] = TRUE]
  /\ UNCHANGED <<asked, made, proc, code, result, dead>>

Return ==
  /\ ~dead /\ asked # Nothing /\ result = "none"
  /\ result' = "err" \/ (proc = "exited" /\ result' = code)
  /\ UNCHANGED <<asked, made, proc, code, printed, ended, dead>>

Next ==
  \/ \E r \in Requests : Ask(r)
  \/ Make \/ Start \/ Exit \/ Return
  \/ \E s \in Streams : Show(s) \/ Finish(s)

Spec == Init /\ [][Next]_vars
=============================================================================
