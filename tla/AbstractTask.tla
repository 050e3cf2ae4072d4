---------------------------- MODULE AbstractTask ----------------------------
(***************************************************************************)
(* What a Task promises the host that started a container (ByteStream and  *)
(* Task of the RPC interface): of each output stream the chunks in order   *)
(* and without a gap, of which a tail may never come; done at most at the  *)
(* end of a stream that has come whole; and for every ExitCode call the    *)
(* same outcome, which is settled after the container has ended.  There is *)
(* no process, pipe, pump, reaper or connection here; Task implements it   *)
(* with them.                                                              *)
(***************************************************************************)
EXTENDS Integers, Sequences

CONSTANTS Streams, Outcomes, None

VARIABLES
  running,   \* the container runs
  out,       \* per stream: chunks written by the container
  open,      \* per stream: it may still write
  got,       \* per stream: the chunks the host has
  complete,  \* per stream: the host was told that there is no more
  outcome,   \* how the container ended, once it is settled
  answers    \* the outcomes the host was given

streamVars == <<out, open, got, complete>>
vars == <<running, streamVars, outcome, answers>>

Init ==
  /\ running = TRUE
  /\ out = [s \in Streams |-> 0] /\ open = [s \in Streams |-> TRUE]
  /\ got = [s \in Streams |-> <<>>] /\ complete = [s \in Streams |-> FALSE]
  /\ outcome = None /\ answers = <<>>

Write(s) ==
  /\ open[s] /\ out' = [out EXCEPT ![s] = @ + 1]
  /\ UNCHANGED <<running, open, got, complete, outcome, answers>>

Close(s) ==
  /\ open' = [open EXCEPT ![s] = FALSE]
  /\ UNCHANGED <<running, out, got, complete, outcome, answers>>

Deliver(s) ==
  /\ ~complete[s] /\ Len(got[s]) < out[s]
  /\ got' = [got EXCEPT ![s] = Append(@, Len(@) + 1)]
  /\ UNCHANGED <<running, out, open, complete, outcome, answers>>

Complete(s) ==
  /\ ~open[s] /\ Len(got[s]) = out[s]
  /\ complete' = [complete EXCEPT ![s] = TRUE]
  /\ UNCHANGED <<running, out, open, got, outcome, answers>>

End == running /\ running' = FALSE /\ UNCHANGED <<streamVars, outcome, answers>>

Settle ==
  /\ ~running /\ outcome = None /\ outcome' \in Outcomes
  /\ UNCHANGED <<running, streamVars, answers>>

Answer ==
  /\ outcome # None /\ answers' = Append(answers, outcome)
  /\ UNCHANGED <<running, streamVars, outcome>>

Next ==
  \/ \E s \in Streams : Write(s) \/ Close(s) \/ Deliver(s) \/ Complete(s)
  \/ End \/ Settle \/ Answer

Spec == Init /\ [][Next]_vars
=============================================================================
