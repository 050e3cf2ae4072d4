------------------------------- MODULE MCTask -------------------------------
(* Task for TLC: one stream or two, of two chunks each, with room for one  *)
(* chunk in a pipe and in the flow-control window, so that every write     *)
(* meets a full buffer.                                                    *)
EXTENDS Task, TLC

CONSTANTS stdout, stderr

MCStreams == {stdout, stderr}

(* The two output streams are treated alike. *)
MCSymmetry == Permutations(MCStreams)
=============================================================================
