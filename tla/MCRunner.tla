------------------------------ MODULE MCRunner ------------------------------
(* Runner for TLC.  The buffers are as small as they can be, so that every *)
(* send meets a full channel; the constants are given in the .cfg files.   *)
EXTENDS Runner
=============================================================================
