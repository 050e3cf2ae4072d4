------------------------------- MODULE MCBoot -------------------------------
(***************************************************************************)
(* Boot for TLC, with enough connections to fill both channels: the        *)
(* agent's, two proxy connections, one of them in the forwarder's hand,    *)
(* and two that wait, one of them in the acceptor's.  The configurations   *)
(* are one that boots, one whose agent dials another port, one that        *)
(* vmmanager refuses and one that makes it trap.                           *)
(***************************************************************************)
EXTENDS Boot

MCFlags == {DefaultFlags, [DefaultFlags EXCEPT !.boot = "EFI ", !.port = 2]}

MCDirect ==
  {[DirectConfig EXCEPT !.KernelPath = ""], [DirectConfig EXCEPT !.ProxyVsockPorts = {4}]}
=============================================================================
