------------------------------ MODULE MCVMLock ------------------------------
(* VMLock for TLC: three runners contend for one lock path while a fourth  *)
(* runs with no lock path.  A live process keeps one inode and the path    *)
(* another, so one inode more than contenders never runs out.              *)
EXTENDS VMLock, TLC

CONSTANTS p1, p2, p3, b1, i1, i2, i3, i4

MCProcs == {p1, p2, p3, b1}
MCInodes == {i1, i2, i3, i4}
MCBlankPath == {b1}

(* Contenders are interchangeable, and so are inodes. *)
MCSymmetry == Permutations({p1, p2, p3}) \cup Permutations(MCInodes)
=============================================================================
