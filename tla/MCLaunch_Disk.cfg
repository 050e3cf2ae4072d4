CONSTANTS
  Procs = {p1, p2, p3}
  NoProc = NoProc
  Callers = {c1, c2}
  Refs = {"a/b", "a_b", "a:2"}
  Digests = {d1, d2}
  Nothing = Nothing
SPECIFICATION HostSpec
SYMMETRY MCSymmetry
INVARIANT StateDiskKept
