CONSTANTS
  p1 = p1
  p2 = p2
  p3 = p3
  b1 = b1
  i1 = i1
  i2 = i2
  i3 = i3
  i4 = i4
  NoProc = NoProc
  NoInode = NoInode
  Procs <- MCProcs
  Inodes <- MCInodes
  BlankPath <- MCBlankPath
SPECIFICATION Spec
SYMMETRY MCSymmetry
INVARIANTS
  TypeOK
  ExclusionUnlessOverlap
  NoStaleLock
  RecordNotForeign
