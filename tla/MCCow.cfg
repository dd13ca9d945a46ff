SPECIFICATION Spec
CONSTANTS
  Frames = {f1, f2, f3, f4, f5, f6}
  Procs = {p1, p2, p3}
  First = p1
  NREGIONS = 2
  Heap = 2
  Values <- Bytes
  Null = Null
SYMMETRY FrameSymmetry
INVARIANTS
  RefCovers
  NoLeak
  WritableIsPrivate
PROPERTIES
  PrivateSpec
CHECK_DEADLOCK FALSE
