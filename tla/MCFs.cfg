SPECIFICATION Spec
CONSTANTS
  Procs = {p1, p2, p3}
  Named = {f1, f2}
  Root = Root
  None = None
SYMMETRY Sym
INVARIANTS
  LockedIsLoaded
  EntriesWritten
  ReadsBack
  ImageSound
PROPERTIES
  GrowthKept
CHECK_DEADLOCK FALSE
