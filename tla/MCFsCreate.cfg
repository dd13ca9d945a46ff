SPECIFICATION CreateSpec
CONSTANTS
  Procs = {p1, p2, p3}
  Named = {f1, f2}
  Root = Root
  None = None
INVARIANTS
  TwoInumsDistinct
CHECK_DEADLOCK FALSE
