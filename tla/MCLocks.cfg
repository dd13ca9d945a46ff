SPECIFICATION BothSpec
CONSTANTS
  Procs = {p1, p2, p3}
  Sched = sched
  Sleepers = {s1, s2}
SYMMETRY Sym
INVARIANTS
  HeldMeansOff
  FlagRestored
  SleepExact
