SPECIFICATION Spec
CONSTANTS
  Procs = {p1, p2, p3}
  Blocks = {k1, k2, k3}
  Bufs = {b1, b2}
  NoBlock = NoBlock
  MaxVersion = 1
  MaxReboots = 1
  Devices = {"ide", "failing", "memory"}
SYMMETRY Sym
INVARIANTS
  Durable
  Coherent
CHECK_DEADLOCK FALSE
