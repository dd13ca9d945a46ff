SPECIFICATION TableSpec
CONSTANTS
  a = a
  b = b
  c = c
  x = x
  y = y
  Procs = {p1, p2}
  First = p1
  NFILE = 2
  NOFILE = 2
  Inodes <- TwoInodes
  Openers = {p1, p2}
  Pipers = {}
  Readers = {}
  Statters = {}
  MaxIref = 4
  MaxRead = 0
INVARIANTS
  RefCount
CHECK_DEADLOCK FALSE
