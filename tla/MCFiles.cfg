SPECIFICATION FilesSpec
CONSTANTS
  a = a
  b = b
  c = c
  x = x
  y = y
  Procs = {p1, p2}
  First = p1
  NFILE = 2
  NOFILE = 3
  Inodes <- OneInode
  Openers = {p1}
  Pipers = {p1}
  Readers = {p1}
  Statters = {p1}
  MaxIref = 4
  MaxRead = 1
SYMMETRY Sym
INVARIANTS
  RefCount
  NoLostWakeup
PROPERTIES
  FifoSpec
  EofTruth
CHECK_DEADLOCK FALSE
