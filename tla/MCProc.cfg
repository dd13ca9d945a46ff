SPECIFICATION Spec
CONSTANTS
  NPROC = 3
  MaxPid = 4
  NullReads <- TextWords
  KillPids <- AllPids
  InitCalls <- Calls
  UserCalls <- Calls
INVARIANTS
  ParentAlive
  NoLostWakeup
  WaiterHasChild
PROPERTIES
  FreedByOwner
