SPECIFICATION FairSpec
CONSTANTS
  NPROC = 3
  MaxPid = 3
  NullReads <- TextWords
  KillPids <- NotInit
  InitCalls <- ForkAndWait
  UserCalls <- Calls
PROPERTIES
  RunnableRuns
  OrphanReaped
