CONSTANTS
  idle = idle
  p1 = p1
  p2 = p2
  p3 = p3
  p4 = p4
  TtyQ = TtyQ
  RunQ = RunQ
  NULL = NULL
  Threads <- FourProcs
  WaitQueues <- QueuesOfFour
  Idle = idle
  Statuses = {0}
  PROC_MAX_COUNT = 5
SPECIFICATION FairSpec
INVARIANTS
  PidsUnique
  
  WaitTargetStays
  NoPanic
PROPERTY
  KillAllHalts
