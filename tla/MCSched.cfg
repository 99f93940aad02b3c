CONSTANTS
  t1 = t1
  t2 = t2
  t3 = t3
  mutexq = mutexq
  deviceq = deviceq
  RunQ = RunQ
  NULL = NULL
  Threads <- MCThreads
  WaitQueues <- MCWaitQueues
  DeviceQ <- MCDeviceQ
  First = t1
  Timer = TRUE
SPECIFICATION FairSpec
INVARIANTS
  NoPanic
  
  SwitchTargetExists
  CancelledWakes
PROPERTIES
  
  ImplementsSchedAbs
