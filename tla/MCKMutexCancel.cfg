CONSTANTS
  t1 = t1
  t2 = t2
  t3 = t3
  t4 = t4
  m1 = m1
  m2 = m2
  RunQ = RunQ
  NULL = NULL
  Threads <- ThreeThreads
  WaitQueues <- TwoMutexes
  Cancellable = TRUE
SPECIFICATION Spec
INVARIANTS
  MutualExclusion
  HolderExplained
\* Threads that lock two mutexes in opposite orders do deadlock, and a failed
\* KASSERT stops the kernel.
CHECK_DEADLOCK FALSE
