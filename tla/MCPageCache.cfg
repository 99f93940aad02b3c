SPECIFICATION Spec
CONSTANTS
  t1 = t1
  t2 = t2
  t3 = t3
  root = root
  file = file
  NULL = NULL
  Threads <- ThreeThreads
  Inos <- TwoFiles
  Root = root
  Pages <- FilePages
  NumVnodes = 3
  NumFrames = 3
  IoFails = TRUE
  LateLookups = FALSE
SYMMETRY ThreadSymmetry
INVARIANTS
  
  HaltsClean
  NoDuplicates
  VnodeRefs
  PageWaitersHaveWaker
  
CHECK_DEADLOCK FALSE
