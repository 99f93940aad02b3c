SPECIFICATION Spec
CONSTANTS
  NULL = NULL
  p1 = p1
  p2 = p2
  f1 = f1
  First = p1
  Files <- OneFile
  Values = {0}
  LOW = 1
  PAGE_SIZE = 2
  START_BRK = 3
  InitDisk <- MCDisk
  Procs <- TwoProcs
  NumObjs = 6
  PageNums = {0, 1, 2}
  HIGH = 4
  BrkAddrs = {2, 3, 5}
  Requests <- SharedRequests
  Unmaps <- SharedUnmaps
  UnmapsHeap = FALSE
  Splits = FALSE
  Buffers = {3}
  Touched = {2, 3}
INVARIANTS
  HeapEndsAtBreak
  
  
CHECK_DEADLOCK FALSE
