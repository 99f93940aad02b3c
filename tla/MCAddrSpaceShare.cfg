SPECIFICATION MappedSpec
CONSTANTS
  NULL = NULL
  p1 = p1
  p2 = p2
  f1 = f1
  First = p1
  Files <- OneFile
  Values = {0, 1}
  LOW = 1
  PAGE_SIZE = 2
  START_BRK = 3
  InitDisk <- MCDisk
  Procs <- TwoProcs
  NumObjs = 7
  PageNums = {0, 1, 2}
  HIGH = 3
  BrkAddrs = {}
  Requests <- FileRequests
  Unmaps <- NoUnmaps
  UnmapsHeap = FALSE
  Splits = FALSE
  Buffers = {2}
  Touched = {2}
INVARIANTS
  
  RefcountsExact
  NoStoreLost
PROPERTIES
  ImplementsMemAbs
CHECK_DEADLOCK FALSE
