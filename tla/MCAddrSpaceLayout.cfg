SPECIFICATION Spec
CONSTANTS
  NULL = NULL
  p1 = p1
  p2 = p2
  f1 = f1
  First = p1
  Files <- OneFile
  Values = {0}
  LOW = 1
  PAGE_SIZE = 2
  START_BRK = 3
  InitDisk <- MCDisk
  Procs <- OneProc
  NumObjs = 7
  PageNums = {0, 1, 2, 3, 4, 5, 6}
  HIGH = 6
  BrkAddrs = {3, 5}
  Requests <- LayoutRequests
  Unmaps <- AllUnmaps
  UnmapsHeap = FALSE
  Splits = TRUE
  Buffers = {}
  Touched = {}
INVARIANTS
  MapsInOrder
  RefcountsExact
CHECK_DEADLOCK FALSE
