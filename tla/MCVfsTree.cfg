SPECIFICATION Spec
CONSTANTS
  p1 = p1
  p2 = p2
  NULL = NULL
  First = p1
  LongName = "long"
  Procs <- OneProc
  NumVnodes = 4
  NFILES = 1
  NumFiles = 1
  MaxPos = 1
  Paths <- TreePaths
  OpenFlags <- TreeFlags
  Ops <- TreeOps
  LinkDirs = FALSE
  SeekDuringIO = FALSE
  Offsets <- SmallOffsets
CHECK_DEADLOCK FALSE
INVARIANT VnodeRefsExact
 
INVARIANT LookupExact
 
