SPECIFICATION Spec
CONSTANTS
  p1 = p1
  p2 = p2
  NULL = NULL
  First = p1
  LongName = "long"
  Procs <- TwoProcs
  NumVnodes = 2
  NFILES = 2
  NumFiles = 2
  MaxPos = 2
  Paths <- FilePaths
  OpenFlags <- FileFlags
  Ops <- FileOps
  LinkDirs = FALSE
  SeekDuringIO = FALSE
  Offsets <- SmallOffsets
SYMMETRY ProcSymmetry
CHECK_DEADLOCK FALSE
 
INVARIANT FileRefsExact
