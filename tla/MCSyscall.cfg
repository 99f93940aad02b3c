SPECIFICATION Spec
CONSTANTS
  PAGE_SIZE = 4
  Prot <- SmallProt
  ReadBuffers <- BackBuffers
  WriteBuffers <- FrontBuffers
INVARIANTS
  
  NothingLeftBehind
  MinusOneMeansFailed
  
CHECK_DEADLOCK FALSE
