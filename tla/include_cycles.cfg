SPECIFICATION FairSpec
CONSTANTS
  Files <- FiveFiles
  Projects <- Cyclic3
  MaxDepth = 6
  NULL = NULL
INVARIANTS
  CyclesAreBroken
CHECK_DEADLOCK FALSE
