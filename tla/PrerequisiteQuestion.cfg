\* A chain of three prerequisites and a depth of two.
CONSTANTS
  Notes = {0, 1, 2, 3}
  Target = 0
  CycleNotes = {0, 1, 2, 3}
  MaxEdges = 3
  DepthLimits <- SomeLimits
  MAX_PREREQUISITE_DEPTH = 2
  RowLimit = 2
SPECIFICATION MCSpec
INVARIANTS
  QueryReportsDepth
CHECK_DEADLOCK FALSE
