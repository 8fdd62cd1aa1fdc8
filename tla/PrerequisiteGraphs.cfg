\* Cyclic graphs over four notes, layered ones over five.
CONSTANTS
  Notes = {0, 1, 2, 3, 4}
  Target = 0
  CycleNotes = {0, 1, 2, 3}
  MaxEdges = 6
  DepthLimits <- SomeLimits
  MAX_PREREQUISITE_DEPTH = 2
  RowLimit = 2
SPECIFICATION MCSpec
INVARIANTS
  TypeOK
  SearchComplete
  CycleEdgesOnCycles
  EveryCycleHit
  EvidenceExact
  QueryAgrees
  MigrationAgrees
PROPERTIES
  Ends
CHECK_DEADLOCK FALSE
