\* A maintainer who finalizes and verifies while the graph is edited and the corpora are migrated.
CONSTANTS
  j1 = j1
  Jobs = {j1}
  Absent = Absent
  Half = Half
  MaxEdits = 2
  ClosureOf <- Moved
  TooDeep = {2}
  Conforming = {0, 1}
SPECIFICATION Spec
INVARIANTS
  PublishedWhole
  PublishedWasOnDisk
  VerifiedReproducible
  SignedNotAhead
