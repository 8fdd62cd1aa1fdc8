\* One request while three files are rewritten twice, in the orders of the code.
CONSTANTS
  partners = partners
  orders = orders
  postings = postings
  day = day
  eve = eve
  morrow = morrow
  r1 = r1
  r2 = r2
  Requests = {r1}
  ReadOrder <- ReadThree
  WriteOrder <- WriteThree
  Absent = Absent
  Empty = Empty
  NoData = NoData
  Refusals = {"discover", "compile", "none"}
  Dates = {day, eve}
  SoundDates = {day, eve}
  MaxRewrites = 2
SPECIFICATION Spec
INVARIANTS
  TypeOK
  RowsFromSoundBytes
  SnapshotWasOnDisk
PROPERTIES
  RequestsEnd
CHECK_DEADLOCK FALSE
