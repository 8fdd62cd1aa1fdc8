\* Two requests, one file, one rewriting.
CONSTANTS
  partners = partners
  orders = orders
  postings = postings
  day = day
  eve = eve
  morrow = morrow
  r1 = r1
  r2 = r2
  Requests = {r1, r2}
  ReadOrder <- OneFile
  WriteOrder <- OneFile
  Absent = Absent
  Empty = Empty
  NoData = NoData
  Refusals = {"resolve", "discover", "authorize_discovery", "plan", "authorize", "compile", "execute", "none"}
  Dates = {day, morrow}
  SoundDates = {day}
  MaxRewrites = 1
SPECIFICATION Spec
INVARIANTS
  AnswersEvidenced
  RefusedLeavesNothing
PROPERTIES
  UsesLog
CHECK_DEADLOCK FALSE
