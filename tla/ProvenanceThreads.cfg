\* Two worker threads of one process and a second process: they wait for the lock of their
\* process and for the write lock of the file.  Configured key, crashes and
\* a restart.
CONSTANTS
  Nobody = Nobody
  p1 = p1
  p2 = p2
  t1 = t1
  t2 = t2
  t3 = t3
  Procs = {p1, p2}
  Threads = {t1, t2, t3}
  Home <- SharedAndAlone
  KeyModes = {TRUE}
  MaxCalls = 3
  MaxStarts = 2
  MaxDamage = 0
SPECIFICATION Spec
INVARIANTS
  TypeOK
  FailedLeavesNothing
PROPERTIES
  CallsReturn
CHECK_DEADLOCK FALSE
