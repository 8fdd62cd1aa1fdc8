\* Two processes on one file, each start with or without the configured key.
CONSTANTS
  Nobody = Nobody
  p1 = p1
  p2 = p2
  t1 = t1
  t2 = t2
  t3 = t3
  Procs = {p1, p2}
  Threads = {t1, t2}
  Home <- TwoProcesses
  KeyModes = {TRUE, FALSE}
  MaxCalls = 3
  MaxStarts = 3
  MaxDamage = 0
SPECIFICATION Spec
INVARIANTS
  ChainVerifies
  AckedDurable
PROPERTIES
  KeyNeverTakesOver
  ImplementsLog
CHECK_DEADLOCK FALSE
