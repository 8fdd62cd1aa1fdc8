\* Two processes on one intact file: the spurious integrity error of _verify_chain.
CONSTANTS
  Nobody = Nobody
  p1 = p1
  p2 = p2
  t1 = t1
  t2 = t2
  t3 = t3
  Procs = {p1, p2}
  Threads = {t1, t2}
  Home <- TwoProcesses
  KeyModes = {TRUE}
  MaxCalls = 2
  MaxStarts = 3
  MaxDamage = 0
SPECIFICATION Spec
PROPERTIES
  NoFalseAlarm
CHECK_DEADLOCK FALSE
