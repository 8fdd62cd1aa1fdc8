\* One process and two threads on a file that is edited from outside.
CONSTANTS
  Nobody = Nobody
  p1 = p1
  p2 = p2
  t1 = t1
  t2 = t2
  t3 = t3
  Procs = {p1}
  Threads = {t1, t2}
  Home <- OneProcess
  KeyModes = {TRUE}
  MaxCalls = 4
  MaxStarts = 1
  MaxDamage = 2
SPECIFICATION Spec
INVARIANTS
  DamageStopsCalls
  ReadsFaithful
PROPERTIES
  NoFalseAlarm
CHECK_DEADLOCK FALSE
