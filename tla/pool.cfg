SPECIFICATION Spec
CONSTANTS
  Threads = {t1, t2, t3}
  NoThread = none
  MaxThreadsInPool = 2
  MaxCaches = 1
  Spaces = {m1, m2, m3}
  NoSpace = null
SYMMETRY Symmetry
INVARIANTS SpacesAccounted ThreadValueHolds InUseLocked NobodyStuck
CHECK_DEADLOCK FALSE
