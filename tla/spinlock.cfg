SPECIFICATION FairSpec
CONSTANTS
  Threads = {t1, t2, t3}
  NoThread = none
  MaxDepth = 2
INVARIANTS AssertionsHold
PROPERTIES ImplementsLock NobodyLockedOut
