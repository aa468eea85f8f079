SPECIFICATION FairSemSpec
CONSTANTS
  Threads = {t1, t2, t3, t4}
  MaxValue = 3
INVARIANTS NoLostWakeup
PROPERTY ImplementsCountingSemaphore
