SPECIFICATION FairSpec
CONSTANTS
  Pools = {p1}
  NumThreads = 2
  Callers = {c1, c2}
  Waiters = {c1}
  Jobs = {j1, j2}
  Calls = {"add_work", "wait", "pause", "drop"}
  QueueCapacity = 1
  MaxSem = 4
  MaxOthers = 2
  NONE = NONE
CHECK_DEADLOCK FALSE
INVARIANTS JobsAccounted FreedFindsWorkersGone
PROPERTIES WaitMeansFinished JobsAreRun WaitsReturn NewAndDropReturn
