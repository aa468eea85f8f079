SPECIFICATION FairSpec
CONSTANTS
  Pools = {p1}
  NumThreads = 2
  Callers = {c1, c2}
  Waiters = {c1, c2}
  Jobs = {j1}
  Calls = {"add_work", "wait"}
  QueueCapacity = 2
  MaxSem = 4
  MaxOthers = 0
  NONE = NONE
CHECK_DEADLOCK FALSE
PROPERTY WaitsReturn
