SPECIFICATION FairSpec
CONSTANTS
  Threads = {t1, t2}
  MaxId = 4
  NShards = 1
  Heights = {6}
  NONE = NONE
INVARIANTS InOnePlace ExitGoesToMain
PROPERTIES ImplementsScheduler YieldersRun MainGetsToRun
