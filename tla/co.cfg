SPECIFICATION CFairSpec
CONSTANTS
  Threads = {t1, t2}
  Cos = {c1, c2}
  WithDefer = {c1, c2}
  NULL = NULL
INVARIANTS StackOutlivesUse ClientIsCurrent RegistersSurvive
PROPERTIES DefersRun
CHECK_DEADLOCK FALSE
