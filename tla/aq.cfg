SPECIFICATION EndlessSpec
CONSTANTS
  Threads = {t1, t2}
  Values = {v1, v2}
  NULL = NULL
  Capacity = 2
  MaxLap = 2
INVARIANTS SlotExclusive TailWithinLap
PROPERTIES SizeIsSnapshot RefusalIsTrue ImplementsBoundedQueue CallsReturn
