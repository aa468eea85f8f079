SPECIFICATION Spec
CONSTANTS
  Senders = {s1}
  Receivers = {r1}
  Nodes = {n1}
  Values = {v1}
  NULL = NULL
  Capacities = {1}
  MallocFails = FALSE
INVARIANT DestroyedOnceUnused
