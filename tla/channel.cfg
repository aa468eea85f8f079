SPECIFICATION Spec
CONSTANTS
  Senders = {s1, s2}
  Receivers = {r1, r2}
  Nodes = {n1, n2, n3}
  Values = {v1, v2}
  NULL = NULL
  Capacities = {1}
  MallocFails = TRUE
SYMMETRY Symmetry
INVARIANTS HeldIsLive ListWellFormed DisconnectedIsFinal NothingLeaks
PROPERTY ImplementsAbstractChannel
