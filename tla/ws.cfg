SPECIFICATION Spec
CONSTANTS
  Owner = owner
  Thieves = {t1, t2}
  Items = {x1, x2, x3}
  NULL = NULL
  InitialCapacity = 1
  GarbageCapacity = 1
SYMMETRY Symmetry
INVARIANTS WindowFits StaleArraysServe
PROPERTY ImplementsWorkStealingDeque
