SPECIFICATION FairArcSpec
CONSTANTS
  Pointers = {p1, p2, p3, p4, p5}
  NoSource = NoSource
CHECK_DEADLOCK FALSE
INVARIANTS StrongKeepsObject NoUseAfterFree GoneIsReleased
PROPERTIES ExpiredForEver ExpiredIsDropped
