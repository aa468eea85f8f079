SPECIFICATION Spec
CONSTANTS
  Width = 8
  MaxCapacity = 32
  MaxLap = 70
INVARIANT WordsAgree
CHECK_DEADLOCK FALSE
