SPECIFICATION MapSpec
CONSTANTS
  Heights = {9}
  MaxKey = 11
INVARIANTS HoldsKeys IsBalanced LookupsFind
