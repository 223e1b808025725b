CONSTANTS
  MaxSize = 1
  MaxWrites = 1
SPECIFICATION Spec
CHECK_DEADLOCK FALSE
INVARIANTS
  ClosedIsSafe
