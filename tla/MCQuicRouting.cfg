SPECIFICATION Spec
CONSTANTS
  N = 3
  Byte = 4
  Names = {n1}
  Hash <- MCHash
  MaxReceived = 3
INVARIANTS
  IssuedLeadsHome
  OneEngineInOrder
CHECK_DEADLOCK FALSE
