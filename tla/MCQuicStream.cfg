CONSTANTS
  MaxSize = 3
  MaxWrites = 2
SPECIFICATION Spec
CHECK_DEADLOCK FALSE
INVARIANTS
  TypeOK
  WritesAccounted
  NoStalledOperation
  ClosedSettled
  AnsweredOnce
