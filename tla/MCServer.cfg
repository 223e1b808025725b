SPECIFICATION FairSpec
CONSTANTS
  NWorkers = 2
  Clients = {c1, c2}
  Quics = {q1}
  None = None
  Needed = 2
INVARIANTS
  OneHome
  EarlyOnesTold
  StillListening
PROPERTIES
  StopCompletes
CHECK_DEADLOCK FALSE
