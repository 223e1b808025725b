SPECIFICATION ClientSpec
CONSTANTS
  MaxPackets = 3
  MaxErrors = 1
  MaxConnects = 3
  MaxReceived = 2
INVARIANTS
  EverySocketReceives
  HeldIsWatched
