SPECIFICATION FairSpec
CONSTANTS
  Workers = {w1, w2}
  MaxPackets = 2
  MaxReports = 2
  MaxFlushes = 1
  MaxErrors = 1
INVARIANTS
  RetryOnItsWay
  LostBehindGapOnly
PROPERTIES
  Flushed
