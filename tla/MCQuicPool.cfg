SPECIFICATION FairSpec
CONSTANTS
  Callers = {k1, k2}
  NoCaller = NoCaller
  Sessions = {s1, s2, s3}
  NoSession = NoSession
  Keys = {y1, y2}
  NullOutcomes <- MCAnyOutcome
INVARIANTS
  PooledUsable
  CallbackKept
  NoneLost
PROPERTIES
  AnsweredUnlessLost
CHECK_DEADLOCK FALSE
