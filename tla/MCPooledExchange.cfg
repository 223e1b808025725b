\* Two relays, three requests, one idle connection per endpoint
SPECIFICATION ExchangeSpec
CONSTANTS
  Callers = {r1, r2}
  Conns = {c1, c2, c3}
  NoConn = NoConn
  Groups = {"a"}
  Addrs = {"x", "y"}
  Backends <- MCBackends
  Targets = {}
  kMaxIdle = 1
  MaxPicks = 3
SYMMETRY MCSymmetry
INVARIANTS
  SentWherePicked
  HeldForExchange
  OwnResponseUnlessLeft
  ServedOnce
CHECK_DEADLOCK FALSE
