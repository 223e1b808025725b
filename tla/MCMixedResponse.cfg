\* The response a relay passes on, two relays and three requests
SPECIFICATION ExchangeSpec
CONSTANTS
  Callers = {r1, r2}
  Conns = {c1, c2, c3}
  NoConn = NoConn
  Groups = {"a"}
  Addrs = {"x", "y"}
  Backends <- MCBackends
  Targets = {}
  kMaxIdle = 1
  MaxPicks = 3
SYMMETRY MCSymmetry
INVARIANT OwnResponse
CHECK_DEADLOCK FALSE
