SPECIFICATION Spec
CONSTANTS
  Callers = {k1, k2}
  Conns = {c1, c2, c3, c4}
  NoConn = NoConn
  Groups = {"a", "b", "none"}
  Addrs = {"x", "y", "z"}
  Backends <- MCBackends
  Targets <- MCTargets
  kMaxIdle = 1
  MaxPicks = 4
SYMMETRY MCSymmetry
INVARIANTS
  OneOwner
  QueuedWhereItLeads
  EvenWhileAlone
CHECK_DEADLOCK FALSE
