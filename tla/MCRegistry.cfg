SPECIFICATION Spec
CONSTANTS
  None = None
  Callers = {c1, c2}
  Closers = {d}
  Forcers = {w}
  Keys = {k1, k2, k3}
  Managers = {m1, m2, m3, m4}
  MaxConnections = 2
  MaxRequests = 5
SYMMETRY Symmetry
INVARIANT SlotsBounded
INVARIANT SlotsDistinct
INVARIANT EvictedSessionsClosed
PROPERTY EvictsLeastRecentlyUsed
