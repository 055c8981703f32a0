CONSTANTS
  A = A

  Blank = Blank
  B = B
  M = M
  p1 = p1
  p2 = p2
  c0 = c0
  c1 = c1
  n1 = n1
  n2 = n2
  n3 = n3
  k1 = k1
  None = None
  Docs = {Blank, A, B, M}
  Unsupported = {M}
  Hashes = {0, 1}
  OriginOf <- MCOriginOf
  Pages = {p1, p2}
  Contexts = {c0, c1}
  DefaultContext = c0
  Navs = {n1, n2}
  MaxWindows = 4
  MaxHistory = 3
  Waiters = {k1}
  Worlds = {"history", "races", "lifecycle", "detached"}
SPECIFICATION Spec
INVARIANTS PendingExact LoadedByOwn ObserversExact DetachedLocation
SYMMETRY Symmetry
CHECK_DEADLOCK FALSE
