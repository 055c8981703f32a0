CONSTANTS
  w1 = w1
  w2 = w2
  j1 = j1
  j2 = j2
  p1 = p1
  f1 = f1
  x1 = x1
  Windows = {w1, w2}
  Second = {w2}
  Jobs = {j1, j2}
  Waits = {p1}
  Fetches = {f1}
  Xhrs = {x1}
  Teardown = Teardown
  Idle = Idle
  NoXhr = NoXhr
  MaxIterations = 1
  Timed = {j1}
  Worlds = {"timers", "requests", "xhr", "strangers"}
SPECIFICATION Spec
INVARIANTS TypeOK IdleExact TasksBacked ClosedIsQuiet ListenersReleased
PROPERTIES DroppedNeverRuns WaitersReleased SendsComplete
CHECK_DEADLOCK FALSE
