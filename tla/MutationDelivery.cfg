SPECIFICATION Spec
CONSTANTS
  e1 = e1
  e2 = e2
  e3 = e3
  f1 = f1
  Null = Null
  Node = {e1, e2}
  Fragment = {}
  Observer = {"o", "p"}
  Options <- MCEverything
  MaxKeys = 2
  MaxQueued = 1
INVARIANTS TypeOK ScheduledOnce
PROPERTY ScheduledIsDrained
CHECK_DEADLOCK FALSE
