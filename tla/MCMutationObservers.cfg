SPECIFICATION Spec
CONSTANTS
  e1 = e1
  e2 = e2
  e3 = e3
  f1 = f1
  Null = Null
  Node = {e1, e2, e3, f1}
  Fragment = {f1}
  Observer = {"o"}
  Options <- MCOptions
  MaxKeys = 1
  MaxQueued = 1
SYMMETRY Symmetry
INVARIANTS RecordsTellChildren SiblingsWereThere
PROPERTY SubtreeChangesHeard
CHECK_DEADLOCK FALSE
