CONSTANTS
  e1 = e1
  e2 = e2
  e3 = e3
  x1 = x1
  x2 = x2
  f1 = f1
  Null = Null
  Node <- MCNode
  Kind <- MCKind
SPECIFICATION Spec
SYMMETRY Symmetry
VIEW View
INVARIANTS
  TypeOK
  RelationsMirror
  Acyclic
  KindsRespected
  WalkExact
  CallsExact
PROPERTY ListSemantics
