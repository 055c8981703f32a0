SPECIFICATION Spec
CONSTANTS
  Node = {"doc", "a", "b", "c"}
  Null = Null
  Root = "doc"
  IdKey = {"#1"}
  ClassKey = {".p"}
  TagKey = {"x-el", "div"}
  AnyTag = "*"
  Tag <- MCTag
  Defined = "x-el"
  MaxFresh = 2
INVARIANTS TypeOK IndexExact SameElements FirstById
PROPERTIES MovesKeepOrder
CHECK_DEADLOCK FALSE
