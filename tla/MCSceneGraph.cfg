SPECIFICATION GraphSpec
CONSTANTS
  Node = {root, a, b}
  root = root
  a = a
  b = b
  Root = root
  Parents <- MCParents
  Mobile = {b}
  Later = {a}
  NoNode = NoNode
INVARIANTS
  ChildrenListed
PROPERTIES
  FrameIsRight
  HeardUnlessMoved
CHECK_DEADLOCK FALSE
