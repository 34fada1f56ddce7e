CONSTANTS
  t1 = t1
  t2 = t2
  l1 = l1
  l2 = l2
  b1 = b1
  b2 = b2
  x1 = x1
  x2 = x2
  None = None
  Thread = {t1, t2}
  Loc = {l1, l2}
  Block = {b1, b2}
  Data = {x1, x2}
  MaxWeak = 2
  MaxMet = 2
SPECIFICATION Spec
SYMMETRY MCSymmetry
INVARIANTS
  FlagExact
  QueueKept
  PointersKnown
CHECK_DEADLOCK FALSE
