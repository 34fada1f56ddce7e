CONSTANTS
  t1 = t1
  t2 = t2
  t3 = t3
  p1 = p1
  p2 = p2
  None = None
  Thread = {t1, t2, t3}
  Creator = t1
  Prop = {p1, p2}
  MaxHeld = 3
  MaxFreeze = 2
SPECIFICATION Spec
SYMMETRY MCSymmetry
INVARIANTS
  CountsExact
  NothingGone
  NotLost
CHECK_DEADLOCK FALSE
