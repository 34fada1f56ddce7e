SPECIFICATION FairSpec
CONSTANTS
  p1 = p1
  p2 = p2
  Pool = {p1, p2}
  Thread = {t1, t2}
  Task = {d1, d2}
  Marker = Marker
  None = None
  Exclusive = {p2}
  MaxThreads <- MCMaxThreads
  MaxUnused = 2
INVARIANTS
  CountsHold
  FreedLast
PROPERTIES
  TasksDone
  DeletedIsFreed
CHECK_DEADLOCK FALSE
