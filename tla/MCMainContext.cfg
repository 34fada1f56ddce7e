SPECIFICATION FairSpec
CONSTANTS
  Thread = {t1, t2, t3}
  Loop = {l1, l2}
  Source = {s1}
  None = None
  MaxDepth = 2
INVARIANTS
  ContextExact
PROPERTIES
  FreeContextIsTaken
  QuitStops
