SPECIFICATION FairSpec
CONSTANTS
  Node = {n1, n2, n3}
  Value = {v1, v2}
  CountMod = 3
INVARIANTS
  AssertsHold
  NoUseAfterFree
  LenWithinOne
PROPERTIES
  Fifo
  PublishedIsTaken
CHECK_DEADLOCK FALSE
