CONSTANTS
  t1 = t1
  t2 = t2
  h1 = h1
  h2 = h2
  h3 = h3
  None = None
  Thread = {t1, t2}
  Handler = {h1, h2, h3}
  After = {h3}
  Detailed = {h2}
  Kinds <- MCKinds
  MaxId = 3
  MaxBlock = 1
SPECIFICATION Spec
INVARIANTS
  RefsExact
  ListExact
  RoundIsComplete
  
PROPERTIES
  AskedIsGiven
CHECK_DEADLOCK FALSE
