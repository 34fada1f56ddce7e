SPECIFICATION OnceFairSpec
CHECK_DEADLOCK FALSE
CONSTANTS
  Thread = {t1, t2, t3}
  Location = {a, b, c}
  a = a
  b = b
  c = c
  None = None
  Needs <- MCNeeds
INVARIANTS
  InitOnce
PROPERTIES
  FalseMeansValue
  EnterReturns
