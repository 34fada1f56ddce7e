CONSTANTS
  t1 = t1
  t2 = t2
  t3 = t3
  s1 = s1
  s2 = s2
  s3 = s3
  s4 = s4
  None = None
  Thread = {t1, t2, t3}
  String = {s1, s2, s3, s4}
  QUARK_BLOCK_SIZE = 2
SPECIFICATION Spec
INVARIANT QuarksExact
PROPERTY Implements
SYMMETRY MCSymmetry
