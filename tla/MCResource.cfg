SPECIFICATION Spec
CONSTANTS
  Thread = {t1, t2}
  pass1 = pass1
  pass2 = pass2
  shared = shared
  own = own
  media = media
  Resource = {pass1, pass2, shared, own}
  Group = {media}
  Uses <- MCUses
  Scripted <- MCScripted
  Order <- MCOrder
  Direct = {own}
  Movable = {own}
  None = None
INVARIANTS
  ClaimedInOrder
  GroupIsWhole
