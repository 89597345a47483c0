SPECIFICATION Spec
CONSTANTS
  t1 = t1
  t2 = t2
  t3 = t3
  ann = ann
  bob = bob
  User = {ann, bob}
  Token = {t1, t2, t3}
  Owner <- Sessions
  Body = {b1, b2}
  Kind = {"note", "completion", "friend", "delivery", "name", "share"}
  Usable <- UsableBy
  Slot = {s1, s2}
  None = None
SYMMETRY Slots
INVARIANT CacheIsOwn
INVARIANT NeverCrossed
INVARIANT SettledShows
CHECK_DEADLOCK FALSE
