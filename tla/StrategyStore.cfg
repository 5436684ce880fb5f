\* Two users, one strategy, three requests.
CONSTANTS
  u1 = u1
  u2 = u2
  r1 = r1
  r2 = r2
  r3 = r3
  User = {u1, u2}
  Strategy = {s1}
  Request = {r1, r2, r3}
  None = None
  Gone = Gone
  Window = 2
  Hour = 2
  Limit = 1
  MaxTime = 1
SPECIFICATION Spec
SYMMETRY Symmetry
INVARIANTS
  TypeOK
  NoOrphanBacktests
  AnsweredIsStored
PROPERTIES
  PricesNeverRefuse
  ListsNewest
CHECK_DEADLOCK FALSE
