\* Two users, two addresses on two chains, two requests at a time.
CONSTANTS
  u1 = u1
  u2 = u2
  w1 = w1
  w2 = w2
  r1 = r1
  r2 = r2
  a1 = a1
  a2 = a2
  c1 = c1
  c2 = c2
  User = {u1, u2}
  Wallet = {w1, w2}
  Address = {a1, a2}
  Chain = {c1, c2}
  Request = {r1, r2}
  None = None
  Gone = Gone
SPECIFICATION Spec
SYMMETRY Symmetry
INVARIANTS
  TypeOK
PROPERTIES
  PrimaryOwnedWhenSet
  VettedIsSole
  AddressBookSpec
CHECK_DEADLOCK FALSE
