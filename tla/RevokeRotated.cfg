\* One client: its session is rotated, then the admin revokes the old row.
CONSTANTS
  Nonce = {n1}
  Session = {s1, s2}
  Wallet = {w1}
  Request = {r1}
  None = None
  NonceTTL = 1
  RefreshTTL = 2
  AccessTTL = 1
  Leeway = 0
  MaxTime = 2
SPECIFICATION Spec
CHECK_DEADLOCK FALSE
INVARIANTS
  RevokeReachesRotated
