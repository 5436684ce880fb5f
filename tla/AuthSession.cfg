\* Two handlers at a time, two nonces, one wallet, three sessions.
CONSTANTS
  Nonce = {n1, n2}
  Session = {s1, s2, s3}
  Wallet = {w1}
  Request = {r1, r2}
  None = None
  NonceTTL = 0
  RefreshTTL = 1
  AccessTTL = 0
  Leeway = 0
  MaxTime = 2
SPECIFICATION Spec
SYMMETRY Symmetry
CHECK_DEADLOCK FALSE
INVARIANTS
  TypeOK
  NonceSingleUse
  OneLivePerChain
  RevokedChainEnds
  TokensPaidFor
  ActiveSessionHasWallet
PROPERTIES
  DormantForever
  ChainsSpec
