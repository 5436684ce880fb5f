\* One account with a row on each of two chains, two handlers.
CONSTANTS
  Account = {a1}
  ChainId <- Chains
  Role = {admin, viewer}
  TTL <- PerChain
  Request = {r1, r2}
  None = None
  MaxTime = 2
  MaxSets = 3
SPECIFICATION Spec
SYMMETRY Symmetry
CHECK_DEADLOCK FALSE
INVARIANTS
  TypeOK
  RowsAgree
  RolesFromChain
  QuietRefreshSticks
