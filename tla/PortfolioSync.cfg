\* One wallet, synced by the indexer and by the websocket of its chain.
CONSTANTS
  w1 = w1
  w2 = w2
  eth = eth
  bsc = bsc
  Wallet = {w1}
  Chain = {eth}
  ChainOf <- One
  Listening = {eth}
  TokenChain = {eth}
  Indexer = indexer
  None = None
  MaxConcurrency = 1
  MaxRetries = 2
  Interval = 2
  DayLength = 2
  Lookback = 1
  MaxTime = 2
  MaxHeight = 1
SPECIFICATION Spec
INVARIANTS
  TypeOK
  SpacedUnlessRaced
  DailyFromSnapshot
  OkMeansSnapshot
CHECK_DEADLOCK FALSE
