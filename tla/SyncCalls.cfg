\* The indexer alone, two wallets of two chains that wait for one permit.
CONSTANTS
  w1 = w1
  w2 = w2
  eth = eth
  bsc = bsc
  Wallet = {w1, w2}
  Chain = {eth, bsc}
  ChainOf <- Apart
  Listening = {}
  TokenChain = {eth}
  Indexer = indexer
  None = None
  MaxConcurrency = 1
  MaxRetries = 2
  Interval = 1
  DayLength = 1
  Lookback = 1
  MaxTime = 0
  MaxHeight = 0
SPECIFICATION Spec
INVARIANTS
  PermitsAccounted
PROPERTIES
  CallsReturn
CHECK_DEADLOCK FALSE
