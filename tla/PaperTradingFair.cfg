SPECIFICATION FairSpec
CONSTANTS
  r1 = r1
  r2 = r2
  r3 = r3
  eth = eth
  s1 = s1
  s2 = s2
  s3 = s3
  btc = btc
  None = None
  Lot = 2
  FeeNum = 1
  FeeDen = 4
  Requests = {r1, r2, r3}
  Signals = {s1, s2}
  Assets = {btc}
  AssetOf <- OnBtc
  Prices = {2}
  Sizes = {1}
  InitialCash = 2
PROPERTY
  ImplementsLedger
  EveryRequestAnswered
CHECK_DEADLOCK FALSE
