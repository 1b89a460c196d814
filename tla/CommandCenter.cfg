SPECIFICATION CommandCenterSpec
CONSTANTS
  s1 = s1
  s2 = s2
  btc = btc
  p1 = p1
  None = None
  Lot = 2
  FeeNum = 1
  FeeDen = 2
  Signals <- MCSignals
  Assets = {btc}
  AssetOf <- MCAssetOf
  Prices = {2, 5}
  Sizes = {3}
  InitialCash = 14
  Readers = {p1}
  MaxDays = 1
  ActivityLimit = 2
INVARIANTS
  LossesAreCounted
  ReportReconciles
  FeedExplainsTheMoney
  FeedExplainsTheCards
