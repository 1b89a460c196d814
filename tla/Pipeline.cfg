SPECIFICATION PipelineSpec
CONSTANTS
  s1 = s1
  s2 = s2
  s3 = s3
  btc = btc
  eth = eth
  sol = sol
  None = None
  Lot = 2
  FeeNum = 1
  FeeDen = 4
  Whole = 10
  InitialCash = 20
  Sizes = {}
  Policy <- MCPolicy
  Signals <- MCSignals
  Assets <- MCAssets
  AssetOf <- MCAssetOf
  Prices = {2, 5}
  MaxInFlight = 2
INVARIANTS
  OverrunBounded
PROPERTY
  ReviewedTradeKeepsLimits
