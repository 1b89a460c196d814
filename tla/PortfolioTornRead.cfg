SPECIFICATION PeakSpec
CONSTANTS
  s1 = s1
  s2 = s2
  btc = btc
  eth = eth
  p1 = p1
  None = None
  Lot = 2
  FeeNum = 1
  FeeDen = 4
  Signals <- MCSignals
  Assets <- MCAssets
  AssetOf <- MCAssetOf
  Prices = {2}
  Sizes = {3}
  InitialCash = 12
  Readers = {p1}
  MaxDays = 0
INVARIANT
  PeakWasReached
