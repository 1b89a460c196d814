SPECIFICATION Spec
CONSTANTS
  r1 = r1
  r2 = r2
  r3 = r3
  eth = eth
  s1 = s1
  s2 = s2
  s3 = s3
  btc = btc
  None = None
  Lot = 2
  FeeNum = 1
  FeeDen = 4
  Requests = {r1, r2, r3}
  Signals <- MCSignals
  Assets = {btc, eth}
  AssetOf <- MCAssetOf
  Prices <- MCPrices
  Sizes = {3}
  InitialCash = 10
INVARIANTS
  OneOrderPerSignal
  OneOpenPositionPerAsset
  NoStaleWrite
  FillsMatchOrders
  SharesConserved
  CashReconciles
PROPERTIES
  HistoryIsFinal
SYMMETRY Symmetry
CHECK_DEADLOCK FALSE
