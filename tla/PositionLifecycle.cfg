SPECIFICATION Spec
CONSTANTS
  Lot = 2
  FeeNum = 1
  FeeDen = 8
  Prices <- MCPrices
  Quantities <- MCQuantities
  MaxFills = 5
INVARIANTS
  AvgWithinPricesPaid
  PnlReconcilesWithFlow
CHECK_DEADLOCK FALSE
