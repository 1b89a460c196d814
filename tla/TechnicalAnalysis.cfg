SPECIFICATION AnalysisSpec
CONSTANTS
  Candles <- MCCandles
  MaxBars = 7
  Unit = 576
  Fast = 1
  Slow = 3
  SignalPeriod = 3
  SmoothD = 2
  Period = 2
  Undefined = Undefined
INVARIANTS
  WarmUpIsExact
PROPERTIES
  NoLookAhead
  WindowedForgets
CHECK_DEADLOCK FALSE
