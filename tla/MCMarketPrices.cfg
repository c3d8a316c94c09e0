SPECIFICATION HistorySpec
CONSTANTS
  Assets = {1, 2, 3, 4}
  UsAssets = {4}
  TradingDays <- Calendar
  BuyDays <- FirstDay
  None = None
  Jobs = {j1}
  DailyLookback = 1
  RefreshLookback = 2
  MaxAssetsPerRun = 2
  LastDay = 5
  MaxFaults = 2
INVARIANTS
  RefreshStatusTruthful
  BackfillGetsThrough
CONSTRAINT Bounded
ACTION_CONSTRAINT TradesSettle
CHECK_DEADLOCK FALSE
