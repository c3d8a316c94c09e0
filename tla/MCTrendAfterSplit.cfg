SPECIFICATION SyncSpec
CONSTANTS
  a1 = a1  u1 = u1  x1 = x1  y1 = y1
  Accounts = {a1}
  Owner <- TheOwner
  Assets = {x1}
  NoAsset = NoAsset
  TwAssets = {x1}
  TxIds = {1, 2}
  NoTx = NoTx
  Inputs <- TheTrades
  Syncs = {y1}
  SplitNews <- TheSplit
  MaxFailures = 0
  MaxEdits = 3
  StoredPrices = {}
  TicksPerDay = 2
  Class <- ClassOf
  AssetRate <- OneAssetRate
  AccountRate <- OneAccountRate
INVARIANT
  TrendCanBeBuilt
CHECK_DEADLOCK FALSE
