SPECIFICATION Spec
CONSTANTS
  a1 = a1  a2 = a2  u1 = u1  x1 = x1  x2 = x2
  Accounts = {a1, a2}
  Owner <- SameOwner
  Assets = {x1, x2}
  NoAsset = NoAsset
  TwAssets = {x1}
  TxIds = {1, 2, 3}
  NoTx = NoTx
  Inputs <- TheInputs
  StoredPrices <- ThePrices
  TicksPerDay = 2
  Class <- ClassOf
  AssetRate <- OneRate
  AccountRate <- TwoRates
INVARIANTS
  TrendAgreesWithHoldings
  DashboardFitsTheBook
  RebalanceReachesTarget
  OpenPositionIsShown
  JournalInv
  InvestmentBucketMatchesOpenLots
CHECK_DEADLOCK FALSE
