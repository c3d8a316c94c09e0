SPECIFICATION HistorySpec
CONSTANTS
  a1 = a1  a2 = a2  u1 = u1  x1 = x1  y1 = y1  y2 = y2
  Accounts = {a1}
  Owner <- SameOwner
  Assets = {x1}
  NoAsset = NoAsset
  TwAssets = {x1}
  TxIds = {1, 2}
  NoTx = NoTx
  Inputs <- TradesAroundSplit
  Syncs = {y1, y2}
  SplitNews <- TwoSplits
  MaxFailures = 1
  MaxEdits = 2
INVARIANTS
  AppliedSplitsAreInTheBook
  LiveEntriesCurrent
PROPERTY
  EventuallyReconciled
CHECK_DEADLOCK FALSE
