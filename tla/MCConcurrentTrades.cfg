SPECIFICATION JobSpec
CONSTANTS
  a1 = a1  u1 = u1  x1 = x1
  Accounts = {a1}
  Owner <- TheOwner
  Assets = {x1}
  NoAsset = NoAsset
  TwAssets = {x1}
  TxIds = {1, 2, 3}
  NoTx = NoTx
  NoJob = NoJob
  NoPosition = NoPosition
  Inputs <- TheTrades
INVARIANT
  BookFollowsTrades
CHECK_DEADLOCK FALSE
