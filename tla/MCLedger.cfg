SPECIFICATION AdminSpec
CONSTANTS
  a1 = a1  a2 = a2  u1 = u1  u2 = u2  x1 = x1
  Accounts = {a1, a2}
  Owner <- OwnerOfEach
  Assets = {x1}
  NoAsset = NoAsset
  TwAssets = {x1}
  TxIds = {1, 2, 3, 4}
  NoTx = NoTx
  Inputs <- TheTrades
INVARIANTS
  TypeOK
  ChronologicalFifo
  PositionMatchesOpenLots
  LedgerRowsResolve
  OwnersEntryCurrent
CONSTRAINT FewRows
CHECK_DEADLOCK FALSE
