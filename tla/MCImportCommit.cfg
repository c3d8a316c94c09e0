SPECIFICATION ImportSpec
CONSTANTS
  a1 = a1  a2 = a2  u1 = u1  x1 = x1  o1 = o1  o2 = o2
  Accounts = {a1, a2}
  Owner <- SameOwner
  Assets = {x1}
  NoAsset = NoAsset
  TwAssets = {x1}
  TxIds = {1, 2, 3}
  NoTx = NoTx
  Inputs <- ConcurrentInputs
  Requests = {q1, q2}
  Files <- ConcurrentFiles
  NoFile = NoFile
  OrderNos = {o1, o2}
  NoOrder = NoOrder
  SplitBooks <- MaybeASplit
  MaxEdits = 2
INVARIANTS
  ImportTypeOK
  BookConsistent
PROPERTY
  CommitIsAtomic
SYMMETRY Interchangeable
CHECK_DEADLOCK FALSE
