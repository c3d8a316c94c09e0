SPECIFICATION AccountsSpec
CONSTANTS
  u1 = u1  admin = admin
  a1 = a1  a2 = a2
  t1 = t1
  None = None
  Users = {u1, admin}
  Admins = {admin}
  AccountIds = {a1, a2}
  Currencies = {"TWD", "USD"}
  TxIds = {t1}
  TxTypes = {"deposit", "buy"}
  ManualGl <- TheManualGl
  MaxEntries = 2
INVARIANTS
  AccountsTypeOK
  CashAccountOfEachAccount
  JournalStaysBalanced
  EveryTransactionIsPosted
PROPERTY
  PostingsStayWithUser
SYMMETRY Interchangeable
CHECK_DEADLOCK FALSE
