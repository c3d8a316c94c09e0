SPECIFICATION Spec
CONSTANTS
  Users = {u1}
  Browsers = {b1, b2}
  TokenIds = {t1, t2, t3}
  None = None
  Requests = {q1, q2}
  AccessTtl = 1
  RefreshTtl = 1
  RequestSpan = 1
  MaxTime = 2
INVARIANTS
  SessionTypeOK
  OneTokenPerLogin
  RoleChangeIsInForceInTime
PROPERTY
  EndedSessionsStayEnded
SYMMETRY Interchangeable
CHECK_DEADLOCK FALSE
