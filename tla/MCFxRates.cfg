SPECIFICATION FxSpec
CONSTANTS
  r1 = r1  r2 = r2  r3 = r3
  Requests = {r1, r2, r3}
  RateDays = {2, 3}
  LastDay = 4
  MaxFaults = 1
INVARIANTS
  AnswersFitTheQuestion
  DoubledRowsAreFew
PROPERTY
  StoredRatesStay
SYMMETRY Interchangeable
CHECK_DEADLOCK FALSE
