SPECIFICATION Spec
CONSTANTS
  Days = {1, 2, 3}
  Quantities = {1, 2}
  MaxHistory = 2
  MaxRows = 3
INVARIANTS
  ReadyRowsPlay
  NoNeedlessBlockAtTheEnd
  ReasonsFit
  UsualImportSucceeds
  NoSameDayFunding
CHECK_DEADLOCK FALSE
