SPECIFICATION Spec
CONSTANTS
  Db = {d1, d2}
  NoDb = none
  Slot = {h1}
  MayFail = FALSE
  MayCrash = FALSE
  MaxRestarts = 1
INVARIANTS
  StartupSurvives
CHECK_DEADLOCK FALSE
