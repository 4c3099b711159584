SPECIFICATION Spec
CONSTANTS
  Db = {d1, d2}
  NoDb = none
  Slot = {h1}
  MayFail = TRUE
  MayCrash = TRUE
  MaxRestarts = 2
INVARIANTS
  TypeOK
  LiveKept
  ConnectTold
PROPERTIES
  UpgradeRestores
SYMMETRY Alike
CHECK_DEADLOCK FALSE
