\* A change made while a failed commit reverts.
SPECIFICATION Spec
CONSTANTS
  parent = parent
  child = child
  good = good
  other = other
  bad = bad
  odd = odd
  u1 = u1
  u2 = u2
  Absent = Absent
  Entity <- Pair
  Needs <- PairNeeds
  Value <- BadValue
  Rejected <- Bad
  Ignored <- None
  User <- Alone
  MaxWrites = 2
  MaxExternal = 0
  LongWrites = FALSE
  Flaky = FALSE
  MayCrash = FALSE
PROPERTIES
  RevertKeepsLaterChanges
