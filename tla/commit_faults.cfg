\* Two users with long transactions, cloud calls that fail at will, workers that die.
SPECIFICATION Spec
CONSTANTS
  parent = parent
  child = child
  good = good
  other = other
  bad = bad
  odd = odd
  u1 = u1
  u2 = u2
  Absent = Absent
  Entity <- Pair
  Needs <- PairNeeds
  Value <- OneValue
  Rejected <- None
  Ignored <- None
  User <- TwoUsers
  MaxWrites = 2
  MaxExternal = 1
  LongWrites = TRUE
  Flaky = TRUE
  MayCrash = TRUE
INVARIANTS
  NoChangeSkipped
  SyncedAtEnd
