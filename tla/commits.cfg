\* Changes the cloud may refuse or ignore: commits apply, revert, sync, and end.
SPECIFICATION FairSpec
CONSTANTS
  parent = parent
  child = child
  good = good
  other = other
  bad = bad
  odd = odd
  u1 = u1
  u2 = u2
  Absent = Absent
  Entity <- Pair
  Needs <- PairNeeds
  Value <- AnyValue
  Rejected <- Bad
  Ignored <- Odd
  User <- Alone
  MaxWrites = 3
  MaxExternal = 0
  LongWrites = FALSE
  Flaky = FALSE
  MayCrash = FALSE
INVARIANTS
  TypeOK
  CommitTakesEffect
  FailedCommitUndone
PROPERTIES
  CommitEnds
  EventuallyInSync
  EveryChangeTaken
