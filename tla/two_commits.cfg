\* Two commits run together.
SPECIFICATION Spec
CONSTANTS
  u1 = u1
  u2 = u2
  h1 = h1
  h2 = h2
  h3 = h3
  Cron = Cron
  NoTx = NoTx
  Users <- OneUser
  Handlers <- TwoHandlers
  Loops = 1
  UserRpcs <- LockRpcs
  MayTimeout = TRUE
  MayCrash = FALSE
SYMMETRY Symmetry
INVARIANTS
  NoTwoCommits
