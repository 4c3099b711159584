\* Two users and the cron job call every kind of RPC; requests time out, workers crash.
SPECIFICATION Spec
CONSTANTS
  u1 = u1
  u2 = u2
  h1 = h1
  h2 = h2
  h3 = h3
  Cron = Cron
  NoTx = NoTx
  Users <- TwoUsers
  Handlers <- TwoHandlers
  Loops = 1
  UserRpcs <- MostRpcs
  MayTimeout = TRUE
  MayCrash = TRUE
CONSTRAINT OnlyTimeouts
VIEW AnyTrouble
SYMMETRY Symmetry
INVARIANTS
  TypeOK
  SoleCommit
  CommitOwnsTransaction
  BegunStaysOpen
  TransactionIdFound
PROPERTY
  TakesTurns
