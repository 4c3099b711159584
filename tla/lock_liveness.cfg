\* One user and the cron job, no faults: waits end and the lock is released.
SPECIFICATION FairSpec
CONSTANTS
  u1 = u1
  u2 = u2
  h1 = h1
  h2 = h2
  h3 = h3
  Cron = Cron
  NoTx = NoTx
  Users <- OneUser
  Handlers <- TwoHandlers
  Loops = 2
  UserRpcs <- TakeRpcs
  MayTimeout = FALSE
  MayCrash = FALSE
PROPERTIES
  CallsReturn
  LockReleased
  SyncResumes
