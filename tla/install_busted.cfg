\* No query fails of its own accord: a table created meanwhile is enough.
SPECIFICATION Spec
CONSTANTS
  account = account
  vpc = vpc
  role = role
  ec2 = ec2
  NoModule = NoModule
  Module <- Three
  Dependencies <- Chain
  ForeignKeys <- Chain
  MayFail = FALSE
  MayCrash = FALSE
INVARIANTS
  NotBusted
