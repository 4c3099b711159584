\* Installs and removals that fail or die anywhere, among users' DDL.
SPECIFICATION Spec
CONSTANTS
  account = account
  vpc = vpc
  role = role
  ec2 = ec2
  NoModule = NoModule
  Module <- Four
  Dependencies <- Diamond
  ForeignKeys <- DiamondKeys
  MayFail = TRUE
  MayCrash = TRUE
INVARIANTS
  TypeOK
  RegistryClosed
  NeverSpins
  RowsMatchTables
