SPECIFICATION Spec
CONSTANTS
  Mapper <- MapperNames
  Columns <- ColumnNames
  TraitOf <- TraitOfMapper
  Plan <- PlanOfMapper
  Scenario <- Scenarios
  Copies = 3
  MaxFaults = 1
  MaxHelp = 1
INVARIANTS
  TypeOK
  CommitSucceeds
  OneFailureTolerated
  IntentKept
  OneResource
  LeaksBounded
  BuiltInKept
  NeverWithout
  CutForCause
PROPERTIES
  CommitEndsOrLoops
  Reconciles
