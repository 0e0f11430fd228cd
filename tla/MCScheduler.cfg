SPECIFICATION FairSpec
CONSTANTS
  NoKey = "none"
  NoLeg = "noleg"
  Keys = {"k"}
  Workers = 1
  MaxWave = 2
  Groups <- MCGroups
  Legs <- MCLegs
  GroupOf <- MCGroupOf
  Index <- MCIndex
  LegCount <- MCLegCount
  MaxParallel <- MCMaxParallel
  FailFast <- MCFailFast
  Wave <- MCWave
  Needs <- MCNeeds
  Condition <- MCCondition
  Key <- MCKey
  CancelInProgress <- MCCancel
INVARIANTS
  TypeOK
  GateExclusive
  NoLegWaitsAtOpenGate
  ReportsAreHonest
PROPERTIES
  StopsAfterFailure
  Terminates
  DagSpec
