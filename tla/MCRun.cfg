SPECIFICATION RunSpec
CONSTANTS
  ServiceCount = 2
  Runs = {a, b}
  MaxFaults = 1
INVARIANTS
  StepsAreContained
  
  
  
  FailureSurfaces
  ReportsAreComplete
  RecoveryIsSafe
  LockedContentSurvives
PROPERTIES
  JobReturns
  
