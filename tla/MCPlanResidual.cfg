SPECIFICATION Spec
CONSTANTS
  MaxDepth = 20
  MaxJsonDepth = 3
  Jobs <- ListJobs
  Roots <- MCRoots
  RunRoots <- MCRunRoots
  NeedIds <- MCNeedIds
  Effects <- MCEffects
INVARIANT ResidualMeansTheSource
CHECK_DEADLOCK FALSE
