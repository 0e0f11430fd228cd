SPECIFICATION HomeSpec
CONSTANTS
  Runs = {r1, r2}
  Paths <- MCPaths
  Tracked = {"a"}
  CaptureAttempts = 2
  MaxChanges = 3
  MaxGenerations = 2
  MaxStarted = 3
  MaxReaders = 1
  MaxTogether = 5
  Users <- MCUsers
  RepoOf <- MCRepoOf
  Legacy <- MCLegacy
  MaxSecrets = 2
  Callers = {"a", "b"}
  Logins = {"l", "m"}
  Device = {"l"}
  Life = 2
  Margin = 1
  RefreshLife = 3
  MaxTime = 3
  SlowStep = 2
  Codes <- MCCodes
  Cases <- ConfirmCases
  Dirs = {"d"}
  MaxAttempts = 2
INVARIANTS
  
  
  
  SecretsSurvive
  ConfirmationIsExact
CHECK_DEADLOCK FALSE
