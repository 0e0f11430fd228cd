SPECIFICATION ProcessesSpec
CONSTANTS
  Waiters = {w1, w2, w3}
  Cancellers = {c1, c2}
  Runs = {"a", "b"}
  Jobs <- MCJobs
  RunOf <- MCRunOf
  Slots = 3
  Procs = {"p", "q", "r"}
  MaxCalls = 1
  MaxCrashes = 1
  MaxBreaks = 1
  MaxSweeps = 1
INVARIANTS
  NoLostWakeup
  OnlyCancelledReturns
  SlotsAreShared
  CasIsExact
PROPERTY WaitsEnd
CHECK_DEADLOCK FALSE
