SPECIFICATION Spec
CONSTANTS
  j1 = j1
  j2 = j2
  j3 = j3
  Job <- TwoJobs
  Initial = {j1, j2}
  Resolvable = {j1, j2}
  Occurs <- OccursTwo
  MaxConcurrent = 2
  StoreOutcomes <- Always
  Crashes = TRUE
  MaxTime = 2
  MaxLives = 2
  MaxCommands = 1
  Toggles = FALSE
CHECK_DEADLOCK FALSE
INVARIANTS DispatchIsSound NeverTwice StopSettles
