SPECIFICATION FairSpec
CONSTANTS
  j1 = j1
  j2 = j2
  j3 = j3
  Job <- ThreeJobs
  Initial = {j1, j2}
  Resolvable = {j1, j3}
  Occurs <- OccursThree
  MaxConcurrent = 1
  StoreOutcomes <- Sometimes
  Crashes = FALSE
  MaxTime = 2
  MaxLives = 1
  MaxCommands = 1
  Toggles = TRUE
CHECK_DEADLOCK FALSE
PROPERTY JobsRunAndStop
