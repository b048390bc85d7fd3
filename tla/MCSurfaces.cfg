CONSTANTS
  r1 = r1
  r2 = r2
  g = g
  a1 = a1
  a0 = a0
  RootId = {r1, r2}
  Goal = {g}
  GoalOf <- MCGoalOf
  AgentId = {a1, a0}
  RunOf <- MCRunOf
  NoRun = NoRun
  Client = {c1, c2}
  c1 = c1
  c2 = c2
  SurfaceOf <- MCSurfaceOf
  Keys = {r1}
  MaxFaults = 1
  RunId = {r1, r2}
  None = None
  MaxInputs = 3
  MaxOutside = 1
  AppFaults = 1
SPECIFICATION MCSpec
INVARIANTS RowsAgree ScreenIsRight
PROPERTIES RequestsAreHeard SilenceIsNoticed
CHECK_DEADLOCK FALSE
